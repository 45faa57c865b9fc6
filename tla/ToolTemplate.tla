---------------------------- MODULE ToolTemplate ----------------------------
(***************************************************************************)
(* How a tool's template becomes a statement: by replacing the text of its *)
(* placeholders, parameter by parameter, or by placeholders that the       *)
(* driver binds to a list of values.                                       *)
(*                                                                         *)
(* A text is a sequence of characters.  A call has the text of the         *)
(* template and the values of its parameters, texts by name; numbers in    *)
(* what is sent stand for the driver's placeholders, 0 for one without a   *)
(* number, and a template has none of these itself.                        *)
(***************************************************************************)
EXTENDS Integers, Sequences, SequencesExt

CONSTANTS
  Chars,    \* the characters
  Colon,    \* the one before a placeholder's name
  Letters,  \* those of a name
  Quote,    \* the one around a literal of SQL
  Null      \* what a missing parameter is bound to

ASSUME CharsAssumption ==
  /\ {Colon, Quote, Null} \cup Letters \subseteq Chars
  /\ {Colon, Quote} \cap Letters = {} /\ Quote # Colon
  /\ \A c \in Chars : c \notin Nat

\* The text s with every old replaced by new, from the left (strings.ReplaceAll).
Matches(s, i, old) ==
  i + Len(old) - 1 <= Len(s) /\ \A k \in 1 .. Len(old) : s[i + k - 1] = old[k]

ReplaceEvery(s, old, new) ==
  LET rest[i \in 1 .. Len(s) + 1] ==
        IF i > Len(s) THEN <<>>
        ELSE IF Matches(s, i, old) THEN new \o rest[i + Len(old)]
        ELSE <<s[i]>> \o rest[i + 1]
  IN rest[1]

\* ExecuteTemplate for types without bound parameters: what is sent when the
\* map of parameters is iterated in this order.
SubstitutedIn(call, order) ==
  LET body[k \in 0 .. Len(order)] ==
        IF k = 0 THEN call.text
        ELSE ReplaceEvery(body[k - 1], <<Colon>> \o order[k], call.params[order[k]])
  IN [text |-> body[Len(order)], args |-> <<>>]

Substituted(call) == {SubstitutedIn(call, order) : order \in SetToSeqs(DOMAIN call.params)}

\* The name of the placeholder at i, as long as its letters go (paramRegex).
NameAt(s, i) ==
  LET ends == {j \in i + 1 .. Len(s) : \A k \in i + 1 .. j : s[k] \in Letters}
  IN IF s[i] # Colon \/ ends = {} THEN <<>> ELSE SubSeq(s, i + 1, Max(ends))

Used(call) == {NameAt(call.text, i) : i \in DOMAIN call.text} \ {<<>>}

Value(call, name) == IF name \in DOMAIN call.params THEN call.params[name] ELSE <<Null>>

\* One pass over the text that puts new[<<name, n>>] for the n-th placeholder.
ScanStep(call, new, acc, i) ==
  LET name == NameAt(call.text, i) IN
  IF i <= acc.upto THEN acc
  ELSE IF name = <<>> THEN [acc EXCEPT !.text = Append(@, call.text[i])]
  ELSE [text |-> acc.text \o new[<<name, Len(acc.args) + 1>>],
        args |-> Append(acc.args, Value(call, name)),
        upto |-> i + Len(name)]

Scanned(call, new) ==
  LET scan[i \in 0 .. Len(call.text)] ==
        IF i = 0 THEN [text |-> <<>>, args |-> <<>>, upto |-> 0]
        ELSE ScanStep(call, new, scan[i - 1], i)
  IN scan[Len(call.text)]

Numbers(call, numbered) ==
  [p \in Used(call) \X Nat |-> <<IF numbered THEN p[2] ELSE 0>>]

\* Wrong: a parameter that is missing is not bound to anything.
ConvertedSkippingNull(call, numbered) ==
  LET scanned == Scanned(call, Numbers(call, numbered))
  IN [text |-> scanned.text, args |-> SelectSeq(scanned.args, LAMBDA v : v # <<Null>>)]

\* convertNamedParams.  Oracle gets a marker without a number like others, and
\* a literal is searched like any text.
Converted(call, numbered) ==
  LET scanned == Scanned(call, Numbers(call, numbered))
  IN [text |-> scanned.text, args |-> scanned.args]

-----------------------------------------------------------------------------
(* What a template means: every placeholder stands for its parameter's value. *)

Values(call) == [p \in Used(call) \X Nat |-> Value(call, p[1])]
Meant(call) == Scanned(call, Values(call)).text

ValuesOrLeft(call) ==
  [p \in Used(call) \X Nat |->
     IF p[1] \in DOMAIN call.params THEN call.params[p[1]] ELSE <<Colon>> \o p[1]]
MeantOrLeft(call) == Scanned(call, ValuesOrLeft(call)).text

\* After an odd number of quotes a text is inside a literal.
Counted(quotes, ch) == IF ch = Quote THEN quotes + 1 ELSE quotes
InLiteral(quotes) == quotes % 2 = 1

\* What a driver that knows the marker, and the database, make of a statement
\* and its list of values: a marker in a literal is part of the literal.
BindStep(sent, acc, ch) ==
  LET n == IF ch = 0 THEN acc.n + 1 ELSE ch IN
  IF ch \notin Nat \/ InLiteral(acc.quotes)
  THEN [acc EXCEPT !.text = Append(@, ch), !.quotes = Counted(@, ch)]
  ELSE [acc EXCEPT !.text = @ \o (IF n \in DOMAIN sent.args THEN sent.args[n] ELSE <<>>), !.n = n]

Bound(sent) ==
  LET bind[i \in 0 .. Len(sent.text)] ==
        IF i = 0 THEN [text |-> <<>>, n |-> 0, quotes |-> 0]
        ELSE BindStep(sent, bind[i - 1], sent.text[i])
  IN bind[Len(sent.text)].text

\* The quotes up to each place of a text.
Quotes(text) ==
  LET quotes[i \in 0 .. Len(text)] == IF i = 0 THEN 0 ELSE Counted(quotes[i - 1], text[i])
  IN quotes

\* Values are only bound where no placeholder is in a literal.
Unquoted(call) ==
  \A i \in DOMAIN call.text : NameAt(call.text, i) # <<>> => ~InLiteral(Quotes(call.text)[i - 1])

\* Replacing text is only understood for values without placeholders, names of
\* letters of which none begins another placeholder or is begun by one, and no
\* colon right before a placeholder: it would make one of the value.
Clear(call) ==
  LET names == DOMAIN call.params
      text == call.text
  IN /\ \A n \in names : \A i \in DOMAIN call.params[n] : call.params[n][i] # Colon
     /\ \A n \in names : n # <<>> /\ \A i \in DOMAIN n : n[i] \in Letters
     /\ \A n \in names, m \in names \cup Used(call) : n # m => ~IsPrefix(n, m) /\ ~IsPrefix(m, n)
     /\ \A i \in 1 .. Len(text) - 1 : text[i] = Colon => text[i + 1] # Colon
=============================================================================
