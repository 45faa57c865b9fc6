-------------------------- MODULE ToolTemplateProofs --------------------------
(***************************************************************************)
(* Proofs about ToolTemplate, for templates and values of every length:    *)
(* binding values gives what the template means, and so does replacing     *)
(* text where the call is Clear.                                           *)
(*                                                                         *)
(* The definitions are recursive functions.  Induction over a text comes   *)
(* from the library's theorem that every set in a well-founded order has a *)
(* minimal element: the places where a claim fails have none.              *)
(***************************************************************************)
EXTENDS ToolTemplate, SequenceTheorems, FiniteSetTheorems, WellFoundedInduction, TLAPS

-----------------------------------------------------------------------------
(* Induction and recursion.                                                  *)

\* A set of naturals has a least element.
LEMMA LeastElement ==
  ASSUME NEW T, T \subseteq Nat, T # {}
  PROVE  \E x \in T : \A y \in T : x <= y
<1> DEFINE Less == {p \in Nat \X Nat : p[1] < p[2]}
<1>1. IsWellFoundedOn(Less, Nat)
  BY NatLessThanWellFounded DEF OpToRel
<1>2. PICK x \in T : \A y \in T : <<y, x>> \notin Less
  <2> HIDE DEF Less
  <2> QED
    BY <1>1, WFMin
<1>3. ASSUME NEW y \in T PROVE x <= y
  <2>1. ~(y < x)
    BY <1>2
  <2> QED
    BY <2>1
<1> QED
  BY <1>3

\* Induction from 0 upwards.
LEMMA UpInduction ==
  ASSUME NEW n \in Nat, NEW S, 0 \in S, \A i \in 1 .. n : i - 1 \in S => i \in S
  PROVE  0 .. n \subseteq S
<1> SUFFICES ASSUME (0 .. n) \ S # {} PROVE FALSE
  OBVIOUS
<1>1. PICK x \in (0 .. n) \ S : \A y \in (0 .. n) \ S : x <= y
  <2> DEFINE T == (0 .. n) \ S
  <2>1. T \subseteq Nat /\ T # {}
    OBVIOUS
  <2> HIDE DEF T
  <2>2. \E x \in T : \A y \in T : x <= y
    BY <2>1, LeastElement
  <2> QED
    BY <2>2 DEF T
<1>2. x \in 1 .. n /\ x - 1 \in 0 .. n
  BY <1>1
<1>3. x - 1 \in S
  BY <1>1, <1>2
<1> QED
  BY <1>1, <1>2, <1>3

\* Induction from n + 1 downwards, where i may rest on all that come after it.
LEMMA DownInduction ==
  ASSUME NEW n \in Nat, NEW S,
         \A i \in 1 .. n + 1 : (\A j \in i + 1 .. n + 1 : j \in S) => i \in S
  PROVE  1 .. n + 1 \subseteq S
<1> SUFFICES ASSUME NEW i \in 1 .. n + 1, i \notin S PROVE FALSE
  OBVIOUS
<1> DEFINE T == {k \in 0 .. n : n + 1 - k \notin S}
<1>1. n + 1 - i \in T
  OBVIOUS
<1>2. PICK x \in T : \A y \in T : x <= y
  <2> HIDE DEF T
  <2>1. T \subseteq Nat
    BY DEF T
  <2> QED
    BY <1>1, <2>1, LeastElement
<1>3. ASSUME NEW j \in n + 1 - x + 1 .. n + 1 PROVE j \in S
  <2>1. n + 1 - j \in 0 .. n /\ n + 1 - j < x /\ n + 1 - (n + 1 - j) = j
    BY <1>2
  <2>2. n + 1 - j \notin T
    BY <1>2, <2>1
  <2> QED
    BY <2>1, <2>2
<1>4. n + 1 - x \in 1 .. n + 1 /\ n + 1 - x \notin S
  BY <1>2
<1> QED
  BY <1>3, <1>4

\* f is defined by recursion from 0 to n.
Recurses(f, n, base, G) == f[0] = base /\ \A i \in 1 .. n : f[i] = G[<<i, f[i - 1]>>]

\* A function may be defined so.
LEMMA RecursionDefines ==
  ASSUME NEW n \in Nat, NEW T, NEW base \in T, NEW G \in [(1 .. n) \X T -> T]
  PROVE  \E f \in [0 .. n -> T] : Recurses(f, n, base, G)
<1> DEFINE Good(k, f) == f[0] = base /\ \A i \in 1 .. k : f[i] = G[<<i, f[i - 1]>>]
           S == {k \in 0 .. n : \E f \in [0 .. k -> T] : Good(k, f)}
<1>1. 0 \in S
  <2>1. [i \in 0 .. 0 |-> base] \in [0 .. 0 -> T] /\ Good(0, [i \in 0 .. 0 |-> base])
    OBVIOUS
  <2>2. \E f \in [0 .. 0 -> T] : Good(0, f)
    <3> HIDE DEF Good
    <3> QED
      BY <2>1
  <2> QED
    BY <2>2
<1>2. ASSUME NEW k \in 1 .. n, k - 1 \in S PROVE k \in S
  <2>1. PICK f \in [0 .. k - 1 -> T] : Good(k - 1, f)
    BY <1>2
  <2> DEFINE g == [i \in 0 .. k |-> IF i = k THEN G[<<k, f[k - 1]>>] ELSE f[i]]
  <2>2. g \in [0 .. k -> T]
    <3>1. f[k - 1] \in T
      OBVIOUS
    <3>2. G[<<k, f[k - 1]>>] \in T
      BY <3>1
    <3> QED
      BY <3>2
  <2>3. Good(k, g)
    <3>1. \A i \in 0 .. k - 1 : g[i] = f[i]
      OBVIOUS
    <3>2. g[k] = G[<<k, g[k - 1]>>]
      <4>1. g[k] = G[<<k, f[k - 1]>>] /\ k - 1 \in 0 .. k - 1
        OBVIOUS
      <4> HIDE DEF g
      <4> QED
        BY <3>1, <4>1
    <3>3. ASSUME NEW i \in 1 .. k - 1 PROVE g[i] = G[<<i, g[i - 1]>>]
      BY <2>1, <3>1
    <3>4. g[0] = base
      BY <2>1, <3>1
    <3>5. \A i \in 1 .. k : i \in 1 .. k - 1 \/ i = k
      OBVIOUS
    <3> HIDE DEF g
    <3> QED
      BY <3>2, <3>3, <3>4, <3>5
  <2>4. \E h \in [0 .. k -> T] : Good(k, h)
    <3> HIDE DEF Good, g
    <3> QED
      BY <2>2, <2>3
  <2> QED
    BY <2>4
<1>3. 0 .. n \subseteq S
  <2> HIDE DEF S
  <2> QED
    BY <1>1, <1>2, UpInduction
<1>4. n \in S
  BY <1>3
<1> QED
  BY <1>4 DEF Recurses

\* f gives texts from each place on: each has a piece and says where to go on.
Pieced(f, n, piece, next) == f[n + 1] = <<>> /\ \A i \in 1 .. n : f[i] = piece[i] \o f[next[i]]

\* From each place on, to a later one.
Onward(next, n) == next \in [1 .. n -> 1 .. n + 1] /\ \A i \in 1 .. n : next[i] > i

\* Texts may be defined so, from the end.
LEMMA PiecesDefine ==
  ASSUME NEW n \in Nat, NEW A, NEW piece \in [1 .. n -> Seq(A)], NEW next, Onward(next, n)
  PROVE  \E f \in [1 .. n + 1 -> Seq(A)] : Pieced(f, n, piece, next)
<1> DEFINE Good(k, f) == f[n + 1] = <<>> /\ \A i \in k .. n : f[i] = piece[i] \o f[next[i]]
           S == {k \in 1 .. n + 1 : \E f \in [k .. n + 1 -> Seq(A)] : Good(k, f)}
<1>1. ASSUME NEW k \in 1 .. n + 1, \A j \in k + 1 .. n + 1 : j \in S PROVE k \in S
  <2>1. CASE k = n + 1
    <3>1. [i \in k .. n + 1 |-> <<>>] \in [k .. n + 1 -> Seq(A)]
      BY EmptySeq
    <3> DEFINE g == [i \in k .. n + 1 |-> <<>>]
    <3>2. g[n + 1] = <<>> /\ \A i \in k .. n : FALSE
      BY <2>1
    <3> HIDE DEF g
    <3>3. Good(k, g)
      BY <3>2
    <3>4. \E h \in [k .. n + 1 -> Seq(A)] : Good(k, h)
      <4> HIDE DEF Good
      <4> QED
        BY <3>1, <3>3 DEF g
    <3> QED
      BY <3>4
  <2>2. CASE k \in 1 .. n
    <3>0. k + 1 \in S
      <4>1. k + 1 \in k + 1 .. n + 1
        BY <2>2
      <4> HIDE DEF S
      <4> QED
        BY <1>1, <4>1
    <3>1. PICK f \in [k + 1 .. n + 1 -> Seq(A)] : Good(k + 1, f)
      BY <3>0
    <3> DEFINE g == [i \in k .. n + 1 |-> IF i = k THEN piece[k] \o f[next[k]] ELSE f[i]]
    <3>2. next[k] \in k + 1 .. n + 1
      <4>1. next[k] \in 1 .. n + 1 /\ next[k] > k
        BY <2>2 DEF Onward
      <4> QED
        BY <4>1
    <3>3. g \in [k .. n + 1 -> Seq(A)]
      <4>1. piece[k] \o f[next[k]] \in Seq(A)
        <5>1. piece[k] \in Seq(A) /\ f[next[k]] \in Seq(A)
          BY <2>2, <3>2
        <5> QED
          BY <5>1, ConcatProperties
      <4> QED
        BY <2>2, <4>1
    <3>4. \A i \in k + 1 .. n + 1 : g[i] = f[i]
      BY <2>2
    <3>5. g[k] = piece[k] \o g[next[k]]
      <4>1. k \in k .. n + 1
        BY <2>2
      <4>2. g[k] = piece[k] \o f[next[k]]
        BY <4>1
      <4>3. g[next[k]] = f[next[k]]
        <5> HIDE DEF g
        <5> QED
          BY <3>2, <3>4
      <4> HIDE DEF g
      <4> QED
        BY <4>2, <4>3
    <3>6. ASSUME NEW i \in k + 1 .. n PROVE g[i] = piece[i] \o g[next[i]]
      <4>1. i \in 1 .. n /\ k \in Nat
        BY <2>2
      <4>2. next[i] \in 1 .. n + 1 /\ next[i] > i
        BY <4>1 DEF Onward
      <4>3. next[i] \in k + 1 .. n + 1 /\ i \in k + 1 .. n + 1
        BY <4>1, <4>2
      <4>4. f[i] = piece[i] \o f[next[i]]
        BY <3>1
      <4> HIDE DEF g
      <4> QED
        BY <3>4, <4>3, <4>4
    <3>7. g[n + 1] = <<>>
      BY <2>2, <3>1
    <3>8. \A i \in k .. n : i = k \/ i \in k + 1 .. n
      BY <2>2
    <3>9. Good(k, g)
      <4> HIDE DEF g
      <4> QED
        BY <3>5, <3>6, <3>7, <3>8
    <3>10. \E h \in [k .. n + 1 -> Seq(A)] : Good(k, h)
      <4> HIDE DEF Good, g
      <4> QED
        BY <3>3, <3>9
    <3> QED
      BY <3>10
  <2>3. k = n + 1 \/ k \in 1 .. n
    OBVIOUS
  <2> HIDE DEF S
  <2> QED
    BY <2>1, <2>2, <2>3
<1>2. 1 .. n + 1 \subseteq S
  <2> HIDE DEF S
  <2> QED
    BY <1>1, DownInduction
<1>3. 1 \in S
  <2>1. 1 \in 1 .. n + 1
    OBVIOUS
  <2> HIDE DEF S
  <2> QED
    BY <1>2, <2>1
<1> QED
  BY <1>3 DEF Pieced

\* There is one such text.
LEMMA PiecesUnique ==
  ASSUME NEW n \in Nat, NEW piece, NEW next, Onward(next, n),
         NEW f, Pieced(f, n, piece, next), NEW g, Pieced(g, n, piece, next)
  PROVE  \A i \in 1 .. n + 1 : f[i] = g[i]
<1> DEFINE S == {i \in 1 .. n + 1 : f[i] = g[i]}
<1>1. ASSUME NEW i \in 1 .. n + 1, \A j \in i + 1 .. n + 1 : j \in S PROVE i \in S
  <2>1. CASE i = n + 1
    BY <2>1 DEF Pieced
  <2>2. CASE i \in 1 .. n
    <3>1. next[i] \in i + 1 .. n + 1
      BY <2>2 DEF Onward
    <3> QED
      BY <1>1, <2>2, <3>1 DEF Pieced
  <2> QED
    BY <2>1, <2>2
<1>2. 1 .. n + 1 \subseteq S
  <2> HIDE DEF S
  <2> QED
    BY <1>1, DownInduction
<1> QED
  BY <1>2

-----------------------------------------------------------------------------
(* Names in a text.                                                          *)

\* Max is what it says.
LEMMA MaxIsGreatest ==
  ASSUME NEW n \in Nat, NEW S, S \subseteq 0 .. n, S # {}
  PROVE  Max(S) \in S /\ \A y \in S : Max(S) >= y
<1> DEFINE T == {m \in Nat : \A y \in S : y <= m}
<1>1. n \in T
  OBVIOUS
<1>2. PICK m \in T : \A k \in T : m <= k
  <2>1. T \subseteq Nat /\ T # {}
    BY <1>1
  <2> HIDE DEF T
  <2> QED
    BY <2>1, LeastElement
<1>3. m \in S
  <2> SUFFICES ASSUME m \notin S PROVE FALSE
    OBVIOUS
  <2>1. PICK z \in S : TRUE
    OBVIOUS
  <2>2. z <= m /\ z # m /\ z \in Nat /\ m \in Nat
    BY <1>2, <2>1
  <2>3. \A y \in S : y \in Nat /\ y <= m /\ y # m
    BY <1>2
  <2>4. m - 1 \in Nat /\ \A y \in S : y <= m - 1
    BY <2>2, <2>3
  <2>5. m - 1 \in T
    BY <2>4
  <2> HIDE DEF T
  <2> QED
    BY <1>2, <2>2, <2>5
<1>4. \E x \in S : \A y \in S : x >= y
  BY <1>2, <1>3
<1> QED
  BY <1>4 DEF Max

\* A name is there as it stands after its colon, and no longer.
IsNameAt(s, i, name) ==
  /\ name \in Seq(Chars)
  /\ i + Len(name) <= Len(s)
  /\ \A k \in 1 .. Len(name) : name[k] \in Letters /\ s[i + k] = name[k]
  /\ name # <<>> => s[i] = Colon /\ (i + Len(name) < Len(s) => s[i + Len(name) + 1] \notin Letters)
  /\ name = <<>> => s[i] # Colon \/ i = Len(s) \/ s[i + 1] \notin Letters

\* What NameAt finds is the name of the placeholder there, or nothing.
LEMMA NameAtFacts ==
  ASSUME NEW s \in Seq(Chars), NEW i \in 1 .. Len(s)
  PROVE  IsNameAt(s, i, NameAt(s, i))
<1> SUFFICES ASSUME NEW name, name = NameAt(s, i) PROVE IsNameAt(s, i, name)
  OBVIOUS
<1> DEFINE ends == {j \in i + 1 .. Len(s) : \A k \in i + 1 .. j : s[k] \in Letters}
<1>1. Len(s) \in Nat /\ i \in Nat
  BY LenProperties
<1>2. name = IF s[i] # Colon \/ ends = {} THEN <<>> ELSE SubSeq(s, i + 1, Max(ends))
  BY DEF NameAt
<1>3. CASE s[i] # Colon \/ ends = {}
  <2>1. name = <<>>
    BY <1>2, <1>3
  <2>2. s[i] # Colon \/ i = Len(s) \/ s[i + 1] \notin Letters
    <3> SUFFICES ASSUME ends = {}, i # Len(s) PROVE s[i + 1] \notin Letters
      BY <1>3
    <3>1. i + 1 \in i + 1 .. Len(s) /\ i + 1 \notin ends
      <4>1. i + 1 \in i + 1 .. Len(s)
        BY <1>1
      <4> HIDE DEF ends
      <4> QED
        BY <4>1
    <3>2. \A k \in i + 1 .. i + 1 : k = i + 1
      BY <1>1
    <3> QED
      BY <3>1, <3>2
  <2>3. <<>> \in Seq(Chars) /\ Len(<<>>) = 0
    BY EmptySeq
  <2>4. i + 0 <= Len(s) /\ \A k \in 1 .. 0 : FALSE
    BY <1>1
  <2> HIDE DEF ends
  <2> QED
    BY <2>1, <2>2, <2>3, <2>4 DEF IsNameAt
<1>4. CASE ~(s[i] # Colon \/ ends = {})
  <2> DEFINE e == Max(ends)
  <2>1. name = SubSeq(s, i + 1, e)
    BY <1>2, <1>4
  <2>2. e \in ends /\ \A y \in ends : e >= y
    <3>1. ends \subseteq 0 .. Len(s) /\ ends # {}
      BY <1>1, <1>4
    <3> HIDE DEF ends
    <3> QED
      BY <1>1, <3>1, MaxIsGreatest
  <2>3. e \in i + 1 .. Len(s) /\ \A k \in i + 1 .. e : s[k] \in Letters
    <3> HIDE DEF e
    <3> QED
      BY <2>2
  <2>4. e < Len(s) => s[e + 1] \notin Letters
    <3> SUFFICES ASSUME e < Len(s), s[e + 1] \in Letters PROVE FALSE
      OBVIOUS
    <3>1. e + 1 \in i + 1 .. Len(s) /\ e \in Nat
      <4> HIDE DEF e
      <4> QED
        BY <1>1, <2>3
    <3>2. ASSUME NEW k \in i + 1 .. e + 1 PROVE s[k] \in Letters
      <4> HIDE DEF e
      <4>1. k = e + 1 \/ k \in i + 1 .. e
        BY <1>1, <2>3, <3>1
      <4> QED
        BY <2>3, <4>1
    <3>3. e + 1 \in ends
      <4> HIDE DEF e
      <4> QED
        BY <3>1, <3>2
    <3> HIDE DEF ends, e
    <3> QED
      BY <2>2, <3>1, <3>3
  <2> HIDE DEF e, ends
  <2>5. e \in Nat /\ i + 1 \in Int /\ e \in Int /\ i + 1 <= e
    BY <1>1, <2>3
  <2>6. \A k \in i + 1 .. e : s[k] \in Chars
    <3> SUFFICES ASSUME NEW k \in i + 1 .. e PROVE s[k] \in Chars
      OBVIOUS
    <3>1. k \in 1 .. Len(s)
      BY <1>1, <2>3
    <3> QED
      BY <3>1, ElementOfSeq
  <2>7. /\ name \in Seq(Chars)
        /\ Len(name) = e - i
        /\ \A k \in 1 .. e - i : name[k] = s[i + k]
    <3>1. /\ SubSeq(s, i + 1, e) \in Seq(Chars)
          /\ Len(SubSeq(s, i + 1, e)) = IF i + 1 <= e THEN e - (i + 1) + 1 ELSE 0
          /\ \A k \in 1 .. e - (i + 1) + 1 : SubSeq(s, i + 1, e)[k] = s[i + 1 + k - 1]
      BY <2>5, <2>6, SubSeqProperties
    <3>2. e - (i + 1) + 1 = e - i /\ \A k \in 1 .. e - i : i + 1 + k - 1 = i + k
      BY <1>1, <2>5
    <3> QED
      BY <2>1, <2>5, <3>1, <3>2
  <2>8. \A k \in 1 .. e - i : i + k \in i + 1 .. e
    BY <1>1, <2>5
  <2>9. i + (e - i) = e
    BY <1>1, <2>5
  <2>10. name # <<>>
    <3>1. Len(name) # 0
      BY <1>1, <2>5, <2>7
    <3> QED
      BY <3>1
  <2> QED
    BY <1>1, <1>4, <2>3, <2>4, <2>7, <2>8, <2>9, <2>10 DEF IsNameAt
<1> QED
  BY <1>3, <1>4

-----------------------------------------------------------------------------
(* The scan, place by place.                                                 *)

\* What the code is given: texts, under finitely many names.
Proper(call) ==
  /\ call.text \in Seq(Chars)
  /\ IsFiniteSet(DOMAIN call.params) /\ DOMAIN call.params \subseteq Seq(Chars)
  /\ call.params \in [DOMAIN call.params -> Seq(Chars)]

Out == Chars \cup Nat
ScanState == [text : Seq(Out), args : Seq(Seq(Chars)), upto : Nat]
ScanStart == [text |-> <<>>, args |-> <<>>, upto |-> 0]

\* A value is a text, NULL one of a single character.
LEMMA ValueTyped ==
  ASSUME NEW call, Proper(call), NEW name
  PROVE  Value(call, name) \in Seq(Chars)
<1>1. Null \in Chars
  BY CharsAssumption
<1>2. <<Null>> \in Seq(Chars)
  BY <1>1
<1> QED
  BY <1>2 DEF Value, Proper

\* A name found in the text is one of those used.
LEMMA NamesAreUsed ==
  ASSUME NEW call, Proper(call), NEW i \in 1 .. Len(call.text), NameAt(call.text, i) # <<>>
  PROVE  NameAt(call.text, i) \in Used(call)
<1>1. i \in DOMAIN call.text
  BY LenProperties DEF Proper
<1> QED
  BY <1>1 DEF Used

\* A step of a scan stays among the states of scans.
LEMMA ScanStepTyped ==
  ASSUME NEW call, Proper(call), NEW new \in [Used(call) \X Nat -> Seq(Out)],
         NEW acc \in ScanState, NEW i \in 1 .. Len(call.text)
  PROVE  ScanStep(call, new, acc, i) \in ScanState
<1> DEFINE name == NameAt(call.text, i)
<1>1. call.text \in Seq(Chars) /\ Len(call.text) \in Nat /\ call.text[i] \in Out
  BY LenProperties, ElementOfSeq DEF Proper, Out
<1>2. name \in Seq(Chars) /\ Len(name) \in Nat /\ i \in Nat
  <2>1. IsNameAt(call.text, i, name)
    BY <1>1, NameAtFacts
  <2> HIDE DEF name
  <2> QED
    BY <1>1, <2>1, LenProperties DEF IsNameAt
<1>3. CASE i <= acc.upto
  BY <1>3 DEF ScanStep
<1>4. CASE ~(i <= acc.upto) /\ name = <<>>
  <2>1. Append(acc.text, call.text[i]) \in Seq(Out)
    BY <1>1 DEF ScanState
  <2> QED
    BY <1>4, <2>1 DEF ScanStep, ScanState
<1>5. CASE ~(i <= acc.upto) /\ name # <<>>
  <2>1. new[<<name, Len(acc.args) + 1>>] \in Seq(Out)
    <3>1. name \in Used(call)
      BY <1>5, NamesAreUsed
    <3>2. Len(acc.args) + 1 \in Nat
      BY LenProperties DEF ScanState
    <3> HIDE DEF name
    <3> QED
      BY <3>1, <3>2
  <2>2. acc.text \o new[<<name, Len(acc.args) + 1>>] \in Seq(Out)
    BY <2>1, ConcatProperties DEF ScanState
  <2>3. Append(acc.args, Value(call, name)) \in Seq(Seq(Chars))
    BY ValueTyped DEF ScanState
  <2> QED
    BY <1>2, <1>5, <2>2, <2>3 DEF ScanStep, ScanState
<1> QED
  BY <1>3, <1>4, <1>5

\* scan is the recursive function of Scanned.
IsScan(call, new, scan) ==
  /\ scan \in [0 .. Len(call.text) -> ScanState]
  /\ scan[0] = ScanStart
  /\ \A i \in 1 .. Len(call.text) : scan[i] = ScanStep(call, new, scan[i - 1], i)
  /\ Scanned(call, new) = scan[Len(call.text)]

\* The scan is defined, step by step, and Scanned is its end.
LEMMA ScanDefined ==
  ASSUME NEW call, Proper(call), NEW new \in [Used(call) \X Nat -> Seq(Out)]
  PROVE  \E scan : IsScan(call, new, scan)
<1> DEFINE n == Len(call.text)
           Rec(f) == f = [i \in 0 .. n |-> IF i = 0 THEN ScanStart ELSE ScanStep(call, new, f[i - 1], i)]
           G == [p \in (1 .. n) \X ScanState |-> ScanStep(call, new, p[2], p[1])]
           scan == CHOOSE f : Rec(f)
<1>1. n \in Nat /\ ScanStart \in ScanState
  <2>1. <<>> \in Seq(Out) /\ <<>> \in Seq(Seq(Chars))
    BY EmptySeq
  <2> QED
    BY <2>1, LenProperties DEF ScanStart, ScanState, Proper
<1>2. G \in [(1 .. n) \X ScanState -> ScanState]
  BY ScanStepTyped
<1>3. PICK f \in [0 .. n -> ScanState] : Recurses(f, n, ScanStart, G)
  <2> HIDE DEF G, n
  <2> QED
    BY <1>1, <1>2, RecursionDefines
<1>4. Rec(f)
  <2>1. ASSUME NEW i \in 1 .. n PROVE f[i] = ScanStep(call, new, f[i - 1], i)
    <3>1. f[i - 1] \in ScanState
      <4> HIDE DEF n
      <4> QED
        BY <1>1
    <3> HIDE DEF n
    <3> QED
      BY <1>3, <3>1 DEF Recurses
  <2>2. \A i \in 0 .. n : i = 0 \/ i \in 1 .. n
    BY <1>1
  <2>3. f = [i \in 0 .. n |-> f[i]]
    OBVIOUS
  <2> HIDE DEF n
  <2> QED
    BY <1>1, <1>3, <2>1, <2>2, <2>3 DEF Recurses
<1>5. Rec(scan)
  <2> HIDE DEF Rec
  <2> QED
    BY <1>4
<1>6. scan[0] = ScanStart /\ \A i \in 1 .. n : scan[i] = ScanStep(call, new, scan[i - 1], i)
  <2> HIDE DEF scan, n
  <2> QED
    BY <1>1, <1>5
<1>7. \A i \in 0 .. n : scan[i] \in ScanState
  <2> DEFINE S == {i \in 0 .. n : scan[i] \in ScanState}
  <2> HIDE DEF scan, n
  <2>1. 0 \in S
    BY <1>1, <1>6
  <2>2. ASSUME NEW i \in 1 .. n, i - 1 \in S PROVE i \in S
    <3>1. scan[i - 1] \in ScanState /\ i \in 1 .. Len(call.text)
      BY <2>2 DEF n
    <3>2. ScanStep(call, new, scan[i - 1], i) \in ScanState
      BY <3>1, ScanStepTyped
    <3> QED
      BY <1>1, <1>6, <3>2
  <2>3. 0 .. n \subseteq S
    <3> HIDE DEF S
    <3> QED
      BY <1>1, <2>1, <2>2, UpInduction
  <2> QED
    BY <2>3
<1>8. scan \in [0 .. n -> ScanState]
  <2> HIDE DEF scan, n
  <2> QED
    BY <1>5, <1>7
<1>9. Scanned(call, new) = scan[n]
  BY DEF Scanned, ScanStart
<1> QED
  <2> HIDE DEF scan
  <2> QED
    BY <1>6, <1>8, <1>9 DEF IsScan

-----------------------------------------------------------------------------
(* A step of the scan.                                                       *)

\* What it makes of acc, with the name at the place.
StepEffect(call, new, acc, i, name, next) ==
  /\ i <= acc.upto => next = acc
  /\ ~(i <= acc.upto) /\ name = <<>> =>
       next.text = Append(acc.text, call.text[i]) /\ next.args = acc.args /\ next.upto = acc.upto
  /\ ~(i <= acc.upto) /\ name # <<>> =>
       /\ name \in Used(call)
       /\ new[<<name, Len(acc.args) + 1>>] \in Seq(Out)
       /\ next.text = acc.text \o new[<<name, Len(acc.args) + 1>>]
       /\ next.args = Append(acc.args, Value(call, name))
       /\ next.upto = i + Len(name)

\* What a step does, by whether it is inside a placeholder, at one or at neither.
LEMMA ScanStepEffect ==
  ASSUME NEW call, Proper(call), NEW new \in [Used(call) \X Nat -> Seq(Out)],
         NEW acc \in ScanState, NEW i \in 1 .. Len(call.text)
  PROVE  StepEffect(call, new, acc, i, NameAt(call.text, i), ScanStep(call, new, acc, i))
<1> DEFINE name == NameAt(call.text, i)
           next == ScanStep(call, new, acc, i)
           put == new[<<name, Len(acc.args) + 1>>]
           args == Append(acc.args, Value(call, name))
           upto == i + Len(name)
<1>1. next = IF i <= acc.upto THEN acc
             ELSE IF name = <<>> THEN [acc EXCEPT !.text = Append(@, call.text[i])]
             ELSE [text |-> acc.text \o put, args |-> args, upto |-> upto]
  BY DEF ScanStep
<1>2. ~(i <= acc.upto) /\ name # <<>> => name \in Used(call) /\ put \in Seq(Out)
  <2> SUFFICES ASSUME ~(i <= acc.upto), name # <<>> PROVE name \in Used(call) /\ put \in Seq(Out)
    OBVIOUS
  <2>1. name \in Used(call)
    BY NamesAreUsed
  <2>2. Len(acc.args) + 1 \in Nat
    BY LenProperties DEF ScanState
  <2> HIDE DEF name
  <2> QED
    BY <2>1, <2>2
<1>3. ASSUME i <= acc.upto PROVE StepEffect(call, new, acc, i, name, next)
  <2> HIDE DEF name, next, put, args, upto
  <2> QED
    BY <1>1, <1>3 DEF StepEffect
<1>4. ASSUME ~(i <= acc.upto), name = <<>> PROVE StepEffect(call, new, acc, i, name, next)
  <2>1. /\ next.text = Append(acc.text, call.text[i])
        /\ next.args = acc.args
        /\ next.upto = acc.upto
    <3> HIDE DEF name, next, put, args, upto
    <3> QED
      BY <1>1, <1>4 DEF ScanState
  <2> HIDE DEF name, next, put, args, upto
  <2> QED
    BY <1>4, <2>1 DEF StepEffect
<1>5. ASSUME ~(i <= acc.upto), name # <<>> PROVE StepEffect(call, new, acc, i, name, next)
  <2>1. next.text = acc.text \o put /\ next.args = args /\ next.upto = upto
    <3> HIDE DEF name, next, put, args, upto
    <3> QED
      BY <1>1, <1>5
  <2> HIDE DEF name, next
  <2> QED
    BY <1>2, <1>5, <2>1 DEF StepEffect
<1> QED
  <2> HIDE DEF name, next, put, args, upto
  <2> QED
    BY <1>3, <1>4, <1>5 DEF name, next

-----------------------------------------------------------------------------
(* Binding.                                                                  *)

\* A marker that is in a literal stays in the text.
BindState == [text : Seq(Out), n : Nat, quotes : Nat]
BindStart == [text |-> <<>>, n |-> 0, quotes |-> 0]

\* Quotes are counted.
LEMMA CountedTyped ==
  ASSUME NEW quotes \in Nat, NEW ch
  PROVE  Counted(quotes, ch) \in Nat
BY DEF Counted

\* A step of the driver stays among its states.
LEMMA BindStepTyped ==
  ASSUME NEW sent, sent.args \in Seq(Seq(Chars)), NEW acc \in BindState, NEW ch \in Out
  PROVE  BindStep(sent, acc, ch) \in BindState
<1>1. CASE ch \notin Nat \/ InLiteral(acc.quotes)
  <2>1. Append(acc.text, ch) \in Seq(Out)
    BY DEF BindState
  <2>2. Counted(acc.quotes, ch) \in Nat
    BY CountedTyped DEF BindState
  <2>3. BindStep(sent, acc, ch) = [acc EXCEPT !.text = Append(@, ch), !.quotes = Counted(@, ch)]
    BY <1>1 DEF BindStep
  <2> QED
    BY <2>1, <2>2, <2>3 DEF BindState
<1>2. CASE ~(ch \notin Nat \/ InLiteral(acc.quotes))
  <2> DEFINE n == IF ch = 0 THEN acc.n + 1 ELSE ch
             value == IF n \in DOMAIN sent.args THEN sent.args[n] ELSE <<>>
  <2>1. n \in Nat
    BY <1>2 DEF BindState
  <2>2. value \in Seq(Chars)
    BY LenProperties, EmptySeq
  <2>3. acc.text \o value \in Seq(Out)
    <3>1. value \in Seq(Out)
      <4> HIDE DEF value
      <4> QED
        BY <2>2 DEF Out
    <3> HIDE DEF value
    <3> QED
      BY <3>1, ConcatProperties DEF BindState
  <2>4. BindStep(sent, acc, ch) = [acc EXCEPT !.text = acc.text \o value, !.n = n]
    BY <1>2 DEF BindStep
  <2> HIDE DEF n, value
  <2> QED
    BY <2>1, <2>3, <2>4 DEF BindState
<1> QED
  BY <1>1, <1>2

\* bind is the recursive function of Bound.
IsBind(sent, bind) ==
  /\ bind \in [0 .. Len(sent.text) -> BindState]
  /\ bind[0] = BindStart
  /\ \A i \in 1 .. Len(sent.text) : bind[i] = BindStep(sent, bind[i - 1], sent.text[i])
  /\ Bound(sent) = bind[Len(sent.text)].text

\* The driver's pass is defined, step by step, and Bound is its end.
LEMMA BindDefined ==
  ASSUME NEW sent, sent.text \in Seq(Out), sent.args \in Seq(Seq(Chars))
  PROVE  \E bind : IsBind(sent, bind)
<1> DEFINE n == Len(sent.text)
           Rec(f) == f = [i \in 0 .. n |-> IF i = 0 THEN BindStart ELSE BindStep(sent, f[i - 1], sent.text[i])]
           G == [p \in (1 .. n) \X BindState |-> BindStep(sent, p[2], sent.text[p[1]])]
           bind == CHOOSE f : Rec(f)
<1>1. n \in Nat /\ BindStart \in BindState
  BY EmptySeq, LenProperties DEF BindStart, BindState
<1>2. G \in [(1 .. n) \X BindState -> BindState]
  <2>1. \A i \in 1 .. n : sent.text[i] \in Out
    BY ElementOfSeq
  <2> QED
    BY <2>1, BindStepTyped
<1>3. PICK f \in [0 .. n -> BindState] : Recurses(f, n, BindStart, G)
  <2> HIDE DEF G, n
  <2> QED
    BY <1>1, <1>2, RecursionDefines
<1>4. Rec(f)
  <2>1. ASSUME NEW i \in 1 .. n PROVE f[i] = BindStep(sent, f[i - 1], sent.text[i])
    <3>1. f[i - 1] \in BindState
      <4> HIDE DEF n
      <4> QED
        BY <1>1
    <3> HIDE DEF n
    <3> QED
      BY <1>3, <3>1 DEF Recurses
  <2>2. \A i \in 0 .. n : i = 0 \/ i \in 1 .. n
    BY <1>1
  <2>3. f = [i \in 0 .. n |-> f[i]]
    OBVIOUS
  <2> HIDE DEF n
  <2> QED
    BY <1>1, <1>3, <2>1, <2>2, <2>3 DEF Recurses
<1>5. Rec(bind)
  <2> HIDE DEF Rec
  <2> QED
    BY <1>4
<1>6. bind[0] = BindStart /\ \A i \in 1 .. n : bind[i] = BindStep(sent, bind[i - 1], sent.text[i])
  <2> HIDE DEF bind, n
  <2> QED
    BY <1>1, <1>5
<1>7. \A i \in 0 .. n : bind[i] \in BindState
  <2> DEFINE S == {i \in 0 .. n : bind[i] \in BindState}
  <2> HIDE DEF bind, n
  <2>1. 0 \in S
    BY <1>1, <1>6
  <2>2. ASSUME NEW i \in 1 .. n, i - 1 \in S PROVE i \in S
    <3>1. bind[i - 1] \in BindState /\ sent.text[i] \in Out
      BY <2>2, ElementOfSeq DEF n
    <3>2. BindStep(sent, bind[i - 1], sent.text[i]) \in BindState
      BY <3>1, BindStepTyped
    <3> QED
      BY <1>1, <1>6, <3>2
  <2>3. 0 .. n \subseteq S
    <3> HIDE DEF S
    <3> QED
      BY <1>1, <2>1, <2>2, UpInduction
  <2> QED
    BY <2>3
<1>8. bind \in [0 .. n -> BindState]
  <2> HIDE DEF bind, n
  <2> QED
    BY <1>5, <1>7
<1>9. Bound(sent) = bind[n].text
  BY DEF Bound, BindStart
<1> QED
  <2> HIDE DEF bind
  <2> QED
    BY <1>6, <1>8, <1>9 DEF IsBind

\* quotes is the recursive function of Quotes.
IsCount(text, quotes) ==
  /\ quotes \in [0 .. Len(text) -> Nat]
  /\ quotes[0] = 0
  /\ \A i \in 1 .. Len(text) : quotes[i] = Counted(quotes[i - 1], text[i])

\* The quotes of a text are counted, character by character.
LEMMA QuotesDefined ==
  ASSUME NEW text \in Seq(Chars)
  PROVE  IsCount(text, Quotes(text))
<1> DEFINE n == Len(text)
           Rec(f) == f = [i \in 0 .. n |-> IF i = 0 THEN 0 ELSE Counted(f[i - 1], text[i])]
           G == [p \in (1 .. n) \X Nat |-> Counted(p[2], text[p[1]])]
           quotes == CHOOSE f : Rec(f)
<1>1. n \in Nat
  BY LenProperties
<1>2. G \in [(1 .. n) \X Nat -> Nat]
  BY CountedTyped
<1>3. PICK f \in [0 .. n -> Nat] : Recurses(f, n, 0, G)
  <2> HIDE DEF G, n
  <2> QED
    BY <1>1, <1>2, RecursionDefines
<1>4. Rec(f)
  <2>1. ASSUME NEW i \in 1 .. n PROVE f[i] = Counted(f[i - 1], text[i])
    <3>1. f[i - 1] \in Nat
      <4> HIDE DEF n
      <4> QED
        BY <1>1
    <3> HIDE DEF n
    <3> QED
      BY <1>3, <3>1 DEF Recurses
  <2>2. \A i \in 0 .. n : i = 0 \/ i \in 1 .. n
    BY <1>1
  <2>3. f = [i \in 0 .. n |-> f[i]]
    OBVIOUS
  <2> HIDE DEF n
  <2> QED
    BY <1>1, <1>3, <2>1, <2>2, <2>3 DEF Recurses
<1>5. Rec(quotes)
  <2> HIDE DEF Rec
  <2> QED
    BY <1>4
<1>6. quotes[0] = 0 /\ \A i \in 1 .. n : quotes[i] = Counted(quotes[i - 1], text[i])
  <2> HIDE DEF quotes, n
  <2> QED
    BY <1>1, <1>5
<1>7. \A i \in 0 .. n : quotes[i] \in Nat
  <2> DEFINE S == {i \in 0 .. n : quotes[i] \in Nat}
  <2> HIDE DEF quotes, n
  <2>1. 0 \in S
    BY <1>1, <1>6
  <2>2. ASSUME NEW i \in 1 .. n, i - 1 \in S PROVE i \in S
    BY <1>1, <1>6, <2>2, CountedTyped
  <2>3. 0 .. n \subseteq S
    <3> HIDE DEF S
    <3> QED
      BY <1>1, <2>1, <2>2, UpInduction
  <2> QED
    BY <2>3
<1>8. quotes \in [0 .. n -> Nat]
  <2> HIDE DEF quotes, n
  <2> QED
    BY <1>5, <1>7
<1>9. Quotes(text) = quotes
  BY DEF Quotes
<1> QED
  <2> HIDE DEF quotes
  <2> QED
    BY <1>6, <1>8, <1>9 DEF IsCount

\* s is how t begins.
Begins(s, t) == Len(s) <= Len(t) /\ \A k \in 1 .. Len(s) : t[k] = s[k]

\* A text begins what is put together from it and another.
LEMMA ConcatBegins ==
  ASSUME NEW A, NEW s \in Seq(A), NEW t \in Seq(A)
  PROVE  Begins(s, s \o t)
BY ConcatProperties, LenProperties DEF Begins

\* What begins a beginning begins the whole.
LEMMA BeginsTransitive ==
  ASSUME NEW A, NEW s \in Seq(A), NEW t \in Seq(A), NEW u \in Seq(A), Begins(s, t), Begins(t, u)
  PROVE  Begins(s, u)
BY LenProperties DEF Begins

\* What the scan has put stays as it is.
LEMMA ScanGrows ==
  ASSUME NEW call, Proper(call), NEW new \in [Used(call) \X Nat -> Seq(Out)],
         NEW scan, IsScan(call, new, scan), NEW n, n = Len(call.text), NEW i \in 0 .. n
  PROVE  Begins(scan[i].text, scan[n].text) /\ Begins(scan[i].args, scan[n].args)
<1> DEFINE Good(j) == Begins(scan[j].text, scan[n].text) /\ Begins(scan[j].args, scan[n].args)
           S == {j \in 1 .. n + 1 : Good(j - 1)}
<1>1. n \in Nat /\ \A j \in 0 .. n : /\ scan[j] \in ScanState
                                    /\ scan[j].text \in Seq(Out)
                                    /\ scan[j].args \in Seq(Seq(Chars))
  BY LenProperties DEF IsScan, Proper, ScanState
<1>2. Good(n)
  BY <1>1, LenProperties DEF Begins
<1>3. ASSUME NEW j \in 1 .. n, Good(j) PROVE Good(j - 1)
  <2> DEFINE acc == scan[j - 1]
             name == NameAt(call.text, j)
  <2>2. j - 1 \in 0 .. n /\ j \in 0 .. n /\ n \in 0 .. n
    BY <1>1
  <2>1. StepEffect(call, new, acc, j, name, scan[j])
    <3>1. scan[j] = ScanStep(call, new, acc, j) /\ acc \in ScanState
      BY <1>1, <2>2 DEF IsScan
    <3> HIDE DEF acc
    <3> QED
      BY <3>1, ScanStepEffect
  <2>3. Begins(acc.text, scan[j].text) /\ Begins(acc.args, scan[j].args)
    <3> HIDE DEF acc
    <3>1. acc.text \in Seq(Out) /\ acc.args \in Seq(Seq(Chars))
      BY <1>1, <2>2 DEF acc
    <3>2. CASE j <= acc.upto
      <4>1. scan[j] = acc
        BY <2>1, <3>2 DEF StepEffect
      <4> QED
        BY <3>1, <4>1, LenProperties DEF Begins
    <3>3. CASE ~(j <= acc.upto) /\ name = <<>>
      <4>1. call.text[j] \in Out
        BY ElementOfSeq DEF Proper, Out
      <4>2. scan[j].text = Append(acc.text, call.text[j]) /\ scan[j].args = acc.args
        BY <2>1, <3>3 DEF StepEffect
      <4> QED
        BY <3>1, <4>1, <4>2, LenProperties DEF Begins
    <3>4. CASE ~(j <= acc.upto) /\ name # <<>>
      <4> DEFINE put == new[<<name, Len(acc.args) + 1>>]
      <4>1. /\ scan[j].text = acc.text \o put
            /\ scan[j].args = Append(acc.args, Value(call, name))
            /\ put \in Seq(Out)
        BY <2>1, <3>4 DEF StepEffect
      <4>2. Value(call, name) \in Seq(Chars)
        BY ValueTyped
      <4> HIDE DEF put, name
      <4>3. Begins(acc.text, acc.text \o put)
        BY <3>1, <4>1, ConcatBegins
      <4>4. Begins(acc.args, Append(acc.args, Value(call, name)))
        BY <3>1, <4>2, LenProperties DEF Begins
      <4> QED
        BY <4>1, <4>3, <4>4
    <3> QED
      BY <3>2, <3>3, <3>4
  <2> QED
    BY <1>1, <1>3, <2>2, <2>3, BeginsTransitive
<1>4. ASSUME NEW j \in 1 .. n + 1, \A k \in j + 1 .. n + 1 : k \in S PROVE j \in S
  <2>1. CASE j = n + 1
    BY <1>1, <1>2, <2>1
  <2>2. CASE j \in 1 .. n
    <3>1. j + 1 \in S
      <4>1. j + 1 \in j + 1 .. n + 1
        BY <1>1, <2>2
      <4> HIDE DEF S
      <4> QED
        BY <1>4, <4>1
    <3>2. Good(j)
      <4>1. Good(j + 1 - 1) /\ j + 1 - 1 = j
        <5> HIDE DEF Good
        <5> QED
          BY <3>1
      <4> HIDE DEF Good
      <4> QED
        BY <4>1
    <3>3. Good(j - 1)
      BY <1>3, <2>2, <3>2
    <3> QED
      BY <3>3
  <2>3. j = n + 1 \/ j \in 1 .. n
    BY <1>1
  <2> HIDE DEF S
  <2> QED
    BY <2>1, <2>2, <2>3
<1>5. 1 .. n + 1 \subseteq S
  <2> HIDE DEF S
  <2> QED
    BY <1>1, <1>4, DownInduction
<1>6. i + 1 \in S /\ i + 1 - 1 = i
  <2>1. i + 1 \in 1 .. n + 1 /\ i + 1 - 1 = i
    BY <1>1
  <2> HIDE DEF S
  <2> QED
    BY <1>5, <2>1
<1>7. Good(i)
  <2>1. Good(i + 1 - 1)
    <3> HIDE DEF Good
    <3> QED
      BY <1>6
  <2> HIDE DEF Good
  <2> QED
    BY <1>6, <2>1
<1> QED
  BY <1>7

\* The driver's placeholders are texts.
LEMMA NumbersTyped ==
  ASSUME NEW call, NEW numbered \in BOOLEAN
  PROVE  Numbers(call, numbered) \in [Used(call) \X Nat -> Seq(Out)]
<1>1. ASSUME NEW p \in Used(call) \X Nat PROVE <<IF numbered THEN p[2] ELSE 0>> \in Seq(Out)
  <2>1. (IF numbered THEN p[2] ELSE 0) \in Out
    BY DEF Out
  <2> QED
    BY <2>1
<1> QED
  BY <1>1 DEF Numbers

\* So are the values.
LEMMA ValuesTyped ==
  ASSUME NEW call, Proper(call)
  PROVE  Values(call) \in [Used(call) \X Nat -> Seq(Out)]
<1>1. ASSUME NEW p \in Used(call) \X Nat PROVE Value(call, p[1]) \in Seq(Out)
  <2>1. Value(call, p[1]) \in Seq(Chars)
    BY ValueTyped
  <2> QED
    BY <2>1 DEF Out
<1> QED
  BY <1>1 DEF Values

\* The binding b has come as far as the scan that converts, and put what the
\* scan that means has; with the same quotes behind it, for a name has none.
Follows(text, i, acc, meant, b) ==
  /\ acc.upto = meant.upto
  /\ acc.args = meant.args
  /\ \A k \in i + 1 .. acc.upto : text[k] # Quote
  /\ b[Len(acc.text)] = [text |-> meant.text, n |-> Len(acc.args), quotes |-> Quotes(text)[i]]

\* The driver's pass over what the conversion has written, up to any place, gives
\* what the pass that puts the values gives there.
LEMMA BindFollows ==
  ASSUME NEW call, Proper(call), Unquoted(call), NEW numbered \in BOOLEAN,
         NEW c, IsScan(call, Numbers(call, numbered), c),
         NEW m, IsScan(call, Values(call), m),
         NEW n, n = Len(call.text),
         NEW sent, sent.text = c[n].text, sent.args = c[n].args,
         NEW b, IsBind(sent, b),
         NEW i \in 1 .. n, Follows(call.text, i - 1, c[i - 1], m[i - 1], b)
  PROVE  Follows(call.text, i, c[i], m[i], b)
<1> DEFINE quotes == Quotes(call.text)
           name == NameAt(call.text, i)
           acc == c[i - 1]
           meant == m[i - 1]
<1>1. n \in Nat /\ i - 1 \in 0 .. n /\ i \in 0 .. n /\ n \in 0 .. n
  BY LenProperties DEF Proper
<1>2. acc \in ScanState /\ meant \in ScanState /\ c[i] \in ScanState
  BY <1>1 DEF IsScan
<1>3. StepEffect(call, Numbers(call, numbered), acc, i, name, c[i])
  <2>1. c[i] = ScanStep(call, Numbers(call, numbered), acc, i)
    BY DEF IsScan
  <2> HIDE DEF acc
  <2> QED
    BY <1>2, <2>1, ScanStepEffect, NumbersTyped
<1>4. StepEffect(call, Values(call), meant, i, name, m[i])
  <2>1. m[i] = ScanStep(call, Values(call), meant, i)
    BY DEF IsScan
  <2> HIDE DEF meant
  <2> QED
    BY <1>2, <2>1, ScanStepEffect, ValuesTyped
<1>5. /\ acc.text \in Seq(Out) /\ acc.args \in Seq(Seq(Chars)) /\ Len(acc.text) \in Nat
      /\ c[i].text \in Seq(Out) /\ c[i].args \in Seq(Seq(Chars))
      /\ meant.text \in Seq(Out)
  BY <1>2, LenProperties DEF ScanState
<1>6. /\ Begins(c[i].text, sent.text) /\ Len(sent.text) \in Nat
      /\ Begins(c[i].args, sent.args) /\ Len(sent.args) \in Nat /\ sent.args \in Seq(Seq(Chars))
  <2>1. c[n].text \in Seq(Out) /\ c[n].args \in Seq(Seq(Chars))
    BY <1>1 DEF IsScan, ScanState
  <2>2. Begins(c[i].text, c[n].text) /\ Begins(c[i].args, c[n].args)
    BY <1>1, ScanGrows, NumbersTyped
  <2> QED
    BY <2>1, <2>2, LenProperties
<1>7. /\ acc.upto = meant.upto /\ acc.args = meant.args
      /\ \A k \in i .. acc.upto : call.text[k] # Quote
      /\ b[Len(acc.text)] = [text |-> meant.text, n |-> Len(acc.args), quotes |-> quotes[i - 1]]
  <2>1. i - 1 + 1 = i
    BY <1>1
  <2> QED
    BY <2>1 DEF Follows
<1>8. quotes[i] = Counted(quotes[i - 1], call.text[i]) /\ quotes[i - 1] \in Nat
  <2>1. IsCount(call.text, quotes)
    BY QuotesDefined DEF Proper
  <2> HIDE DEF quotes
  <2> QED
    BY <1>1, <2>1 DEF IsCount
<1>9. acc.upto \in Nat /\ c[i].upto \in Nat /\ i \in Nat
  BY <1>1, <1>2 DEF ScanState
<1>10. \A j \in 1 .. Len(sent.text) : b[j] = BindStep(sent, b[j - 1], sent.text[j])
  BY DEF IsBind
<1>11. CASE i <= acc.upto
  <2>1. c[i] = acc /\ m[i] = meant
    <3> HIDE DEF acc, meant, name
    <3> QED
      BY <1>3, <1>4, <1>7, <1>11 DEF StepEffect
  <2>2. call.text[i] # Quote /\ \A k \in i + 1 .. acc.upto : call.text[k] # Quote
    <3> HIDE DEF acc
    <3> QED
      BY <1>7, <1>11, <1>9
  <2>3. quotes[i] = quotes[i - 1]
    BY <1>8, <2>2 DEF Counted
  <2> HIDE DEF quotes, name, acc, meant
  <2>4. b[Len(acc.text)] = [text |-> meant.text, n |-> Len(acc.args), quotes |-> quotes[i]]
    BY <1>7, <2>3
  <2> QED
    BY <1>7, <2>1, <2>2, <2>4 DEF Follows, quotes
<1>12. CASE ~(i <= acc.upto) /\ name = <<>>
  <2> DEFINE ch == call.text[i]
             k == Len(acc.text) + 1
  <2>1. ch \in Chars /\ ch \in Out
    BY ElementOfSeq DEF Proper, Out
  <2>2. /\ c[i].text = Append(acc.text, ch) /\ c[i].args = acc.args /\ c[i].upto = acc.upto
        /\ m[i].text = Append(meant.text, ch) /\ m[i].args = meant.args /\ m[i].upto = meant.upto
    <3> HIDE DEF acc, meant, name
    <3> QED
      BY <1>3, <1>4, <1>7, <1>12 DEF StepEffect
  <2> HIDE DEF acc, meant, name, ch
  <2>3. Len(c[i].text) = k /\ c[i].text[k] = ch /\ k \in Nat
    BY <1>5, <2>1, <2>2, AppendProperties
  <2>4. k \in 1 .. Len(sent.text) /\ sent.text[k] = ch /\ k - 1 = Len(acc.text)
    <3> HIDE DEF k
    <3>1. k <= Len(sent.text) /\ k - 1 = Len(acc.text) /\ k >= 1
      BY <1>5, <1>6, <2>3 DEF Begins, k
    <3>2. k \in 1 .. Len(c[i].text)
      BY <2>3, <3>1
    <3> QED
      BY <1>6, <2>3, <3>1, <3>2 DEF Begins
  <2>5. b[k] = BindStep(sent, b[k - 1], ch)
    BY <1>10, <2>4
  <2>6. ch \notin Nat
    BY <2>1, CharsAssumption
  <2>7. BindStep(sent, b[k - 1], ch) = [b[k - 1] EXCEPT !.text = Append(@, ch), !.quotes = Counted(@, ch)]
    BY <2>6 DEF BindStep
  <2>8. b[k] = [text |-> Append(meant.text, ch), n |-> Len(acc.args), quotes |-> Counted(quotes[i - 1], ch)]
    <3> HIDE DEF quotes
    <3>1. b[k - 1] = [text |-> meant.text, n |-> Len(acc.args), quotes |-> quotes[i - 1]]
      <4> HIDE DEF k
      <4> QED
        BY <1>7, <2>4
    <3>2. k \in 0 .. Len(sent.text) /\ k - 1 \in 0 .. Len(sent.text)
      <4>1. k \in 1 .. Len(sent.text) /\ Len(sent.text) \in Nat
        BY <1>6, <2>4
      <4> HIDE DEF k
      <4> QED
        BY <4>1
    <3> DEFINE before == b[k - 1]
               after == b[k]
    <3>3. before \in BindState /\ after \in BindState
      <4> HIDE DEF k
      <4> QED
        BY <3>2 DEF IsBind
    <3>4. after = [before EXCEPT !.text = Append(@, ch), !.quotes = Counted(@, ch)]
      BY <2>5, <2>7
    <3>5. before.text = meant.text /\ before.n = Len(acc.args) /\ before.quotes = quotes[i - 1]
      BY <3>1
    <3> HIDE DEF before, after
    <3>6. after.text = Append(meant.text, ch) /\ after.n = Len(acc.args) /\ after.quotes = Counted(quotes[i - 1], ch)
      BY <3>3, <3>4, <3>5 DEF BindState
    <3>7. after = [text |-> Append(meant.text, ch), n |-> Len(acc.args), quotes |-> Counted(quotes[i - 1], ch)]
      BY <3>3, <3>6 DEF BindState
    <3> QED
      BY <3>7 DEF after
  <2>9. Counted(quotes[i - 1], ch) = quotes[i]
    BY <1>8 DEF ch
  <2>10. \A j \in i + 1 .. c[i].upto : call.text[j] # Quote
    <3>1. \A j \in i + 1 .. c[i].upto : FALSE
      BY <1>12, <1>9, <2>2
    <3> QED
      BY <3>1
  <2> HIDE DEF quotes
  <2>11. b[Len(c[i].text)] = [text |-> m[i].text, n |-> Len(c[i].args), quotes |-> quotes[i]]
    <3> HIDE DEF k
    <3> QED
      BY <2>2, <2>3, <2>8, <2>9
  <2> QED
    BY <1>7, <2>2, <2>10, <2>11 DEF Follows, quotes
<1>13. CASE ~(i <= acc.upto) /\ name # <<>>
  <2> DEFINE q == Len(acc.args) + 1
             v == Value(call, name)
             ch == IF numbered THEN q ELSE 0
             k == Len(acc.text) + 1
  <2>0. name \in Used(call)
    <3> HIDE DEF acc, name
    <3> QED
      BY <1>3, <1>13 DEF StepEffect
  <2>1. q \in Nat /\ q # 0 /\ v \in Seq(Chars) /\ ch \in Nat
    BY <1>5, ValueTyped, LenProperties
  <2>2. Numbers(call, numbered)[<<name, q>>] = <<ch>> /\ Values(call)[<<name, q>>] = v
    <3> HIDE DEF name, q
    <3> QED
      BY <2>0, <2>1 DEF Numbers, Values
  <2>3. /\ c[i].text = acc.text \o <<ch>> /\ c[i].args = Append(acc.args, v) /\ c[i].upto = i + Len(name)
        /\ m[i].text = meant.text \o v /\ m[i].args = Append(acc.args, v) /\ m[i].upto = i + Len(name)
    <3> HIDE DEF acc, meant, name
    <3> QED
      BY <1>3, <1>4, <1>7, <1>13, <2>2 DEF StepEffect
  <2> HIDE DEF acc, meant, name, v
  <2>4. Len(c[i].text) = k /\ c[i].text[k] = ch /\ k \in Nat
    <3>1. <<ch>> \in Seq(Out) /\ Len(<<ch>>) = 1 /\ <<ch>>[1] = ch
      BY <2>1 DEF Out
    <3>2. PICK before \in Seq(Out), put \in Seq(Out) :
             before = acc.text /\ put = <<ch>> /\ Len(put) = 1 /\ put[1] = ch
      BY <1>5, <3>1
    <3>3. Len(before \o put) = Len(before) + 1 /\ (before \o put)[Len(before) + 1] = ch
      <4>1. Len(before) \in Nat /\ Len(before) + 1 \in 1 .. Len(before) + Len(put)
        BY <3>2, LenProperties
      <4> HIDE DEF ch
      <4> QED
        BY <3>2, <4>1, ConcatProperties
    <3> HIDE DEF ch
    <3> QED
      BY <1>5, <2>3, <3>2, <3>3
  <2>5. k \in 1 .. Len(sent.text) /\ sent.text[k] = ch /\ k - 1 = Len(acc.text)
    <3> HIDE DEF ch, k
    <3>1. k <= Len(sent.text) /\ k - 1 = Len(acc.text) /\ k >= 1
      BY <1>5, <1>6, <2>4 DEF Begins, k
    <3>2. k \in 1 .. Len(c[i].text)
      BY <2>4, <3>1
    <3> QED
      BY <1>6, <2>4, <3>1, <3>2 DEF Begins
  <2>6. q \in DOMAIN sent.args /\ sent.args[q] = v /\ Len(c[i].args) = q
    <3>1. Len(c[i].args) = q /\ c[i].args[q] = v
      BY <1>5, <2>1, <2>3, AppendProperties
    <3>2. q \in 1 .. Len(sent.args) /\ q \in 1 .. Len(c[i].args)
      <4> HIDE DEF q
      <4> QED
        BY <1>6, <2>1, <3>1 DEF Begins
    <3> HIDE DEF q
    <3> QED
      BY <1>6, <3>1, <3>2, LenProperties DEF Begins
  <2>7. b[k - 1] = [text |-> meant.text, n |-> Len(acc.args), quotes |-> quotes[i - 1]]
    <3> HIDE DEF k, quotes
    <3> QED
      BY <1>7, <2>5
  <2>8. (IF ch = 0 THEN b[k - 1].n + 1 ELSE ch) = q
    <3>1. b[k - 1].n = Len(acc.args)
      <4> HIDE DEF k, quotes
      <4> QED
        BY <2>7
    <3> HIDE DEF k
    <3> QED
      BY <2>1, <3>1
  <2>9. ~InLiteral(quotes[i - 1]) /\ call.text[i] # Quote /\ \A j \in i + 1 .. i + Len(name) : call.text[j] # Quote
    <3>1. IsNameAt(call.text, i, name)
      BY NameAtFacts DEF Proper, name
    <3>2. Len(name) \in Nat
      BY <3>1, LenProperties DEF IsNameAt
    <3>3. ~InLiteral(quotes[i - 1])
      <4>1. i \in DOMAIN call.text
        BY LenProperties DEF Proper
      <4> QED
        BY <1>13, <4>1 DEF Unquoted, name
    <3>4. call.text[i] = Colon
      BY <1>13, <3>1 DEF IsNameAt
    <3>5. ASSUME NEW j \in i + 1 .. i + Len(name) PROVE call.text[j] # Quote
      <4>1. j - i \in 1 .. Len(name) /\ i + (j - i) = j
        BY <1>9, <3>2
      <4>2. call.text[j] \in Letters
        BY <3>1, <4>1 DEF IsNameAt
      <4> QED
        BY <4>2, CharsAssumption
    <3> QED
      BY <3>3, <3>4, <3>5, CharsAssumption
  <2>10. BindStep(sent, b[k - 1], ch) = [b[k - 1] EXCEPT !.text = @ \o v, !.n = q]
    <3>1. b[k - 1].quotes = quotes[i - 1]
      <4> HIDE DEF k, quotes
      <4> QED
        BY <2>7
    <3> HIDE DEF ch, k, q, quotes
    <3> QED
      BY <2>1, <2>6, <2>8, <2>9, <3>1 DEF BindStep
  <2>11. b[k] = [text |-> meant.text \o v, n |-> q, quotes |-> quotes[i - 1]]
    <3> DEFINE before == b[k - 1]
    <3>1. b[k] = [before EXCEPT !.text = @ \o v, !.n = q]
      <4> HIDE DEF ch, k, q
      <4> QED
        BY <1>10, <2>5, <2>10
    <3>2. before = [text |-> meant.text, n |-> Len(acc.args), quotes |-> quotes[i - 1]]
      BY <2>7
    <3> HIDE DEF before, q, k, quotes
    <3> QED
      BY <3>1, <3>2
  <2>12. quotes[i] = quotes[i - 1]
    BY <1>8, <2>9 DEF Counted
  <2> QED
    <3> HIDE DEF ch, k, q, quotes
    <3>1. b[Len(c[i].text)] = [text |-> m[i].text, n |-> Len(c[i].args), quotes |-> quotes[i]]
      BY <2>3, <2>4, <2>6, <2>11, <2>12
    <3> QED
      BY <2>3, <2>9, <3>1 DEF Follows, quotes
<1> QED
  BY <1>11, <1>12, <1>13

\* The list of values that convertNamedParams makes goes with the placeholders
\* it writes, whether these are numbered or not: bound, the statement is what
\* the template means, for every template and every value, a value with a
\* placeholder's text in it too, unless a placeholder is in a literal.
THEOREM BoundMeans ==
  ASSUME NEW call, Proper(call), Unquoted(call), NEW numbered \in BOOLEAN
  PROVE  Bound(Converted(call, numbered)) = Meant(call)
<1> DEFINE sent == Converted(call, numbered)
           n == Len(call.text)
<1>1. PICK c : IsScan(call, Numbers(call, numbered), c)
  BY NumbersTyped, ScanDefined
<1>2. PICK m : IsScan(call, Values(call), m)
  BY ValuesTyped, ScanDefined
<1>3. n \in Nat /\ 0 \in 0 .. n /\ n \in 0 .. n
  BY LenProperties DEF Proper
<1>4. sent.text = c[n].text /\ sent.args = c[n].args
  BY <1>1 DEF Converted, IsScan
<1>5. c[n] \in ScanState /\ m[n] \in ScanState
  BY <1>1, <1>2, <1>3 DEF IsScan
<1> HIDE DEF sent, n
<1>6. PICK b : IsBind(sent, b)
  BY <1>4, <1>5, BindDefined DEF ScanState
<1> DEFINE S == {i \in 0 .. n : Follows(call.text, i, c[i], m[i], b)}
<1>7. 0 \in S
  <2>1. Len(<<>>) = 0
    OBVIOUS
  <2>2. c[0] = ScanStart /\ m[0] = ScanStart /\ b[0] = BindStart
    BY <1>1, <1>2, <1>6 DEF IsScan, IsBind
  <2>3. Quotes(call.text)[0] = 0
    BY QuotesDefined DEF Proper, IsCount
  <2>4. Follows(call.text, 0, c[0], m[0], b)
    BY <2>1, <2>2, <2>3 DEF Follows, ScanStart, BindStart
  <2> QED
    BY <1>3, <2>4
<1>8. ASSUME NEW i \in 1 .. n, i - 1 \in S PROVE i \in S
  <2>1. Follows(call.text, i, c[i], m[i], b)
    BY <1>1, <1>2, <1>3, <1>4, <1>6, <1>8, BindFollows DEF n
  <2> QED
    BY <1>3, <2>1
<1>9. 0 .. n \subseteq S
  <2> HIDE DEF S
  <2> QED
    BY <1>3, <1>7, <1>8, UpInduction
<1>10. Follows(call.text, n, c[n], m[n], b)
  BY <1>3, <1>9
<1>11. Bound(sent) = b[Len(c[n].text)].text
  BY <1>4, <1>6 DEF IsBind
<1>12. b[Len(c[n].text)].text = m[n].text
  BY <1>10 DEF Follows
<1>13. Meant(call) = m[n].text
  BY <1>2 DEF Meant, IsScan, n
<1> QED
  BY <1>11, <1>12, <1>13 DEF sent

-----------------------------------------------------------------------------
(* Replacing.                                                                *)

ReplacePiece(s, old, new) == [i \in 1 .. Len(s) |-> IF Matches(s, i, old) THEN new ELSE <<s[i]>>]
ReplaceNext(s, old) == [i \in 1 .. Len(s) |-> IF Matches(s, i, old) THEN i + Len(old) ELSE i + 1]

\* The pieces of a replacement are texts, and it goes forwards.
LEMMA ReplaceTyped ==
  ASSUME NEW s \in Seq(Chars), NEW old \in Seq(Chars), old # <<>>, NEW new \in Seq(Chars)
  PROVE  /\ Len(s) \in Nat
         /\ ReplacePiece(s, old, new) \in [1 .. Len(s) -> Seq(Chars)]
         /\ Onward(ReplaceNext(s, old), Len(s))
<1>1. Len(s) \in Nat /\ Len(old) \in Nat /\ Len(old) > 0
  BY LenProperties, EmptySeq
<1>2. ASSUME NEW i \in 1 .. Len(s) PROVE (IF Matches(s, i, old) THEN new ELSE <<s[i]>>) \in Seq(Chars)
  <2>1. s[i] \in Chars
    BY ElementOfSeq
  <2> QED
    BY <2>1
<1>3. ASSUME NEW i \in 1 .. Len(s)
      PROVE  LET j == IF Matches(s, i, old) THEN i + Len(old) ELSE i + 1
             IN  j \in 1 .. Len(s) + 1 /\ j > i
  BY <1>1 DEF Matches
<1> QED
  BY <1>1, <1>2, <1>3 DEF ReplacePiece, ReplaceNext, Onward

\* rest is the recursive function of ReplaceEvery.
IsRest(s, old, new, rest) ==
  /\ rest \in [1 .. Len(s) + 1 -> Seq(Chars)]
  /\ Pieced(rest, Len(s), ReplacePiece(s, old, new), ReplaceNext(s, old))
  /\ ReplaceEvery(s, old, new) = rest[1]

\* The replacement is defined, piece by piece, and ReplaceEvery is all of it.
LEMMA RestDefined ==
  ASSUME NEW s \in Seq(Chars), NEW old \in Seq(Chars), old # <<>>, NEW new \in Seq(Chars)
  PROVE  \E rest : IsRest(s, old, new, rest)
<1> DEFINE n == Len(s)
           piece == ReplacePiece(s, old, new)
           next == ReplaceNext(s, old)
           Rec(f) == f = [i \in 1 .. n + 1 |->
                            IF i > n THEN <<>>
                            ELSE IF Matches(s, i, old) THEN new \o f[i + Len(old)]
                            ELSE <<s[i]>> \o f[i + 1]]
           rest == CHOOSE f : Rec(f)
<1>1. /\ n \in Nat
      /\ piece \in [1 .. n -> Seq(Chars)]
      /\ Onward(next, n)
  BY ReplaceTyped
<1>2. PICK g \in [1 .. n + 1 -> Seq(Chars)] : Pieced(g, n, piece, next)
  <2> HIDE DEF piece, next, n
  <2> QED
    BY <1>1, PiecesDefine
<1>3. \A f : \A i \in 1 .. n :
        piece[i] \o f[next[i]] = IF Matches(s, i, old) THEN new \o f[i + Len(old)] ELSE <<s[i]>> \o f[i + 1]
  BY DEF ReplacePiece, ReplaceNext
<1>4. Rec(g)
  <2>1. g = [i \in 1 .. n + 1 |-> g[i]]
    BY <1>2
  <2>2. \A i \in 1 .. n + 1 : IF i > n THEN g[i] = <<>> ELSE i \in 1 .. n /\ g[i] = piece[i] \o g[next[i]]
    <3> SUFFICES ASSUME NEW i \in 1 .. n + 1
                 PROVE  IF i > n THEN g[i] = <<>> ELSE i \in 1 .. n /\ g[i] = piece[i] \o g[next[i]]
      OBVIOUS
    <3> HIDE DEF piece, next, n
    <3>1. i > n => i = n + 1
      BY <1>1
    <3>2. ~(i > n) => i \in 1 .. n
      BY <1>1
    <3>3. g[n + 1] = <<>> /\ \A k \in 1 .. n : g[k] = piece[k] \o g[next[k]]
      BY <1>2 DEF Pieced
    <3> QED
      BY <3>1, <3>2, <3>3
  <2>3. ASSUME NEW i \in 1 .. n + 1
        PROVE  g[i] = IF i > n THEN <<>>
                      ELSE IF Matches(s, i, old) THEN new \o g[i + Len(old)]
                      ELSE <<s[i]>> \o g[i + 1]
    <3> HIDE DEF piece, next, n
    <3> QED
      BY <1>3, <2>2
  <2> HIDE DEF piece, next, n
  <2> QED
    BY <2>1, <2>3
<1>5. Rec(rest)
  <2> HIDE DEF Rec
  <2> QED
    BY <1>4
<1>6. Pieced(rest, n, piece, next)
  <2> HIDE DEF rest, piece, next, n
  <2>1. rest[n + 1] = <<>>
    BY <1>1, <1>5
  <2>2. ASSUME NEW i \in 1 .. n PROVE rest[i] = piece[i] \o rest[next[i]]
    <3>1. ~(i > n) /\ i \in 1 .. n + 1
      BY <1>1
    <3>2. rest[i] = IF Matches(s, i, old) THEN new \o rest[i + Len(old)] ELSE <<s[i]>> \o rest[i + 1]
      BY <1>5, <3>1
    <3> QED
      BY <1>3, <3>2
  <2> QED
    BY <2>1, <2>2 DEF Pieced
<1>7. rest \in [1 .. n + 1 -> Seq(Chars)]
  <2> HIDE DEF rest, piece, next, n
  <2>1. \A i \in 1 .. n + 1 : rest[i] = g[i]
    BY <1>1, <1>2, <1>6, PiecesUnique
  <2> QED
    BY <1>5, <2>1
<1>8. ReplaceEvery(s, old, new) = rest[1]
  BY DEF ReplaceEvery
<1> QED
  <2> HIDE DEF rest
  <2> QED
    BY <1>6, <1>7, <1>8 DEF IsRest

\* A replacement makes a text.
LEMMA ReplaceEveryTyped ==
  ASSUME NEW s \in Seq(Chars), NEW old \in Seq(Chars), old # <<>>, NEW new \in Seq(Chars)
  PROVE  ReplaceEvery(s, old, new) \in Seq(Chars)
<1>1. PICK rest : IsRest(s, old, new, rest)
  BY RestDefined
<1>2. 1 \in 1 .. Len(s) + 1
  BY LenProperties
<1> QED
  BY <1>1, <1>2 DEF IsRest

\* Of an empty text it makes an empty one.
LEMMA ReplaceEmpty ==
  ASSUME NEW old \in Seq(Chars), old # <<>>, NEW new \in Seq(Chars)
  PROVE  ReplaceEvery(<<>>, old, new) = <<>>
<1>1. <<>> \in Seq(Chars) /\ Len(<<>>) = 0
  BY EmptySeq
<1>2. PICK rest : IsRest(<<>>, old, new, rest)
  BY <1>1, RestDefined
<1> QED
  BY <1>1, <1>2 DEF IsRest, Pieced

\* Past w, what is made of w \o t is what is made of t.
LEMMA ReplaceAfter ==
  ASSUME NEW w \in Seq(Chars), NEW t \in Seq(Chars),
         NEW old \in Seq(Chars), old # <<>>, NEW new \in Seq(Chars),
         NEW rest, IsRest(w \o t, old, new, rest)
  PROVE  rest[Len(w) + 1] = ReplaceEvery(t, old, new)
<1> DEFINE s == w \o t
           d == Len(w)
           n == Len(t)
           f == [i \in 1 .. n + 1 |-> rest[d + i]]
           piece == ReplacePiece(t, old, new)
           next == ReplaceNext(t, old)
<1>1. /\ s \in Seq(Chars) /\ Len(s) = d + n /\ d \in Nat /\ n \in Nat /\ Len(old) \in Nat
      /\ \A i \in 1 .. n : s[d + i] = t[i]
  BY ConcatProperties, LenProperties
<1>2. PICK g : IsRest(t, old, new, g)
  BY RestDefined
<1>3. Onward(next, n)
  BY ReplaceTyped
<1>4. \A i \in 1 .. n : Matches(s, d + i, old) <=> Matches(t, i, old)
  <2> SUFFICES ASSUME NEW i \in 1 .. n PROVE Matches(s, d + i, old) <=> Matches(t, i, old)
    OBVIOUS
  <2> HIDE DEF s, d, n
  <2>1. d + i + Len(old) - 1 <= Len(s) <=> i + Len(old) - 1 <= n
    BY <1>1
  <2>2. i + Len(old) - 1 <= n => \A k \in 1 .. Len(old) : s[d + i + k - 1] = t[i + k - 1]
    <3> SUFFICES ASSUME i + Len(old) - 1 <= n, NEW k \in 1 .. Len(old) PROVE s[d + i + k - 1] = t[i + k - 1]
      OBVIOUS
    <3>1. i + k - 1 \in 1 .. n /\ d + (i + k - 1) = d + i + k - 1
      BY <1>1
    <3>2. s[d + (i + k - 1)] = t[i + k - 1]
      BY <1>1, <3>1
    <3> QED
      BY <3>1, <3>2
  <2> QED
    BY <2>1, <2>2 DEF Matches, n
<1>5. Pieced(f, n, piece, next)
  <2>1. f[n + 1] = <<>>
    <3>1. n + 1 \in 1 .. n + 1 /\ d + (n + 1) = Len(s) + 1
      BY <1>1
    <3>2. rest[Len(s) + 1] = <<>>
      BY DEF IsRest, Pieced
    <3> HIDE DEF s, d, n
    <3> QED
      BY <3>1, <3>2
  <2>2. ASSUME NEW i \in 1 .. n PROVE f[i] = piece[i] \o f[next[i]]
    <3>1. d + i \in 1 .. Len(s) /\ i \in 1 .. n + 1 /\ next[i] \in 1 .. n + 1
      BY <1>1, <1>3 DEF Onward
    <3>2. rest[d + i] = ReplacePiece(s, old, new)[d + i] \o rest[ReplaceNext(s, old)[d + i]]
      BY <3>1 DEF IsRest, Pieced
    <3>3. ReplacePiece(s, old, new)[d + i] = piece[i]
      <4>1. ReplacePiece(s, old, new)[d + i] = IF Matches(s, d + i, old) THEN new ELSE <<s[d + i]>>
        BY <3>1 DEF ReplacePiece
      <4>2. piece[i] = IF Matches(t, i, old) THEN new ELSE <<t[i]>>
        BY DEF ReplacePiece
      <4> HIDE DEF s, d, n, piece
      <4> QED
        BY <1>1, <1>4, <4>1, <4>2
    <3>4. ReplaceNext(s, old)[d + i] = d + next[i]
      <4>1. ReplaceNext(s, old)[d + i] = IF Matches(s, d + i, old) THEN d + i + Len(old) ELSE d + i + 1
        BY <3>1 DEF ReplaceNext
      <4>2. next[i] = IF Matches(t, i, old) THEN i + Len(old) ELSE i + 1
        BY DEF ReplaceNext
      <4> HIDE DEF s, d, n, next
      <4> QED
        BY <1>1, <1>4, <4>1, <4>2
    <3>5. f[i] = rest[d + i] /\ f[next[i]] = rest[d + next[i]]
      <4> HIDE DEF next, d, n
      <4> QED
        BY <3>1
    <3> HIDE DEF f, piece, next, s, d, n
    <3> QED
      BY <3>2, <3>3, <3>4, <3>5
  <2> HIDE DEF f, piece, next, n
  <2> QED
    BY <2>1, <2>2 DEF Pieced
<1>6. f[1] = g[1]
  <2>1. Pieced(g, n, piece, next)
    BY <1>2 DEF IsRest
  <2>2. 1 \in 1 .. n + 1
    BY <1>1
  <2> HIDE DEF f, piece, next, n
  <2> QED
    BY <1>1, <1>3, <1>5, <2>1, <2>2, PiecesUnique
<1>7. f[1] = rest[d + 1]
  BY <1>1
<1> QED
  BY <1>2, <1>6, <1>7 DEF IsRest

\* At no place of w, before t, is there anything to replace, and w stays.
Skips(w, t, old) == \A i \in 1 .. Len(w) : ~Matches(w \o t, i, old)
StaysBefore(w, t, old, new) == ReplaceEvery(w \o t, old, new) = w \o ReplaceEvery(t, old, new)

\* A character before a text that goes on is before the text.
LEMMA CharFirst ==
  ASSUME NEW ch \in Chars, NEW s \in Seq(Chars), NEW t \in Seq(Chars)
  PROVE  (<<ch>> \o s) \o t = <<ch>> \o (s \o t)
OBVIOUS

\* What is not to be replaced stays.
LEMMA ReplaceSkips ==
  ASSUME NEW w \in Seq(Chars), NEW t \in Seq(Chars),
         NEW old \in Seq(Chars), old # <<>>, NEW new \in Seq(Chars),
         Skips(w, t, old)
  PROVE  StaysBefore(w, t, old, new)
<1> DEFINE s == w \o t
           n == Len(w)
           u == ReplaceEvery(t, old, new)
<1>1. /\ s \in Seq(Chars) /\ Len(s) = n + Len(t) /\ n \in Nat /\ Len(t) \in Nat
      /\ \A i \in 1 .. n : s[i] = w[i]
  BY ConcatProperties, LenProperties
<1>2. PICK rest : IsRest(s, old, new, rest)
  BY <1>1, RestDefined
<1>3. rest[n + 1] = u
  BY <1>2, ReplaceAfter
<1>4. u \in Seq(Chars)
  BY ReplaceEveryTyped
<1> HIDE DEF u
<1> DEFINE S == {i \in 1 .. n + 1 : rest[i] = SubSeq(w, i, n) \o u}
<1>5. ASSUME NEW i \in 1 .. n + 1, \A j \in i + 1 .. n + 1 : j \in S PROVE i \in S
  <2>1. CASE i = n + 1
    <3>1. SubSeq(w, n + 1, n) = <<>>
      BY <1>1, SubSeqEmpty
    <3>2. <<>> \o u = u
      BY <1>4, ConcatEmptySeq
    <3> QED
      BY <1>1, <1>3, <2>1, <3>1, <3>2
  <2>2. CASE i \in 1 .. n
    <3>1. i + 1 \in S
      <4>1. i + 1 \in i + 1 .. n + 1
        BY <1>1, <2>2
      <4> HIDE DEF S
      <4> QED
        BY <1>5, <4>1
    <3>2. rest[i] = <<w[i]>> \o rest[i + 1]
      <4>1. i \in 1 .. Len(s) /\ ~Matches(s, i, old)
        BY <1>1, <2>2 DEF Skips
      <4>2. rest[i] = ReplacePiece(s, old, new)[i] \o rest[ReplaceNext(s, old)[i]]
        BY <1>2, <4>1 DEF IsRest, Pieced
      <4>3. ReplacePiece(s, old, new)[i] = <<s[i]>> /\ ReplaceNext(s, old)[i] = i + 1
        BY <4>1 DEF ReplacePiece, ReplaceNext
      <4>4. s[i] = w[i]
        BY <1>1, <2>2
      <4> QED
        BY <4>2, <4>3, <4>4
    <3>3. SubSeq(w, i, n) = <<w[i]>> \o SubSeq(w, i + 1, n)
      <4>1. i \in 1 .. Len(w) /\ n \in i .. Len(w)
        BY <1>1, <2>2
      <4> HIDE DEF n
      <4> QED
        BY <4>1, SubSeqRecursiveFirst, Zenon
    <3>4. w[i] \in Chars /\ <<w[i]>> \in Seq(Chars) /\ SubSeq(w, i + 1, n) \in Seq(Chars)
      <4>1. w[i] \in Chars
        BY <2>2, ElementOfSeq
      <4>2. \A k \in i + 1 .. n : w[k] \in Chars
        BY <1>1, <2>2, ElementOfSeq
      <4>3. i + 1 \in Int /\ n \in Int
        BY <1>1
      <4> HIDE DEF n
      <4> QED
        BY <4>1, <4>2, <4>3, SubSeqProperties
    <3>5. (<<w[i]>> \o SubSeq(w, i + 1, n)) \o u = <<w[i]>> \o (SubSeq(w, i + 1, n) \o u)
      <4>1. PICK ch \in Chars, tail \in Seq(Chars) : ch = w[i] /\ tail = SubSeq(w, i + 1, n)
        BY <3>4
      <4>2. (<<ch>> \o tail) \o u = <<ch>> \o (tail \o u)
        BY <1>4, CharFirst, Zenon
      <4> QED
        BY <4>1, <4>2
    <3> QED
      BY <1>1, <2>2, <3>1, <3>2, <3>3, <3>5
  <2>3. i = n + 1 \/ i \in 1 .. n
    BY <1>1
  <2> HIDE DEF S
  <2> QED
    BY <2>1, <2>2, <2>3
<1>6. 1 .. n + 1 \subseteq S
  <2> HIDE DEF S, n
  <2> QED
    BY <1>1, <1>5, DownInduction
<1>7. rest[1] = SubSeq(w, 1, n) \o u
  <2>1. 1 \in 1 .. n + 1
    BY <1>1
  <2> QED
    BY <1>6, <2>1
<1>8. SubSeq(w, 1, n) = w
  BY SubSeqFull
<1> QED
  BY <1>2, <1>7, <1>8 DEF IsRest, StaysBefore, u

\* What is to be replaced is.
LEMMA ReplaceReplaces ==
  ASSUME NEW t \in Seq(Chars), NEW old \in Seq(Chars), old # <<>>, NEW new \in Seq(Chars)
  PROVE  ReplaceEvery(old \o t, old, new) = new \o ReplaceEvery(t, old, new)
<1> DEFINE s == old \o t
<1>1. /\ s \in Seq(Chars) /\ Len(s) = Len(old) + Len(t)
      /\ Len(old) \in Nat /\ Len(old) > 0 /\ Len(t) \in Nat
      /\ \A i \in 1 .. Len(old) : s[i] = old[i]
  BY ConcatProperties, LenProperties, EmptySeq
<1>2. PICK rest : IsRest(s, old, new, rest)
  BY <1>1, RestDefined
<1>3. rest[Len(old) + 1] = ReplaceEvery(t, old, new)
  BY <1>2, ReplaceAfter
<1>4. Matches(s, 1, old) /\ 1 \in 1 .. Len(s)
  BY <1>1 DEF Matches
<1>5. rest[1] = ReplacePiece(s, old, new)[1] \o rest[ReplaceNext(s, old)[1]]
  BY <1>2, <1>4 DEF IsRest, Pieced
<1>6. ReplacePiece(s, old, new)[1] = new /\ ReplaceNext(s, old)[1] = Len(old) + 1
  BY <1>1, <1>4 DEF ReplacePiece, ReplaceNext
<1> QED
  BY <1>2, <1>3, <1>5, <1>6 DEF IsRest

-----------------------------------------------------------------------------
(* The text with the placeholders of some parameters replaced.               *)

Put(call, D, name) == IF name \in D THEN call.params[name] ELSE <<Colon>> \o name

RenderPiece(call, D) ==
  [i \in 1 .. Len(call.text) |->
     IF NameAt(call.text, i) = <<>> THEN <<call.text[i]>> ELSE Put(call, D, NameAt(call.text, i))]
RenderNext(call) == [i \in 1 .. Len(call.text) |-> i + 1 + Len(NameAt(call.text, i))]

\* f[i] is the text from i on with the placeholders of D replaced.
IsRendering(call, D, f) ==
  /\ f \in [1 .. Len(call.text) + 1 -> Seq(Chars)]
  /\ Pieced(f, Len(call.text), RenderPiece(call, D), RenderNext(call))

\* A colon is a text.
LEMMA ColonTyped == <<Colon>> \in Seq(Chars)
<1>1. Colon \in Chars
  BY CharsAssumption
<1> QED
  BY <1>1

\* So is a name with a colon before it.
LEMMA ColonBefore ==
  ASSUME NEW name \in Seq(Chars)
  PROVE  \E old \in Seq(Chars) : old = <<Colon>> \o name /\ old # <<>>
<1>1. PICK colon \in Seq(Chars) : colon = <<Colon>>
  BY ColonTyped
<1>2. colon \o name \in Seq(Chars) /\ colon # <<>>
  BY <1>1, ConcatProperties
<1>3. colon \o name # <<>>
  BY <1>2, ConcatEqualIffEmpty
<1> QED
  BY <1>1, <1>2, <1>3

\* What stands for a placeholder is a text.
LEMMA PutTyped ==
  ASSUME NEW call, Proper(call), NEW D, D \subseteq DOMAIN call.params, NEW name \in Seq(Chars)
  PROVE  Put(call, D, name) \in Seq(Chars)
<1>1. PICK colon \in Seq(Chars) : colon = <<Colon>>
  BY ColonTyped
<1>2. colon \o name \in Seq(Chars)
  BY ConcatProperties
<1> QED
  BY <1>1, <1>2 DEF Put, Proper

\* The pieces of a rendering are texts, and it goes forwards.
LEMMA RenderTyped ==
  ASSUME NEW call, Proper(call), NEW D, D \subseteq DOMAIN call.params
  PROVE  /\ Len(call.text) \in Nat
         /\ RenderPiece(call, D) \in [1 .. Len(call.text) -> Seq(Chars)]
         /\ Onward(RenderNext(call), Len(call.text))
<1>1. call.text \in Seq(Chars) /\ Len(call.text) \in Nat
  BY LenProperties DEF Proper
<1>2. ASSUME NEW i \in 1 .. Len(call.text), NEW name, name = NameAt(call.text, i)
      PROVE  /\ (IF name = <<>> THEN <<call.text[i]>> ELSE Put(call, D, name)) \in Seq(Chars)
             /\ i + 1 + Len(name) \in i + 1 .. Len(call.text) + 1
  <2>1. name \in Seq(Chars) /\ i + Len(name) <= Len(call.text)
    BY <1>1, <1>2, NameAtFacts DEF IsNameAt
  <2>2. Put(call, D, name) \in Seq(Chars)
    BY <2>1, PutTyped
  <2>3. call.text[i] \in Chars
    BY <1>1, ElementOfSeq
  <2>4. Len(name) \in Nat
    BY <2>1, LenProperties
  <2> QED
    BY <1>1, <2>1, <2>2, <2>3, <2>4
<1> QED
  BY <1>1, <1>2 DEF RenderPiece, RenderNext, Onward

\* Every rendering exists.
LEMMA RenderDefined ==
  ASSUME NEW call, Proper(call), NEW D, D \subseteq DOMAIN call.params
  PROVE  \E f : IsRendering(call, D, f)
BY RenderTyped, PiecesDefine DEF IsRendering

\* What it is at i, where this name is.
RendersAt(call, D, f, i, name) ==
  /\ name \in Seq(Chars) /\ Len(name) \in Nat
  /\ i + 1 + Len(name) \in i + 1 .. Len(call.text) + 1
  /\ f[i] \in Seq(Chars) /\ f[i + 1 + Len(name)] \in Seq(Chars)
  /\ name = <<>> => f[i] = <<call.text[i]>> \o f[i + 1]
  /\ name # <<>> => f[i] = Put(call, D, name) \o f[i + 1 + Len(name)]

\* What it has at each place of the template.
LEMMA RenderAt ==
  ASSUME NEW call, Proper(call), NEW D, D \subseteq DOMAIN call.params,
         NEW f, IsRendering(call, D, f), NEW i \in 1 .. Len(call.text)
  PROVE  RendersAt(call, D, f, i, NameAt(call.text, i))
<1> SUFFICES ASSUME NEW name, name = NameAt(call.text, i) PROVE RendersAt(call, D, f, i, name)
  OBVIOUS
<1>1. call.text \in Seq(Chars) /\ Len(call.text) \in Nat
  BY LenProperties DEF Proper
<1>2. name \in Seq(Chars) /\ Len(name) \in Nat /\ i + Len(name) <= Len(call.text)
  BY <1>1, NameAtFacts, LenProperties DEF IsNameAt
<1>3. RenderPiece(call, D)[i] = IF name = <<>> THEN <<call.text[i]>> ELSE Put(call, D, name)
  BY DEF RenderPiece
<1>4. RenderNext(call)[i] = i + 1 + Len(name)
  BY DEF RenderNext
<1>5. f[i] = RenderPiece(call, D)[i] \o f[RenderNext(call)[i]]
  BY DEF IsRendering, Pieced
<1>6. i + 1 + Len(name) \in i + 1 .. Len(call.text) + 1 /\ i + 1 + Len(name) \in 1 .. Len(call.text) + 1
  BY <1>1, <1>2
<1>7. i \in 1 .. Len(call.text) + 1
  BY <1>1
<1>8. f[i] \in Seq(Chars) /\ f[i + 1 + Len(name)] \in Seq(Chars)
  BY <1>6, <1>7 DEF IsRendering
<1>9. name = <<>> => i + 1 + Len(name) = i + 1
  BY EmptySeq
<1> QED
  BY <1>2, <1>3, <1>4, <1>5, <1>6, <1>8, <1>9 DEF RendersAt

\* It ends with nothing.
LEMMA RenderEnd ==
  ASSUME NEW call, NEW D, NEW f, IsRendering(call, D, f)
  PROVE  f[Len(call.text) + 1] = <<>>
BY DEF IsRendering, Pieced

\* A piece of one character.
LEMMA OnePlace ==
  ASSUME NEW s \in Seq(Chars), NEW i \in 1 .. Len(s)
  PROVE  SubSeq(s, i, i) = <<s[i]>>
<1>1. SubSeq(s, i, i) = <<s[i]>> \o SubSeq(s, i + 1, i)
  <2>1. i \in i .. Len(s)
    BY LenProperties
  <2> QED
    BY <2>1, SubSeqRecursiveFirst, Zenon
<1>2. SubSeq(s, i + 1, i) = <<>>
  BY SubSeqEmpty
<1>3. PICK one \in Seq(Chars) : one = <<s[i]>>
  <2>1. s[i] \in Chars
    BY ElementOfSeq
  <2>2. <<s[i]>> \in Seq(Chars)
    BY <2>1
  <2> QED
    BY <2>2
<1>4. one \o <<>> = one
  BY ConcatEmptySeq
<1> QED
  BY <1>1, <1>2, <1>3, <1>4

\* With none replaced it is the text itself.
LEMMA RenderNone ==
  ASSUME NEW call, Proper(call), NEW f, IsRendering(call, {}, f),
         NEW text \in Seq(Chars), text = call.text
  PROVE  f[1] = text
<1> DEFINE n == Len(text)
           g == [i \in 1 .. n + 1 |-> SubSeq(text, i, n)]
           piece == RenderPiece(call, {})
           next == RenderNext(call)
<1>1. text \in Seq(Chars) /\ n \in Nat
  BY LenProperties DEF Proper
<1>2. g[n + 1] = <<>>
  <2>1. n + 1 \in 1 .. n + 1 /\ SubSeq(text, n + 1, n) = <<>>
    BY <1>1, SubSeqEmpty
  <2> QED
    BY <2>1
<1>3. ASSUME NEW i \in 1 .. n, NEW name, name = NameAt(text, i)
      PROVE  g[i] = piece[i] \o g[next[i]]
  <2> DEFINE e == i + Len(name)
  <2>1. /\ name \in Seq(Chars) /\ Len(name) \in Nat /\ e \in Nat /\ e <= n /\ e >= i
        /\ \A k \in 1 .. Len(name) : text[i + k] = name[k]
        /\ name # <<>> => text[i] = Colon
    <3>1. /\ name \in Seq(Chars) /\ i + Len(name) <= Len(text)
          /\ \A k \in 1 .. Len(name) : text[i + k] = name[k]
          /\ name # <<>> => text[i] = Colon
      <4>1. IsNameAt(text, i, name)
        BY <1>3, NameAtFacts
      <4> QED
        BY <4>1 DEF IsNameAt
    <3>2. Len(name) \in Nat
      BY <3>1, LenProperties
    <3> QED
      BY <1>1, <3>1, <3>2
  <2>2. next[i] = e + 1 /\ e + 1 \in 1 .. n + 1 /\ i \in 1 .. n + 1
    <3>1. next[i] = i + 1 + Len(name)
      BY <1>3 DEF RenderNext
    <3> HIDE DEF next, n
    <3> QED
      BY <1>1, <2>1, <3>1
  <2>3. g[i] = SubSeq(text, i, n) /\ g[next[i]] = SubSeq(text, e + 1, n)
    <3> HIDE DEF next, e, n
    <3> QED
      BY <2>2
  <2>4. piece[i] = SubSeq(text, i, e)
    <3>1. text[i] \in Chars
      BY <1>1, ElementOfSeq
    <3>2. \A k \in i .. e : text[k] \in Chars
      <4> SUFFICES ASSUME NEW k \in i .. e PROVE text[k] \in Chars
        OBVIOUS
      <4>1. k \in 1 .. n
        <5> HIDE DEF e, n
        <5> QED
          BY <1>1, <2>1
      <4> QED
        BY <1>1, <4>1, ElementOfSeq
    <3>3. /\ SubSeq(text, i, e) \in Seq(Chars)
          /\ Len(SubSeq(text, i, e)) = Len(name) + 1
          /\ \A k \in 1 .. Len(name) + 1 : SubSeq(text, i, e)[k] = text[i + k - 1]
      <4>1. i \in Int /\ e \in Int
        BY <2>1
      <4>2. i <= e /\ e - i + 1 = Len(name) + 1
        BY <2>1
      <4> HIDE DEF e
      <4>3. /\ SubSeq(text, i, e) \in Seq(Chars)
            /\ Len(SubSeq(text, i, e)) = IF i <= e THEN e - i + 1 ELSE 0
            /\ \A k \in 1 .. e - i + 1 : SubSeq(text, i, e)[k] = text[i + k - 1]
        BY <3>2, <4>1, SubSeqProperties
      <4> QED
        BY <4>2, <4>3
    <3>4. CASE name = <<>>
      <4>1. piece[i] = <<text[i]>>
        BY <1>3, <3>4 DEF RenderPiece
      <4>3. Len(name) = 0
        BY <3>4, EmptySeq
      <4>4. e = i
        BY <4>3
      <4>5. SubSeq(text, i, i) = <<text[i]>>
        BY OnePlace
      <4> HIDE DEF e, piece
      <4> QED
        BY <4>1, <4>4, <4>5
    <3>5. CASE name # <<>>
      <4>1. piece[i] = <<Colon>> \o name
        BY <1>3, <3>5 DEF RenderPiece, Put
      <4>2. PICK colon \in Seq(Chars) : colon = <<Colon>>
        BY ColonTyped
      <4>3. /\ colon \o name \in Seq(Chars) /\ Len(colon \o name) = Len(name) + 1
            /\ \A k \in 1 .. Len(name) + 1 : (colon \o name)[k] = IF k <= 1 THEN Colon ELSE name[k - 1]
        BY <2>1, <4>2, ConcatProperties
      <4>4. ASSUME NEW k \in 1 .. Len(name) + 1 PROVE SubSeq(text, i, e)[k] = (colon \o name)[k]
        <5> HIDE DEF e
        <5>1. CASE k = 1
          BY <2>1, <3>3, <3>5, <4>3, <5>1
        <5>2. CASE k # 1
          <6>1. k - 1 \in 1 .. Len(name) /\ i + k - 1 = i + (k - 1) /\ ~(k <= 1)
            BY <2>1, <5>2
          <6>2. text[i + (k - 1)] = name[k - 1]
            BY <2>1, <6>1
          <6> QED
            BY <3>3, <4>3, <6>1, <6>2
        <5> QED
          BY <5>1, <5>2
      <4>5. SubSeq(text, i, e) = colon \o name
        <5> HIDE DEF e
        <5> QED
          BY <3>3, <4>3, <4>4, SeqEqual
      <4> QED
        BY <4>1, <4>2, <4>5
    <3> QED
      BY <3>4, <3>5
  <2>5. SubSeq(text, i, e) \o SubSeq(text, e + 1, n) = SubSeq(text, i, n)
    <3>1. i \in 1 .. n + 1 /\ e \in i - 1 .. n /\ n \in e .. n
      <4> HIDE DEF e, n
      <4> QED
        BY <1>1, <2>1
    <3> HIDE DEF e
    <3> QED
      BY <1>1, <3>1, ConcatAdjacentSubSeq, Zenon DEF n
  <2> HIDE DEF g, piece, next, e, n
  <2> QED
    BY <2>3, <2>4, <2>5
<1>4. Pieced(g, n, piece, next)
  <2> HIDE DEF g, piece, next, n
  <2> QED
    BY <1>2, <1>3 DEF Pieced
<1>5. Onward(next, n) /\ Pieced(f, n, piece, next)
  BY RenderTyped DEF IsRendering
<1>6. f[1] = g[1]
  <2>1. 1 \in 1 .. n + 1
    BY <1>1
  <2> HIDE DEF g, piece, next, n
  <2> QED
    BY <1>1, <1>4, <1>5, <2>1, PiecesUnique
<1>7. g[1] = SubSeq(text, 1, n) /\ SubSeq(text, 1, n) = text
  BY <1>1, SubSeqFull
<1> QED
  BY <1>6, <1>7

\* What MeantOrLeft puts for a placeholder is what the rendering with all parameters has.
LEMMA ValuesOrLeftTyped ==
  ASSUME NEW call, Proper(call)
  PROVE  /\ ValuesOrLeft(call) \in [Used(call) \X Nat -> Seq(Out)]
         /\ \A name \in Used(call), q \in Nat :
              ValuesOrLeft(call)[<<name, q>>] = Put(call, DOMAIN call.params, name)
<1>1. Used(call) \subseteq Seq(Chars)
  <2> SUFFICES ASSUME NEW i \in DOMAIN call.text PROVE NameAt(call.text, i) \in Seq(Chars)
    BY DEF Used
  <2>1. call.text \in Seq(Chars) /\ i \in 1 .. Len(call.text)
    BY LenProperties DEF Proper
  <2> QED
    BY <2>1, NameAtFacts DEF IsNameAt
<1>2. ASSUME NEW p \in Used(call) \X Nat PROVE Put(call, DOMAIN call.params, p[1]) \in Seq(Out)
  <2>1. Put(call, DOMAIN call.params, p[1]) \in Seq(Chars)
    BY <1>1, PutTyped
  <2> QED
    BY <2>1 DEF Out
<1>3. ValuesOrLeft(call) = [p \in Used(call) \X Nat |-> Put(call, DOMAIN call.params, p[1])]
  BY DEF ValuesOrLeft, Put
<1> QED
  BY <1>2, <1>3

\* The scan has put what it has passed: with the rest, the rendering.
Passed(acc, i, f) ==
  LET at == IF i <= acc.upto THEN acc.upto ELSE i IN acc.text \o f[at + 1] = f[1]

\* A step of the scan takes what the rendering has there.
LEMMA ScanPasses ==
  ASSUME NEW call, Proper(call), NEW f, IsRendering(call, DOMAIN call.params, f),
         NEW scan, IsScan(call, ValuesOrLeft(call), scan), NEW n, n = Len(call.text),
         NEW i \in 1 .. n, scan[i - 1].upto <= n, Passed(scan[i - 1], i - 1, f)
  PROVE  scan[i].upto <= n /\ Passed(scan[i], i, f)
<1> DEFINE acc == scan[i - 1]
           next == scan[i]
           names == DOMAIN call.params
<1>1. n \in Nat /\ i - 1 \in 0 .. n /\ i \in 0 .. n
  BY LenProperties DEF Proper
<1>2. acc \in ScanState /\ next \in ScanState
  BY <1>1 DEF IsScan
<1>3. acc.upto \in Nat /\ acc.upto <= n /\ Len(acc.args) \in Nat
  BY <1>2, LenProperties DEF ScanState
<1>4. PICK name : name = NameAt(call.text, i)
  OBVIOUS
<1>5. StepEffect(call, ValuesOrLeft(call), acc, i, name, next)
  <2>1. next = ScanStep(call, ValuesOrLeft(call), acc, i)
    BY DEF IsScan
  <2> HIDE DEF acc, next
  <2> QED
    BY <1>2, <1>4, <2>1, ScanStepEffect, ValuesOrLeftTyped
<1>6. /\ name \in Seq(Chars) /\ Len(name) \in Nat
      /\ i + 1 + Len(name) \in i + 1 .. n + 1
      /\ f[i] \in Seq(Chars) /\ f[i + 1 + Len(name)] \in Seq(Chars)
      /\ name = <<>> => f[i] = <<call.text[i]>> \o f[i + 1]
      /\ name # <<>> => f[i] = Put(call, names, name) \o f[i + 1 + Len(name)]
  <2>1. RendersAt(call, names, f, i, name)
    BY <1>4, RenderAt
  <2> HIDE DEF names
  <2> QED
    BY <2>1 DEF RendersAt
<1>7. CASE i <= acc.upto
  <2>1. next = acc
    <3> HIDE DEF acc, next
    <3> QED
      BY <1>5, <1>7 DEF StepEffect
  <2>2. i - 1 <= acc.upto
    BY <1>3, <1>7
  <2> QED
    BY <1>3, <1>7, <2>1, <2>2 DEF Passed
<1>8. CASE ~(i <= acc.upto)
  <2>1. acc.text \o f[i] = f[1]
    <3>1. (IF i - 1 <= acc.upto THEN acc.upto ELSE i - 1) + 1 = i
      BY <1>3, <1>8
    <3> HIDE DEF acc
    <3> QED
      BY <3>1 DEF Passed, acc
  <2>2. PICK before \in Seq(Out) : before = acc.text
    BY <1>2 DEF ScanState
  <2>3. CASE name = <<>>
    <3>1. next.text = Append(acc.text, call.text[i]) /\ next.upto = acc.upto
      <4> HIDE DEF acc, next
      <4> QED
        BY <1>5, <1>8, <2>3 DEF StepEffect
    <3>2. PICK ch \in Out : ch = call.text[i]
      BY ElementOfSeq DEF Proper, Out
    <3>3. PICK after \in Seq(Out) : after = f[i + 1]
      <4>1. i + 1 + Len(name) = i + 1
        BY <2>3, EmptySeq
      <4>2. f[i + 1] \in Seq(Chars)
        BY <1>6, <4>1
      <4> QED
        BY <4>2 DEF Out
    <3>4. Append(before, ch) \o after = before \o (<<ch>> \o after)
      OBVIOUS
    <3>5. (IF i <= next.upto THEN next.upto ELSE i) = i
      BY <1>3, <1>8, <3>1
    <3>6. next.text \o f[i + 1] = f[1]
      <4> HIDE DEF acc, next
      <4> QED
        BY <1>6, <2>1, <2>2, <2>3, <3>1, <3>2, <3>3, <3>4
    <3> HIDE DEF acc, next
    <3> QED
      BY <1>3, <3>1, <3>5, <3>6 DEF Passed, next
  <2>4. CASE name # <<>>
    <3>0. name \in Used(call) /\ next.upto = i + Len(name)
          /\ next.text = acc.text \o ValuesOrLeft(call)[<<name, Len(acc.args) + 1>>]
      <4> HIDE DEF acc, next
      <4> QED
        BY <1>5, <1>8, <2>4 DEF StepEffect
    <3>1. next.text = acc.text \o Put(call, names, name)
      <4>1. Len(acc.args) + 1 \in Nat
        BY <1>3
      <4> HIDE DEF acc, next
      <4> QED
        BY <3>0, <4>1, ValuesOrLeftTyped
    <3>2. PICK put \in Seq(Out) : put = Put(call, names, name)
      <4>1. Put(call, names, name) \in Seq(Chars)
        BY <1>6, PutTyped
      <4> QED
        BY <4>1 DEF Out
    <3>3. PICK after \in Seq(Out) : after = f[i + 1 + Len(name)]
      BY <1>6 DEF Out
    <3>4. (before \o put) \o after = before \o (put \o after)
      OBVIOUS
    <3>5. (IF i <= next.upto THEN next.upto ELSE i) + 1 = i + 1 + Len(name) /\ next.upto <= n
      <4>1. PICK long \in Nat : long = Len(name)
        BY <1>6
      <4>2. i \in Nat /\ i + 1 + long <= n + 1 /\ next.upto = i + long
        <5> HIDE DEF next
        <5> QED
          BY <1>1, <1>6, <3>0, <4>1
      <4> HIDE DEF next
      <4> QED
        BY <1>1, <4>1, <4>2
    <3>6. next.text \o f[i + 1 + Len(name)] = f[1]
      <4> HIDE DEF acc, next, names
      <4> QED
        BY <1>6, <2>1, <2>2, <2>4, <3>1, <3>2, <3>3, <3>4
    <3> HIDE DEF acc, next
    <3> QED
      BY <3>5, <3>6 DEF Passed, next
  <2> QED
    BY <2>3, <2>4
<1> QED
  BY <1>7, <1>8

\* With all parameters replaced it is what the template means.
LEMMA RenderAll ==
  ASSUME NEW call, Proper(call), NEW f, IsRendering(call, DOMAIN call.params, f)
  PROVE  f[1] = MeantOrLeft(call)
<1> DEFINE n == Len(call.text)
<1>1. PICK scan : IsScan(call, ValuesOrLeft(call), scan)
  BY ScanDefined, ValuesOrLeftTyped
<1>2. n \in Nat
  BY LenProperties DEF Proper
<1> DEFINE S == {i \in 0 .. n : scan[i].upto <= n /\ Passed(scan[i], i, f)}
<1>3. 0 \in S
  <2>1. scan[0].upto = 0 /\ scan[0].text = <<>>
    BY <1>1 DEF IsScan, ScanStart
  <2>2. f[1] \in Seq(Chars)
    BY <1>2 DEF IsRendering
  <2>3. <<>> \o f[1] = f[1]
    BY <2>2, ConcatEmptySeq
  <2>4. Passed(scan[0], 0, f)
    BY <2>1, <2>3 DEF Passed
  <2> QED
    BY <1>2, <2>1, <2>4
<1>4. ASSUME NEW i \in 1 .. n, i - 1 \in S PROVE i \in S
  <2>1. scan[i].upto <= n /\ Passed(scan[i], i, f)
    BY <1>1, <1>4, ScanPasses
  <2> QED
    BY <1>2, <2>1
<1>5. 0 .. n \subseteq S
  <2> HIDE DEF S, n
  <2> QED
    BY <1>2, <1>3, <1>4, UpInduction
<1>6. scan[n].upto <= n /\ Passed(scan[n], n, f)
  <2>1. n \in 0 .. n
    BY <1>2
  <2> QED
    BY <1>5, <2>1
<1>7. scan[n].text \in Seq(Out) /\ scan[n].upto \in Nat
  <2>1. n \in 0 .. n
    BY <1>2
  <2>2. scan[n] \in ScanState
    BY <1>1, <2>1 DEF IsScan
  <2> QED
    BY <2>2 DEF ScanState
<1>8. (IF n <= scan[n].upto THEN scan[n].upto ELSE n) + 1 = n + 1
  <2> HIDE DEF n
  <2> QED
    BY <1>2, <1>6, <1>7
<1>9. scan[n].text \o f[n + 1] = f[1]
  <2> HIDE DEF n
  <2> QED
    BY <1>6, <1>8 DEF Passed
<1>10. f[n + 1] = <<>>
  BY RenderEnd
<1>11. scan[n].text \o <<>> = scan[n].text
  BY <1>7, ConcatEmptySeq
<1>12. MeantOrLeft(call) = scan[n].text
  BY <1>1 DEF MeantOrLeft, IsScan
<1> QED
  BY <1>9, <1>10, <1>11, <1>12

-----------------------------------------------------------------------------
(* Replacing one more parameter.                                             *)

IsPlaceholder(name, old) ==
  /\ name \in Seq(Chars) /\ old \in Seq(Chars) /\ old # <<>>
  /\ Len(name) \in Nat /\ Len(name) > 0 /\ Len(old) = Len(name) + 1
  /\ old[1] = Colon
  /\ \A k \in 1 .. Len(name) : old[k + 1] = name[k] /\ name[k] \in Letters

\* A name of letters with a colon before it is a placeholder's text.
LEMMA Placeholders ==
  ASSUME NEW name \in Seq(Chars), name # <<>>, \A k \in 1 .. Len(name) : name[k] \in Letters
  PROVE  IsPlaceholder(name, <<Colon>> \o name)
<1>1. PICK colon \in Seq(Chars) : colon = <<Colon>>
  BY ColonTyped
<1>2. Len(name) \in Nat /\ Len(name) > 0
  BY LenProperties, EmptySeq
<1>3. /\ colon \o name \in Seq(Chars) /\ Len(colon \o name) = Len(name) + 1
      /\ \A k \in 1 .. Len(name) + 1 : (colon \o name)[k] = IF k <= 1 THEN Colon ELSE name[k - 1]
  BY <1>1, <1>2, ConcatProperties
<1>4. (colon \o name)[1] = Colon
  BY <1>2, <1>3
<1>5. ASSUME NEW k \in 1 .. Len(name) PROVE (colon \o name)[k + 1] = name[k]
  <2>1. k + 1 \in 1 .. Len(name) + 1 /\ ~(k + 1 <= 1) /\ k + 1 - 1 = k
    BY <1>2
  <2> QED
    BY <1>3, <2>1
<1>6. colon \o name # <<>>
  BY <1>2, <1>3, EmptySeq
<1>7. IsPlaceholder(name, colon \o name)
  BY <1>2, <1>3, <1>4, <1>5, <1>6 DEF IsPlaceholder
<1> QED
  BY <1>1, <1>7

\* A character is a text.
LEMMA OneText ==
  ASSUME NEW ch \in Chars
  PROVE  \E w \in Seq(Chars) : w = <<ch>> /\ Len(w) = 1 /\ w[1] = ch
<1>1. <<ch>> \in Seq(Chars) /\ Len(<<ch>>) = 1 /\ <<ch>>[1] = ch
  OBVIOUS
<1> QED
  BY <1>1

\* A placeholder is found at colons only.
LEMMA NoMatchWithoutColon ==
  ASSUME NEW name, NEW old, IsPlaceholder(name, old), NEW s, NEW i \in Nat, s[i] # Colon
  PROVE  ~Matches(s, i, old)
<1>1. 1 \in 1 .. Len(old) /\ i + 1 - 1 = i
  BY DEF IsPlaceholder
<1> QED
  BY <1>1 DEF Matches, IsPlaceholder

\* Beginning is what SequencesExt says of prefixes.
LEMMA BeginsIsPrefix ==
  ASSUME NEW s \in Seq(Chars), NEW t \in Seq(Chars), Begins(s, t)
  PROVE  IsPrefix(s, t)
<1>1. Len(s) \in Nat /\ Len(t) \in Nat /\ Len(s) <= Len(t)
  BY LenProperties DEF Begins
<1>2. /\ SubSeq(t, 1, Len(s)) \in Seq(Chars)
      /\ Len(SubSeq(t, 1, Len(s))) = Len(s)
      /\ \A i \in 1 .. Len(s) : SubSeq(t, 1, Len(s))[i] = t[i]
  <2>1. \A i \in 1 .. Len(s) : t[i] \in Chars
    BY <1>1, ElementOfSeq
  <2>2. 1 \in Int /\ Len(s) \in Int
    BY <1>1
  <2>3. /\ SubSeq(t, 1, Len(s)) \in Seq(Chars)
        /\ Len(SubSeq(t, 1, Len(s))) = IF 1 <= Len(s) THEN Len(s) - 1 + 1 ELSE 0
        /\ \A i \in 1 .. Len(s) - 1 + 1 : SubSeq(t, 1, Len(s))[i] = t[1 + i - 1]
    BY <2>1, <2>2, SubSeqProperties
  <2>4. Len(s) - 1 + 1 = Len(s) /\ \A i \in 1 .. Len(s) : 1 + i - 1 = i
    BY <1>1
  <2> QED
    BY <1>1, <2>3, <2>4
<1>3. SubSeq(t, 1, Len(s)) = s
  BY <1>1, <1>2, SeqEqual DEF Begins
<1>4. SubSeq(s, 1, Len(s)) = s
  BY SubSeqFull
<1> QED
  BY <1>1, <1>3, <1>4 DEF IsPrefix

\* A placeholder of another name is not one of this, whatever follows it.
LEMMA NoMatchOfAnother ==
  ASSUME NEW m, NEW old, IsPlaceholder(m, old), NEW name, NEW w, IsPlaceholder(name, w),
         NEW t \in Seq(Chars), ~IsPrefix(m, name), ~IsPrefix(name, m)
  PROVE  Skips(w, t, old)
<1> DEFINE s == w \o t
<1>1. /\ m \in Seq(Chars) /\ Len(m) \in Nat /\ Len(old) = Len(m) + 1
      /\ name \in Seq(Chars) /\ Len(name) \in Nat /\ Len(w) = Len(name) + 1 /\ w \in Seq(Chars)
      /\ \A k \in 1 .. Len(m) : old[k + 1] = m[k]
      /\ \A k \in 1 .. Len(name) : w[k + 1] = name[k] /\ name[k] \in Letters
  BY DEF IsPlaceholder
<1>2. \A i \in 1 .. Len(w) : s[i] = w[i]
  BY <1>1, ConcatProperties, LenProperties
<1> HIDE DEF s
<1>3. ~Matches(s, 1, old)
  <2> SUFFICES ASSUME Matches(s, 1, old) PROVE FALSE
    OBVIOUS
  <2>1. \A k \in 1 .. Len(old) : s[k] = old[k]
    BY DEF Matches
  <2>2. ASSUME NEW k \in 1 .. Len(m), k \in 1 .. Len(name) PROVE m[k] = name[k]
    <3>1. k + 1 \in 1 .. Len(old) /\ k + 1 \in 1 .. Len(w)
      BY <1>1, <2>2
    <3> QED
      BY <1>1, <1>2, <2>1, <2>2, <3>1
  <2>3. CASE Len(m) <= Len(name)
    <3>1. Begins(m, name)
      BY <1>1, <2>2, <2>3 DEF Begins
    <3> QED
      BY <1>1, <3>1, BeginsIsPrefix
  <2>4. CASE ~(Len(m) <= Len(name))
    <3>1. Begins(name, m)
      BY <1>1, <2>2, <2>4 DEF Begins
    <3> QED
      BY <1>1, <3>1, BeginsIsPrefix
  <2> QED
    BY <2>3, <2>4
<1>4. ASSUME NEW i \in 2 .. Len(w) PROVE ~Matches(s, i, old)
  <2>1. i - 1 \in 1 .. Len(name) /\ i - 1 + 1 = i /\ i \in 1 .. Len(w) /\ i \in Nat
    BY <1>1
  <2>2. s[i] \in Letters
    BY <1>1, <1>2, <2>1
  <2>3. s[i] # Colon
    BY <2>2, CharsAssumption
  <2> QED
    BY <2>1, <2>3, NoMatchWithoutColon
<1>5. \A i \in 1 .. Len(w) : i = 1 \/ i \in 2 .. Len(w)
  BY <1>1
<1> QED
  BY <1>3, <1>4, <1>5 DEF Skips, s

\* What is replaced for m, by what; from lo to hi, f with it replaced is g.
Sought(call, m, old, new) == old = <<Colon>> \o m /\ new = call.params[m]
Replaced(f, g, old, new, lo, hi) == \A j \in lo .. hi : ReplaceEvery(f[j], old, new) = g[j]

\* Where the call is Clear, from the end: replacing the placeholders of m in a
\* text in which those of D are replaced replaces no other text.
LEMMA ReplaceFrom ==
  ASSUME NEW call, Proper(call), Clear(call),
         NEW D, D \subseteq DOMAIN call.params, NEW m \in DOMAIN call.params, m \notin D,
         NEW f, IsRendering(call, D, f), NEW g, IsRendering(call, D \cup {m}, g),
         NEW old, NEW new, Sought(call, m, old, new),
         NEW i \in 1 .. Len(call.text), Replaced(f, g, old, new, i + 1, Len(call.text) + 1)
  PROVE  Replaced(f, g, old, new, i, i)
<1> DEFINE names == DOMAIN call.params
           text == call.text
           n == Len(text)
<1> SUFFICES ReplaceEvery(f[i], old, new) = g[i]
  BY DEF Replaced
<1>0. old = <<Colon>> \o m /\ new = call.params[m]
  BY DEF Sought
<1>1. n \in Nat /\ m \in Seq(Chars) /\ new \in Seq(Chars) /\ text \in Seq(Chars)
  BY <1>0, LenProperties DEF Proper
<1>2. IsPlaceholder(m, old)
  BY <1>0, <1>1, Placeholders, LenProperties DEF Clear
<1>3. old \in Seq(Chars) /\ old # <<>> /\ Len(old) = Len(m) + 1 /\ Len(m) \in Nat /\ Len(m) > 0
  BY <1>2 DEF IsPlaceholder
<1>4. PICK name : name = NameAt(text, i)
  OBVIOUS
<1>5. RendersAt(call, D, f, i, name) /\ RendersAt(call, D \cup {m}, g, i, name)
  BY <1>4, RenderAt
<1>6. IsNameAt(text, i, name)
  BY <1>1, <1>4, NameAtFacts
<1> DEFINE j == i + 1 + Len(name)
<1>7. PICK t \in Seq(Chars) : t = f[j]
  BY <1>5 DEF RendersAt
<1>8. ReplaceEvery(t, old, new) = g[j]
  BY <1>5, <1>7 DEF RendersAt, Replaced
<1> HIDE DEF j
<1>9. CASE name = <<>>
  <2> DEFINE ch == text[i]
  <2>1. f[i] = <<ch>> \o f[i + 1] /\ g[i] = <<ch>> \o g[i + 1] /\ j = i + 1
    <3>1. j = i + 1
      BY <1>1, <1>9, EmptySeq DEF j
    <3>2. f[i] = <<ch>> \o f[i + 1]
      BY <1>5, <1>9 DEF RendersAt
    <3>3. g[i] = <<ch>> \o g[i + 1]
      BY <1>5, <1>9 DEF RendersAt
    <3> QED
      BY <3>1, <3>2, <3>3
  <2>2. ch \in Chars
    BY <1>1, ElementOfSeq
  <2> HIDE DEF ch
  <2>3. PICK w \in Seq(Chars) : w = <<ch>> /\ Len(w) = 1 /\ w[1] = ch
    BY <2>2, OneText
  <2> DEFINE s == w \o t
  <2>4. /\ s \in Seq(Chars) /\ Len(s) = 1 + Len(t) /\ s[1] = ch
        /\ \A k \in 1 .. Len(t) : s[k + 1] = t[k]
    BY <2>3, ConcatProperties, LenProperties
  <2> HIDE DEF s
  <2>5. ~Matches(s, 1, old)
    <3>1. CASE ch # Colon
      BY <1>2, <2>4, <3>1, NoMatchWithoutColon
    <3>2. CASE ch = Colon /\ i = n
      <4>1. t = <<>>
        BY <1>7, <2>1, <3>2, RenderEnd
      <4>2. Len(s) = 1
        BY <2>4, <4>1, EmptySeq
      <4> QED
        BY <1>3, <4>2 DEF Matches
    <3>3. CASE ch = Colon /\ i # n
      <4>1. i \in 1 .. n - 1 /\ i + 1 \in 1 .. n
        BY <1>1, <3>3
      <4>2. text[i + 1] \notin Letters
        BY <1>6, <1>9, <3>3 DEF IsNameAt, ch
      <4>3. text[i + 1] # Colon
        BY <3>3, <4>1 DEF Clear, ch
      <4>4. NameAt(text, i + 1) = <<>>
        BY <4>3 DEF NameAt
      <4>5. f[i + 1] = <<text[i + 1]>> \o f[i + 2] /\ f[i + 2] \in Seq(Chars)
        <5>1. RendersAt(call, D, f, i + 1, NameAt(text, i + 1))
          BY <4>1, RenderAt
        <5>2. i + 1 + 1 + Len(<<>>) = i + 2 /\ i + 1 + 1 = i + 2
          BY <1>1, EmptySeq
        <5> QED
          BY <4>4, <5>1, <5>2 DEF RendersAt
      <4>6. t[1] = text[i + 1] /\ Len(t) > 0
        <5>1. text[i + 1] \in Chars
          BY <1>1, <4>1, ElementOfSeq
        <5>2. PICK x \in Seq(Chars) : x = <<text[i + 1]>> /\ Len(x) = 1 /\ x[1] = text[i + 1]
          BY <5>1, OneText
        <5>3. PICK y \in Seq(Chars) : y = f[i + 2]
          BY <4>5
        <5>4. t = x \o y
          BY <1>7, <2>1, <4>5, <5>2, <5>3
        <5> QED
          BY <5>2, <5>4, ConcatProperties, LenProperties
      <4>7. s[2] \notin Letters
        <5>1. 1 \in 1 .. Len(t) /\ 1 + 1 = 2
          BY <4>6, LenProperties
        <5> QED
          BY <2>4, <4>2, <4>6, <5>1
      <4>8. old[2] \in Letters /\ 2 \in 1 .. Len(old) /\ 1 + 2 - 1 = 2
        <5>1. 1 \in 1 .. Len(m) /\ 1 + 1 = 2
          BY <1>3
        <5> QED
          BY <1>2, <1>3, <5>1 DEF IsPlaceholder
      <4> QED
        BY <4>7, <4>8 DEF Matches
    <3> QED
      BY <3>1, <3>2, <3>3
  <2>6. Skips(w, t, old)
    <3>1. \A k \in 1 .. Len(w) : k = 1
      BY <2>3
    <3> QED
      BY <2>5, <3>1 DEF Skips, s
  <2>7. StaysBefore(w, t, old, new)
    BY <1>1, <1>3, <2>6, ReplaceSkips
  <2> QED
    BY <1>7, <1>8, <2>1, <2>3, <2>7 DEF StaysBefore
<1>10. CASE name # <<>> /\ name \in D
  <2>1. f[i] = call.params[name] \o t /\ g[i] = call.params[name] \o g[j]
    BY <1>5, <1>7, <1>10 DEF RendersAt, Put, j
  <2>2. PICK w \in Seq(Chars) : w = call.params[name]
    BY <1>10 DEF Proper
  <2>3. Len(w) \in Nat /\ \A k \in 1 .. Len(w) : (w \o t)[k] = w[k] /\ w[k] # Colon
    <3>1. Len(w) \in Nat /\ \A k \in 1 .. Len(w) : (w \o t)[k] = w[k]
      BY ConcatProperties, LenProperties
    <3>2. DOMAIN w = 1 .. Len(w)
      BY LenProperties
    <3>3. \A k \in DOMAIN call.params[name] : call.params[name][k] # Colon
      BY <1>10 DEF Clear
    <3> QED
      BY <2>2, <3>1, <3>2, <3>3
  <2>4. Skips(w, t, old)
    <3> DEFINE s == w \o t
    <3>0. \A k \in 1 .. Len(w) : k \in Nat /\ s[k] # Colon
      BY <2>3
    <3> HIDE DEF s
    <3>1. ASSUME NEW k \in 1 .. Len(w) PROVE ~Matches(s, k, old)
      BY <1>2, <3>0, NoMatchWithoutColon
    <3> QED
      BY <3>1 DEF Skips, s
  <2>5. StaysBefore(w, t, old, new)
    BY <1>1, <1>3, <2>4, ReplaceSkips
  <2> QED
    BY <1>8, <2>1, <2>2, <2>5 DEF StaysBefore
<1>11. CASE name = m
  <2>1. f[i] = old \o t /\ g[i] = new \o g[j]
    <3>1. name # <<>>
      BY <1>3, <1>11, EmptySeq
    <3> QED
      BY <1>0, <1>5, <1>7, <1>11, <3>1 DEF RendersAt, Put, j
  <2>2. ReplaceEvery(old \o t, old, new) = new \o ReplaceEvery(t, old, new)
    BY <1>1, <1>3, ReplaceReplaces
  <2> QED
    BY <1>8, <2>1, <2>2
<1>12. CASE name # <<>> /\ name \notin D /\ name # m
  <2> DEFINE w == <<Colon>> \o name
  <2>1. f[i] = w \o t /\ g[i] = w \o g[j]
    BY <1>5, <1>7, <1>12 DEF RendersAt, Put, j
  <2>2. IsPlaceholder(name, w)
    BY <1>6, <1>12, Placeholders DEF IsNameAt
  <2>3. name \in Used(call)
    BY <1>4, <1>12, NamesAreUsed
  <2>4. ~IsPrefix(m, name) /\ ~IsPrefix(name, m)
    BY <1>12, <2>3 DEF Clear
  <2> HIDE DEF w
  <2>5. w \in Seq(Chars) /\ Skips(w, t, old)
    BY <1>2, <2>2, <2>4, NoMatchOfAnother DEF IsPlaceholder
  <2>6. StaysBefore(w, t, old, new)
    BY <1>1, <1>3, <2>5, ReplaceSkips
  <2> QED
    BY <1>8, <2>1, <2>6 DEF StaysBefore
<1> QED
  BY <1>9, <1>10, <1>11, <1>12

\* Replacing one more parameter renders one more parameter.
LEMMA ReplaceRendered ==
  ASSUME NEW call, Proper(call), Clear(call),
         NEW D, D \subseteq DOMAIN call.params, NEW m \in DOMAIN call.params, m \notin D,
         NEW f, IsRendering(call, D, f), NEW g, IsRendering(call, D \cup {m}, g)
  PROVE  ReplaceEvery(f[1], <<Colon>> \o m, call.params[m]) = g[1]
<1> DEFINE old == <<Colon>> \o m
           new == call.params[m]
           n == Len(call.text)
           S == {i \in 1 .. n + 1 : ReplaceEvery(f[i], old, new) = g[i]}
<1>1. n \in Nat /\ old \in Seq(Chars) /\ old # <<>> /\ new \in Seq(Chars)
  <2>1. m \in Seq(Chars) /\ m # <<>> /\ \A k \in 1 .. Len(m) : m[k] \in Letters
    BY LenProperties DEF Proper, Clear
  <2>2. IsPlaceholder(m, old)
    BY <2>1, Placeholders
  <2>3. old \in Seq(Chars) /\ old # <<>>
    <3> HIDE DEF old
    <3> QED
      BY <2>2 DEF IsPlaceholder
  <2>4. n \in Nat /\ new \in Seq(Chars)
    BY LenProperties DEF Proper
  <2> QED
    BY <2>3, <2>4
<1>2. ASSUME NEW i \in 1 .. n + 1, \A j \in i + 1 .. n + 1 : j \in S PROVE i \in S
  <2>1. CASE i = n + 1
    <3>1. f[i] = <<>> /\ g[i] = <<>>
      BY <2>1, RenderEnd
    <3> HIDE DEF old, new
    <3> QED
      BY <1>1, <3>1, ReplaceEmpty
  <2>2. CASE i \in 1 .. n
    <3>1. \A j \in i + 1 .. n + 1 : ReplaceEvery(f[j], old, new) = g[j]
      <4> SUFFICES ASSUME NEW j \in i + 1 .. n + 1 PROVE ReplaceEvery(f[j], old, new) = g[j]
        OBVIOUS
      <4>1. j \in S
        <5> HIDE DEF S
        <5> QED
          BY <1>2
      <4> HIDE DEF old, new, n
      <4> QED
        BY <4>1
    <3>2. ReplaceEvery(f[i], old, new) = g[i]
      <4>1. Replaced(f, g, old, new, i + 1, n + 1)
        BY <3>1 DEF Replaced
      <4>2. Sought(call, m, old, new)
        BY DEF Sought
      <4>3. Replaced(f, g, old, new, i, i)
        <5> HIDE DEF old, new
        <5> QED
          BY <2>2, <4>1, <4>2, ReplaceFrom
      <4> HIDE DEF old, new
      <4> QED
        BY <4>3 DEF Replaced
    <3> HIDE DEF old, new
    <3> QED
      BY <3>2
  <2>3. i = n + 1 \/ i \in 1 .. n
    BY <1>1
  <2> HIDE DEF S
  <2> QED
    BY <2>1, <2>2, <2>3
<1>3. 1 .. n + 1 \subseteq S
  <2> HIDE DEF S, n
  <2> QED
    BY <1>1, <1>2, DownInduction
<1>4. 1 \in S
  <2>1. 1 \in 1 .. n + 1
    BY <1>1
  <2> HIDE DEF S
  <2> QED
    BY <1>3, <2>1
<1> QED
  <2> HIDE DEF old, new
  <2>1. ReplaceEvery(f[1], old, new) = g[1]
    BY <1>4
  <2> QED
    BY <2>1 DEF old, new

\* body is the recursive function of SubstitutedIn.
IsBody(call, order, body) ==
  /\ body[0] = call.text
  /\ \A k \in 1 .. Len(order) :
       body[k] = ReplaceEvery(body[k - 1], <<Colon>> \o order[k], call.params[order[k]])
  /\ SubstitutedIn(call, order).text = body[Len(order)]

\* The text after each parameter is defined, and SubstitutedIn is the last.
LEMMA BodyDefined ==
  ASSUME NEW call, Proper(call), NEW order \in Seq(DOMAIN call.params)
  PROVE  \E body : IsBody(call, order, body)
<1> DEFINE n == Len(order)
           Step(text, k) == ReplaceEvery(text, <<Colon>> \o order[k], call.params[order[k]])
           Rec(f) == f = [k \in 0 .. n |-> IF k = 0 THEN call.text ELSE Step(f[k - 1], k)]
           G == [p \in (1 .. n) \X Seq(Chars) |-> Step(p[2], p[1])]
           body == CHOOSE f : Rec(f)
<1>1. n \in Nat /\ call.text \in Seq(Chars)
  BY LenProperties DEF Proper
<1>2. G \in [(1 .. n) \X Seq(Chars) -> Seq(Chars)]
  <2> SUFFICES ASSUME NEW k \in 1 .. n, NEW text \in Seq(Chars) PROVE Step(text, k) \in Seq(Chars)
    OBVIOUS
  <2>1. order[k] \in DOMAIN call.params
    BY ElementOfSeq
  <2>2. PICK m \in Seq(Chars) : m = order[k]
    BY <2>1 DEF Proper
  <2>3. call.params[m] \in Seq(Chars)
    BY <2>1, <2>2 DEF Proper
  <2>4. PICK old \in Seq(Chars) : old = <<Colon>> \o m /\ old # <<>>
    BY ColonBefore
  <2>5. ReplaceEvery(text, old, call.params[m]) \in Seq(Chars)
    BY <2>3, <2>4, ReplaceEveryTyped
  <2> QED
    BY <2>2, <2>4, <2>5
<1>3. PICK f \in [0 .. n -> Seq(Chars)] : Recurses(f, n, call.text, G)
  <2> HIDE DEF G, n
  <2> QED
    BY <1>1, <1>2, RecursionDefines
<1>4. Rec(f)
  <2>1. ASSUME NEW k \in 1 .. n PROVE f[k] = Step(f[k - 1], k)
    <3>1. f[k - 1] \in Seq(Chars)
      <4>1. k - 1 \in 0 .. n
        BY <1>1
      <4> QED
        BY <4>1
    <3>2. f[k] = G[<<k, f[k - 1]>>]
      BY <1>3 DEF Recurses
    <3> HIDE DEF Step, n
    <3> QED
      BY <3>1, <3>2
  <2>2. \A k \in 0 .. n : k = 0 \/ k \in 1 .. n
    BY <1>1
  <2>3. f = [k \in 0 .. n |-> f[k]]
    OBVIOUS
  <2>4. f[0] = call.text
    BY <1>3 DEF Recurses
  <2> HIDE DEF n, Step
  <2> QED
    BY <1>1, <2>1, <2>2, <2>3, <2>4
<1>5. Rec(body)
  <2> HIDE DEF Rec
  <2> QED
    BY <1>4
<1>6. body[0] = call.text /\ \A k \in 1 .. n : body[k] = Step(body[k - 1], k)
  <2> HIDE DEF body, n, Step
  <2> QED
    BY <1>1, <1>5
<1>7. SubstitutedIn(call, order).text = body[n]
  BY DEF SubstitutedIn
<1> QED
  <2> HIDE DEF body
  <2> QED
    BY <1>6, <1>7 DEF IsBody

\* An order has every parameter, and none twice.
LEMMA OrdersHaveAll ==
  ASSUME NEW names, IsFiniteSet(names), NEW order \in SetToSeqs(names)
  PROVE  /\ order \in Seq(names)
         /\ \A j \in 1 .. Len(order), k \in 1 .. Len(order) : j # k => order[j] # order[k]
         /\ \A m \in names : \E k \in 1 .. Len(order) : order[k] = m
<1> DEFINE n == Cardinality(names)
<1>1. n \in Nat
  BY FS_CardinalityType
<1>2. /\ order \in [1 .. n -> names]
      /\ \A j \in 1 .. n, k \in 1 .. n : j # k => order[j] # order[k]
  BY DEF SetToSeqs
<1> HIDE DEF n
<1>3. order \in Seq(names) /\ Len(order) = n
  BY <1>1, <1>2
<1>4. order \in Injection(1 .. n, names)
  BY <1>2 DEF Injection, IsInjective
<1>5. Cardinality(1 .. n) = n
  <2>1. Cardinality(1 .. n) = IF 1 > n THEN 0 ELSE n - 1 + 1
    BY <1>1, FS_Interval
  <2> QED
    BY <1>1, <2>1
<1>6. order \in Surjection(1 .. n, names)
  BY <1>4, <1>5, FS_Injection DEF n
<1> QED
  BY <1>2, <1>3, <1>6 DEF Surjection

\* Replacing text, parameter by parameter, gives what the template means where
\* the call is Clear, whatever the order in which the map is iterated.
THEOREM SubstitutedMeans ==
  ASSUME NEW call, Proper(call), Clear(call), NEW sent \in Substituted(call)
  PROVE  sent.text = MeantOrLeft(call) /\ sent.args = <<>>
<1> DEFINE names == DOMAIN call.params
<1>1. PICK order \in SetToSeqs(names) : sent = SubstitutedIn(call, order)
  BY DEF Substituted
<1> DEFINE n == Len(order)
           Done(k) == {order[j] : j \in 1 .. k}
<1>2. /\ order \in Seq(names)
      /\ \A j \in 1 .. n, k \in 1 .. n : j # k => order[j] # order[k]
      /\ \A m \in names : \E k \in 1 .. n : order[k] = m
  <2>1. IsFiniteSet(names)
    BY DEF Proper
  <2> HIDE DEF names
  <2> QED
    BY <1>1, <2>1, OrdersHaveAll
<1>3. n \in Nat /\ \A k \in 1 .. n : order[k] \in names
  BY <1>2, LenProperties, ElementOfSeq
<1>4. PICK body : IsBody(call, order, body)
  BY <1>2, BodyDefined
<1> HIDE DEF names, n
<1> DEFINE S == {k \in 0 .. n : \A f : IsRendering(call, Done(k), f) => body[k] = f[1]}
<1>5. 0 \in S
  <2>1. Done(0) = {}
    OBVIOUS
  <2>2. call.text \in Seq(Chars) /\ body[0] = call.text
    BY <1>4 DEF Proper, IsBody
  <2>3. ASSUME NEW f, IsRendering(call, Done(0), f) PROVE body[0] = f[1]
    BY <2>1, <2>2, <2>3, RenderNone
  <2> HIDE DEF Done
  <2> QED
    BY <1>3, <2>3
<1>6. ASSUME NEW k \in 1 .. n, k - 1 \in S PROVE k \in S
  <2> DEFINE m == order[k]
             D == Done(k - 1)
  <2>1. m \in names /\ m \notin D /\ D \subseteq names /\ Done(k) = D \cup {m}
    <3>1. k - 1 \in 0 .. n /\ \A j \in 1 .. k - 1 : j \in 1 .. n /\ j # k
      BY <1>3
    <3>2. \A j \in 1 .. k : j \in 1 .. k - 1 \/ j = k
      BY <1>3
    <3>3. 1 .. k - 1 \subseteq 1 .. k /\ k \in 1 .. k
      BY <1>3
    <3>4. m \notin D
      BY <1>2, <3>1 DEF n
    <3> QED
      BY <1>3, <3>1, <3>2, <3>3, <3>4
  <2>2. body[k] = ReplaceEvery(body[k - 1], <<Colon>> \o m, call.params[m])
    BY <1>4 DEF IsBody, n
  <2>3. PICK f : IsRendering(call, D, f)
    <3> HIDE DEF D
    <3> QED
      BY <2>1, RenderDefined DEF names
  <2>4. body[k - 1] = f[1]
    <3> HIDE DEF Done
    <3> QED
      BY <1>6, <2>3
  <2>5. ASSUME NEW g, IsRendering(call, Done(k), g) PROVE body[k] = g[1]
    <3>1. IsRendering(call, D \cup {m}, g)
      <4> HIDE DEF D, m, Done
      <4> QED
        BY <2>1, <2>5
    <3>2. ReplaceEvery(f[1], <<Colon>> \o m, call.params[m]) = g[1]
      <4> HIDE DEF D, m
      <4> QED
        BY <2>1, <2>3, <3>1, ReplaceRendered DEF names
    <3> QED
      BY <2>2, <2>4, <3>2
  <2> HIDE DEF Done
  <2> QED
    BY <1>3, <2>5
<1>7. 0 .. n \subseteq S
  <2> HIDE DEF S
  <2> QED
    BY <1>3, <1>5, <1>6, UpInduction
<1>8. Done(n) = names
  BY <1>2, <1>3 DEF n
<1>9. PICK f : IsRendering(call, names, f)
  BY RenderDefined DEF names
<1>10. body[n] = f[1]
  <2>1. n \in S
    <3>1. n \in 0 .. n
      BY <1>3
    <3> HIDE DEF S
    <3> QED
      BY <1>7, <3>1
  <2> HIDE DEF Done
  <2> QED
    BY <1>8, <1>9, <2>1
<1>11. f[1] = MeantOrLeft(call)
  BY <1>9, RenderAll DEF names
<1>12. sent.text = body[n]
  BY <1>1, <1>4 DEF IsBody, n
<1>13. sent.args = <<>>
  BY <1>1 DEF SubstitutedIn
<1> QED
  BY <1>10, <1>11, <1>12, <1>13
=============================================================================
