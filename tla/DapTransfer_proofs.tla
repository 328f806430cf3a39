------------------------- MODULE DapTransfer_proofs -------------------------
(***************************************************************************)
(* TransferInv is an invariant of dap_transfer, step by step, and the      *)
(* debugger's contract follows from it: every step is one of DapHost's, or *)
(* none that the debugger sees.  The lemmas about commands, their bytes    *)
(* and the target come first.                                              *)
(***************************************************************************)
EXTENDS DapTransfer, FiniteSetTheorems, SequenceTheorems, WellFoundedInduction, TLAPS

-----------------------------------------------------------------------------
(***************************************************************************)
(* Induction over the naturals, about a set instead of a predicate.        *)
(***************************************************************************)

\* Every set of naturals that is not empty has a least element.
LEMMA Least ==
  ASSUME NEW S \in SUBSET Nat, S # {}
  PROVE  \E x \in S : \A y \in S : x <= y
<1> DEFINE R == OpToRel(<, Nat)
<1>1. IsWellFoundedOn(R, Nat)
  BY NatLessThanWellFounded
<1>2. \A x, y \in Nat : x < y => <<x, y>> \in R
  BY DEF OpToRel
<1> HIDE DEF R
<1>3. PICK x \in S : \A y \in S : ~ (<<y, x>> \in R)
  BY <1>1, WFMin
<1>4. ASSUME NEW y \in S PROVE x <= y
  <2>1. x \in Nat /\ y \in Nat
    OBVIOUS
  <2>2. ~(y < x)
    BY <1>2, <1>3, <2>1
  <2> QED BY <2>1, <2>2
<1> QED BY <1>4

\* A set that holds 0 and the successors of its elements holds them all.
LEMMA Induction ==
  ASSUME NEW S \in SUBSET Nat, 0 \in S, \A n \in S : n + 1 \in S
  PROVE  S = Nat
<1> SUFFICES ASSUME Nat \ S # {} PROVE FALSE
  OBVIOUS
<1>1. PICK x \in Nat \ S : \A y \in Nat \ S : x <= y
  BY Least
<1>2. x # 0 /\ x - 1 \in Nat
  BY <1>1
<1>3. x - 1 \in S
  BY <1>1, <1>2
<1> QED BY <1>2, <1>3

-----------------------------------------------------------------------------
(***************************************************************************)
(* FlattenSeq, which builds its result from the left, one sequence after   *)
(* the other: the first can be split off.                                  *)
(***************************************************************************)

\* The function FlattenSeq defines, for the first m sequences of s.
IsFlat(f, s, m) ==
  f = [i \in 1..m |-> IF i = 1 THEN s[i] ELSE f[i - 1] \o s[i]]

\* There is one.
LEMMA FlatExists ==
  ASSUME NEW s, NEW m \in Nat
  PROVE  \E f : IsFlat(f, s, m)
<1> DEFINE S == {k \in Nat : \E f : IsFlat(f, s, k)}
<1>1. 0 \in S
  <2>1. IsFlat([i \in 1..0 |-> 0], s, 0)
    BY DEF IsFlat
  <2> QED BY <2>1
<1>2. ASSUME NEW k \in S PROVE k + 1 \in S
  <2>1. PICK f : IsFlat(f, s, k)
    OBVIOUS
  <2> DEFINE g == [i \in 1..(k + 1) |-> IF i <= k THEN f[i] ELSE IF i = 1 THEN s[i] ELSE f[i - 1] \o s[i]]
             h == [i \in 1..(k + 1) |-> IF i = 1 THEN s[i] ELSE g[i - 1] \o s[i]]
  <2>2. \A j \in 1..k : f[j] = IF j = 1 THEN s[j] ELSE f[j - 1] \o s[j]
    BY <2>1, Zenon DEF IsFlat
  <2>3. ASSUME NEW i \in 1..(k + 1) PROVE g[i] = h[i]
    <3>1. CASE i = 1
      BY <2>2, <3>1
    <3>2. CASE i # 1
      <4>1. i - 1 \in 1..k /\ i - 1 \in 1..(k + 1) /\ i \in Nat /\ k \in Nat
        BY <3>2
      <4>2. g[i - 1] = f[i - 1]
        BY <4>1
      <4>3. i <= k => i \in 1..k
        BY <4>1
      <4>4. i \in 1..k => f[i] = f[i - 1] \o s[i]
        BY <2>2, <3>2, Zenon
      <4>5. i <= k => f[i] = f[i - 1] \o s[i]
        BY <4>3, <4>4, Zenon
      <4> QED BY <3>2, <4>1, <4>2, <4>5
    <3> QED BY <3>1, <3>2
  <2>4. g = h
    BY <2>3
  <2>5. IsFlat(g, s, k + 1)
    BY <2>4 DEF IsFlat
  <2> QED BY <2>5
<1> HIDE DEF S
<1>3. S = Nat
  <2>1. S \in SUBSET Nat
    BY DEF S
  <2> QED BY <1>1, <1>2, <2>1, Induction
<1> QED BY <1>3 DEF S

\* It is what FlattenSeq chooses.
LEMMA FlatRec ==
  ASSUME NEW S, NEW s \in Seq(Seq(S)), s # <<>>
  PROVE  \E f : /\ FlattenSeq(s) = f[Len(s)]
                /\ \A i \in 1..Len(s) : f[i] = IF i = 1 THEN s[i] ELSE f[i - 1] \o s[i]
<1>1. Len(s) \in Nat /\ Len(s) # 0
  OBVIOUS
<1> DEFINE g == CHOOSE f : IsFlat(f, s, Len(s))
<1>2. IsFlat(g, s, Len(s))
  BY <1>1, FlatExists
<1>3. FlattenSeq(s) = g[Len(s)]
  BY <1>1, Zenon DEF FlattenSeq, IsFlat
<1> HIDE DEF g
<1>4. \A i \in 1..Len(s) : g[i] = IF i = 1 THEN s[i] ELSE g[i - 1] \o s[i]
  BY <1>2, Zenon DEF IsFlat
<1> QED BY <1>3, <1>4

\* Where r is s without its first sequence, so is what they flatten to.
LEMMA FlattenFirst ==
  ASSUME NEW S, NEW s \in Seq(Seq(S)), NEW r \in Seq(Seq(S)), s # <<>>,
         Len(s) = Len(r) + 1, \A i \in 1..Len(r) : r[i] = s[i + 1]
  PROVE  FlattenSeq(r) \in Seq(S) /\ FlattenSeq(s) = s[1] \o FlattenSeq(r)
<1>0. Len(s) \in Nat /\ Len(r) \in Nat /\ s[1] \in Seq(S)
  BY ElementOfSeq
<1>1. PICK f : /\ FlattenSeq(s) = f[Len(s)]
               /\ \A i \in 1..Len(s) : f[i] = IF i = 1 THEN s[i] ELSE f[i - 1] \o s[i]
  BY FlatRec
<1>2. CASE r = <<>>
  <2>1. FlattenSeq(r) = <<>>
    BY <1>2 DEF FlattenSeq
  <2>2. Len(s) = 1 /\ 1 \in 1..Len(s)
    BY <1>2
  <2>3. f[1] = s[1]
    BY <1>1, <2>2
  <2> QED BY <1>0, <1>1, <2>1, <2>2, <2>3
<1>3. CASE r # <<>>
  <2>1. PICK g : /\ FlattenSeq(r) = g[Len(r)]
                 /\ \A i \in 1..Len(r) : g[i] = IF i = 1 THEN r[i] ELSE g[i - 1] \o r[i]
    BY <1>3, FlatRec
  <2>2. \A i \in 1..Len(r) : r[i] = s[i + 1] /\ r[i] \in Seq(S)
    BY ElementOfSeq
  <2> DEFINE Agree(i) == g[i] \in Seq(S) /\ f[i + 1] = s[1] \o g[i]
             T == {i \in Nat : i + 1 \in 1..Len(r) => Agree(i + 1)}
  <2>4. Agree(1)
    <3>1. /\ 1 \in 1..Len(r) /\ 1 \in 1..Len(s) /\ 2 \in 1..Len(s)
          /\ 2 - 1 = 1 /\ 1 + 1 = 2 /\ 2 # 1
      BY <1>0, <1>3
    <3>2. f[1] = s[1]
      BY <1>1, <3>1
    <3>3. f[2] = f[2 - 1] \o s[2]
      BY <1>1, <3>1, Zenon
    <3>4. g[1] = r[1]
      BY <2>1, <3>1
    <3> QED BY <2>2, <3>1, <3>2, <3>3, <3>4
  <2>5. ASSUME NEW i \in Nat, i \in 1..Len(r), i + 1 \in 1..Len(r), Agree(i) PROVE Agree(i + 1)
    <3>1. /\ i + 1 \in 1..Len(s) /\ (i + 1) + 1 \in 1..Len(s) /\ i + 1 # 1 /\ (i + 1) + 1 # 1
          /\ (i + 1) - 1 = i /\ ((i + 1) + 1) - 1 = i + 1
      BY <1>0, <2>5
    <3>2. g[i + 1] = g[i] \o r[i + 1]
      BY <2>1, <2>5, <3>1
    <3>3. f[(i + 1) + 1] = f[i + 1] \o r[i + 1]
      BY <1>1, <2>2, <2>5, <3>1
    <3>4. r[i + 1] \in Seq(S) /\ g[i] \in Seq(S) /\ f[i + 1] = s[1] \o g[i]
      BY <2>2, <2>5
    <3>5. \A x, y, z \in Seq(S) : (x \o y) \o z = x \o (y \o z)
      <4> SUFFICES ASSUME NEW x \in Seq(S), NEW y \in Seq(S), NEW z \in Seq(S)
                   PROVE  (x \o y) \o z = x \o (y \o z)
        OBVIOUS
      <4> QED OBVIOUS
    <3>6. g[i + 1] \in Seq(S)
      BY <3>2, <3>4
    <3>7. (s[1] \o g[i]) \o r[i + 1] = s[1] \o (g[i] \o r[i + 1])
      BY <1>0, <3>4, <3>5
    <3> QED BY <3>2, <3>3, <3>4, <3>6, <3>7
  <2> HIDE DEF Agree
  <2>6. 0 \in T
    BY <2>4
  <2>7. ASSUME NEW i \in T PROVE i + 1 \in T
    <3>1. i + 1 \in Nat /\ Len(r) \in Nat
      BY <1>0
    <3>2. (i + 1) + 1 \in 1..Len(r) => i + 1 \in 1..Len(r)
      BY <3>1
    <3> QED BY <2>5, <3>1, <3>2
  <2>8. T = Nat
    <3>1. T \in SUBSET Nat
      OBVIOUS
    <3> HIDE DEF T
    <3> QED BY <2>6, <2>7, <3>1, Induction
  <2>9. Agree(Len(r))
    <3>1. Len(r) - 1 \in Nat /\ (Len(r) - 1) + 1 = Len(r) /\ Len(r) \in 1..Len(r)
      BY <1>0, <1>3
    <3>2. Len(r) - 1 \in T
      BY <2>8, <3>1
    <3> QED BY <3>1, <3>2
  <2> QED BY <1>0, <1>1, <2>1, <2>9 DEF Agree
<1> QED BY <1>2, <1>3

-----------------------------------------------------------------------------
(***************************************************************************)
(* The bytes of a command.                                                 *)
(***************************************************************************)

\* An entry of a command is an access and a word, with one or two tokens.
LEMMA EntryTypes ==
  ASSUME NEW c, LegalCommand(c), NEW i \in 1..Len(c.entries)
  PROVE  /\ c.entries[i].req \in Request /\ c.entries[i].data \in Word
         /\ c.entries[i].req.access \in Access
         /\ Tokens(c.entries[i]) \in Seq(Token)
<1>1. c.entries[i] \in Entry
  BY DEF LegalCommand
<1>2. c.entries[i].req \in Request /\ c.entries[i].data \in Word
  BY <1>1 DEF Entry
<1>3. c.entries[i].req.access \in Access
  BY <1>2 DEF Request
<1>4. [req |-> c.entries[i].req] \in Token /\ [word |-> c.entries[i].data] \in Token
  BY <1>2 DEF Token
<1> QED BY <1>2, <1>3, <1>4 DEF Tokens

\* The packet of a DAP_Transfer is read entry by entry.
LEMMA RestFirst ==
  ASSUME NEW c, LegalCommand(c), NEW n \in 0..(Len(c.entries) - 1)
  PROVE  Rest(c, n + 1) \in Seq(Token) /\ Rest(c, n) = Tokens(c.entries[n + 1]) \o Rest(c, n + 1)
<1> DEFINE L == Len(c.entries)
           s == [i \in 1..(L - n) |-> Tokens(c.entries[n + i])]
           r == [i \in 1..(L - (n + 1)) |-> Tokens(c.entries[(n + 1) + i])]
<1>1. L \in Nat /\ L - n \in Nat /\ L - (n + 1) \in Nat /\ L - n # 0 /\ n + 1 \in 1..L
      /\ L - n = (L - (n + 1)) + 1
  BY DEF LegalCommand
<1>2. \A i \in 1..L : Tokens(c.entries[i]) \in Seq(Token)
  BY EntryTypes
<1>3. \A i \in 1..(L - n) : n + i \in 1..L
  BY <1>1
<1>4. \A i \in 1..(L - (n + 1)) : (n + 1) + i \in 1..L /\ i + 1 \in 1..(L - n) /\ (n + 1) + i = n + (i + 1)
  BY <1>1
<1> HIDE DEF L
<1>5. s \in Seq(Seq(Token)) /\ Len(s) = L - n
  <2>1. \A i \in 1..(L - n) : Tokens(c.entries[n + i]) \in Seq(Token)
    BY <1>2, <1>3, Zenon
  <2> QED BY <1>1, <2>1
<1>6. r \in Seq(Seq(Token)) /\ Len(r) = L - (n + 1)
  <2>1. \A i \in 1..(L - (n + 1)) : Tokens(c.entries[(n + 1) + i]) \in Seq(Token)
    BY <1>2, <1>4, Zenon
  <2> QED BY <1>1, <2>1
<1>7. \A i \in 1..Len(r) : r[i] = s[i + 1]
  BY <1>4, <1>6
<1>8. s[1] = Tokens(c.entries[n + 1]) /\ s # <<>>
  BY <1>1, <1>5
<1> HIDE DEF s, r
<1>9. FlattenSeq(r) \in Seq(Token) /\ FlattenSeq(s) = s[1] \o FlattenSeq(r)
  BY <1>1, <1>5, <1>6, <1>7, <1>8, FlattenFirst
<1> QED BY <1>8, <1>9 DEF Rest, s, r, L

\* After the last entry there is nothing.
LEMMA RestEnd ==
  ASSUME NEW c, LegalCommand(c)
  PROVE  Rest(c, Len(c.entries)) = <<>>
<1>1. Len(c.entries) \in Nat /\ Len(c.entries) - Len(c.entries) = 0
  BY DEF LegalCommand
<1> QED BY <1>1 DEF Rest, FlattenSeq

\* So is the data of a block, which has either as many words as entries or none.
LEMMA DataFirst ==
  ASSUME NEW c, LegalCommand(c), NEW n \in 0..(Len(c.entries) - 1)
  PROVE  /\ Data(c, n) \in Seq(Token) /\ Data(c, n + 1) \in Seq(Token)
         /\ HasData(c.entries[1].req) =>
              Head(Data(c, n)) = [word |-> c.entries[n + 1].data] /\ Tail(Data(c, n)) = Data(c, n + 1)
         /\ ~HasData(c.entries[1].req) => Data(c, n) = <<>>
<1> DEFINE L == Len(c.entries)
           d(i) == [word |-> c.entries[i].data]
           s == [i \in 1..(L - n) |-> d(n + i)]
           r == [i \in 1..(L - (n + 1)) |-> d((n + 1) + i)]
<1>1. L \in Nat /\ L - n \in Nat /\ L - (n + 1) \in Nat /\ L - n # 0 /\ n + 1 \in 1..L
      /\ L - n = (L - (n + 1)) + 1
  BY DEF LegalCommand
<1>2. \A i \in 1..L : d(i) \in Token
  BY EntryTypes DEF Token
<1>3. \A i \in 1..(L - n) : n + i \in 1..L
  BY <1>1
<1>4. \A i \in 1..(L - (n + 1)) : (n + 1) + i \in 1..L /\ i + 1 \in 1..(L - n) /\ (n + 1) + i = n + (i + 1)
  BY <1>1
<1> HIDE DEF L, d
<1>5. s \in Seq(Token) /\ Len(s) = L - n
  BY <1>1, <1>2, <1>3
<1>6. r \in Seq(Token) /\ Len(r) = L - (n + 1)
  BY <1>1, <1>2, <1>4
<1>7. \A i \in 1..Len(r) : r[i] = s[i + 1]
  BY <1>4, <1>6
<1>8. s[1] = d(n + 1) /\ s # <<>>
  BY <1>1, <1>5
<1> HIDE DEF s, r
<1>9. Tail(s) = r
  <2>1. Tail(s) \in Seq(Token) /\ Len(Tail(s)) = Len(r) /\ \A i \in 1..Len(r) : Tail(s)[i] = s[i + 1]
    BY <1>1, <1>5, <1>6, <1>8
  <2> QED BY <1>6, <1>7, <2>1, SeqEqual
<1>10. Head(s) = d(n + 1)
  BY <1>5, <1>8
<1>11. Data(c, n) = IF HasData(c.entries[1].req) THEN s ELSE <<>>
  BY DEF Data, s, d, L
<1>12. Data(c, n + 1) = IF HasData(c.entries[1].req) THEN r ELSE <<>>
  BY DEF Data, r, d, L
<1>13. CASE HasData(c.entries[1].req)
  BY <1>5, <1>6, <1>9, <1>10, <1>11, <1>12, <1>13 DEF d
<1>14. CASE ~HasData(c.entries[1].req)
  <2>1. <<>> \in Seq(Token)
    OBVIOUS
  <2> QED BY <1>11, <1>12, <1>14, <2>1, Zenon
<1> QED BY <1>13, <1>14

\* After the last word there is nothing, either.
LEMMA DataEnd ==
  ASSUME NEW c, LegalCommand(c)
  PROVE  Data(c, Len(c.entries)) = <<>>
<1>1. Len(c.entries) \in Nat /\ Len(c.entries) - Len(c.entries) = 0
  BY DEF LegalCommand
<1> QED BY <1>1 DEF Data

-----------------------------------------------------------------------------
(***************************************************************************)
(* The plain reads of a command, whose words fill the response.            *)
(***************************************************************************)
ReadsMade(c, n) == Cardinality({i \in PlainReads(c) : i <= n})

\* With each plain read there is one more of them, and never too many.
LEMMA ReadsCounted ==
  ASSUME NEW c, LegalCommand(c), NEW n \in 0..(Len(c.entries) - 1)
  PROVE  /\ Cardinality(PlainReads(c)) \in Nat /\ ReadsMade(c, n) \in Nat
         /\ ReadsMade(c, n) <= Cardinality(PlainReads(c))
         /\ PlainRead(c.entries[n + 1].req) =>
              /\ ReadsMade(c, n + 1) = ReadsMade(c, n) + 1
              /\ ReadsMade(c, n) + 1 <= Cardinality(PlainReads(c))
         /\ ~PlainRead(c.entries[n + 1].req) => ReadsMade(c, n + 1) = ReadsMade(c, n)
<1> DEFINE L == Len(c.entries)
           P == PlainReads(c)
           B == {i \in P : i <= n}
           A == {i \in P : i <= n + 1}
<1>1. L \in Nat /\ n + 1 \in 1..L
  BY DEF LegalCommand
<1>2. P \in SUBSET (1..L) /\ A \in SUBSET P /\ B \in SUBSET P
  BY DEF PlainReads
<1>3. IsFiniteSet(P) /\ Cardinality(P) \in Nat
  <2>1. IsFiniteSet(1..L)
    BY <1>1, FS_Interval
  <2> QED BY <1>2, <2>1, FS_Subset, FS_CardinalityType
<1>4. IsFiniteSet(B) /\ Cardinality(B) \in Nat /\ Cardinality(B) <= Cardinality(P)
  BY <1>2, <1>3, FS_Subset, FS_CardinalityType
<1>5. Cardinality(A) <= Cardinality(P)
  BY <1>2, <1>3, FS_Subset
<1>6. n + 1 \notin B
  BY <1>1
<1>7. CASE PlainRead(c.entries[n + 1].req)
  <2>1. A = B \cup {n + 1}
    BY <1>1, <1>7 DEF PlainReads
  <2>2. Cardinality(A) = Cardinality(B) + 1
    BY <1>4, <1>6, <2>1, FS_AddElement
  <2> QED BY <1>3, <1>4, <1>5, <1>7, <2>2 DEF ReadsMade
<1>8. CASE ~PlainRead(c.entries[n + 1].req)
  <2>1. A = B
    BY <1>1, <1>8 DEF PlainReads
  <2> QED BY <1>3, <1>4, <1>8, <2>1 DEF ReadsMade
<1> QED BY <1>7, <1>8

\* Before the first entry there is none.
LEMMA NoneCounted ==
  ASSUME NEW c, LegalCommand(c)
  PROVE  ReadsMade(c, 0) = 0
<1>1. {i \in PlainReads(c) : i <= 0} = {}
  BY DEF LegalCommand, PlainReads
<1> QED BY <1>1, FS_EmptySet DEF ReadsMade

-----------------------------------------------------------------------------
(***************************************************************************)
(* The target.                                                             *)
(***************************************************************************)

\* The address register, modulo the memory's size, moved on and back.
LEMMA BackAndForth ==
  ASSUME NEW x \in 0..(MemSize - 1)
  PROVE  /\ (x + 0 * AddrInc) % MemSize = x
         /\ (x + MemSize * AddrInc) % MemSize = x
         /\ (x + 1 * AddrInc) % MemSize \in 0..(MemSize - 1)
         /\ (x + (MemSize - 1) * AddrInc) % MemSize \in 0..(MemSize - 1)
         /\ (((x + 1 * AddrInc) % MemSize) + (MemSize - 1) * AddrInc) % MemSize = x
         /\ (((x + (MemSize - 1) * AddrInc) % MemSize) + 1 * AddrInc) % MemSize = x
<1> DEFINE M == MemSize
<1>1. M \in Nat \ {0} /\ AddrInc \in {0, 1} /\ x \in Nat /\ x < M
  BY TargetAssumption
<1>2. \A y \in 0..(M - 1) : y % M = y
  BY <1>1
<1>3. \A y \in 0..(M - 1) : (y + M) % M = y
  BY <1>1
<1>4. M % M = 0
  BY <1>1
<1> HIDE DEF M
<1>5. CASE AddrInc = 0
  BY <1>1, <1>2, <1>5 DEF M
<1>6. CASE AddrInc = 1
  <2>1. (x + 1) % M = IF x = M - 1 THEN 0 ELSE x + 1
    BY <1>1, <1>2, <1>4
  <2>2. (x + (M - 1)) % M = IF x = 0 THEN M - 1 ELSE x - 1
    <3>1. x # 0 => x + (M - 1) = (x - 1) + M /\ x - 1 \in 0..(M - 1)
      BY <1>1
    <3> QED BY <1>1, <1>2, <1>3, <3>1
  <2>3. (((x + 1) % M) + (M - 1)) % M = x
    <3>1. x # M - 1 => (x + 1) + (M - 1) = x + M
      BY <1>1
    <3> QED BY <1>1, <1>2, <1>3, <2>1, <3>1
  <2>4. (((x + (M - 1)) % M) + 1) % M = x
    BY <1>1, <1>2, <1>4, <2>2
  <2>5. 0 * AddrInc = 0 /\ M * AddrInc = M /\ 1 * AddrInc = 1 /\ (M - 1) * AddrInc = M - 1 /\ x + 0 = x
    BY <1>1, <1>6
  <2>6. (x + 1) % M \in 0..(M - 1) /\ (x + (M - 1)) % M \in 0..(M - 1)
    BY <1>1, <2>1, <2>2
  <2>7. x \in 0..(M - 1)
    BY <1>1
  <2> QED BY <1>2, <1>3, <2>3, <2>4, <2>5, <2>6, <2>7 DEF M
<1> QED BY <1>1, <1>5, <1>6

\* One step and another are two.
LEMMA AheadTwice ==
  ASSUME NEW x \in 0..(MemSize - 1)
  PROVE  (((x + 1 * AddrInc) % MemSize) + 1 * AddrInc) % MemSize = (x + 2 * AddrInc) % MemSize
<1> DEFINE M == MemSize
<1>1. M \in Nat \ {0} /\ AddrInc \in {0, 1} /\ x \in Nat /\ x < M
  BY TargetAssumption
<1>2. \A y \in 0..(M - 1) : y % M = y /\ (y + M) % M = y
  BY <1>1
<1> HIDE DEF M
<1>3. CASE AddrInc = 0
  BY <1>1, <1>2, <1>3 DEF M
<1>4. CASE AddrInc = 1
  <2>1. CASE x + 1 < M
    <3>1. (x + 1) % M = x + 1
      BY <1>1, <1>2, <2>1
    <3> QED BY <1>1, <1>4, <3>1 DEF M
  <2>2. CASE x + 1 = M
    <3>1. (x + 1) % M = 0
      <4>1. 0 \in 0..(M - 1) /\ 0 + M = M
        BY <1>1
      <4> QED BY <1>2, <2>2, <4>1
    <3>2. x + 2 = 1 + M
      BY <1>1, <2>2
    <3>3. (1 + M) % M = 1 % M
      <4>1. CASE M = 1
        <5>1. 0 \in 0..(M - 1) /\ 0 + M = 1
          BY <4>1
        <5>2. (1 + M) % M = 0 /\ 1 % M = 0
          BY <4>1
        <5> QED BY <5>2
      <4>2. CASE M # 1
        <5>1. 1 \in 0..(M - 1)
          BY <1>1, <4>2
        <5> QED BY <1>2, <5>1
      <4> QED BY <4>1, <4>2
    <3>4. 0 + 1 * 1 = 1 /\ x + 1 * 1 = x + 1 /\ x + 2 * 1 = x + 2
      BY <1>1
    <3>5. (((x + 1 * 1) % M) + 1 * 1) % M = (0 + 1 * 1) % M
      BY <3>1, <3>4
    <3> QED BY <1>4, <3>2, <3>3, <3>4, <3>5 DEF M
  <2> QED BY <1>1, <2>1, <2>2
<1> QED BY <1>1, <1>3, <1>4

\* What an access reads is a word, and it leaves a target behind.
LEMMA TargetTypes ==
  ASSUME NEW t \in TargetType(Word), NEW a \in Access, NEW w \in Word,
         Word \subseteq Nat, 0..(MemSize - 1) \subseteq Word
  PROVE  Value(t, a) \in Word /\ After(t, a, w) \in TargetType(Word)
<1>1. /\ t.mem \in [0..(MemSize - 1) -> Word] /\ t.tar \in 0..(MemSize - 1)
      /\ t.reg \in [Registers -> Word] /\ t = [mem |-> t.mem, tar |-> t.tar, reg |-> t.reg]
  BY DEF TargetType
<1>2. /\ a.port \in {"DP", "AP"} /\ a.dir \in {"R", "W"} /\ a.reg \in {0, 1, 2, 3}
      /\ <<a.port, a.reg>> \in Registers
  BY DEF Access, Registers
<1>3. Value(t, a) \in Word
  BY <1>1, <1>2 DEF Value
<1>4. w % MemSize \in 0..(MemSize - 1)
  BY TargetAssumption
<1>5. Ahead(t, 1) \in 0..(MemSize - 1)
  BY <1>1, BackAndForth DEF Ahead
<1>6. [t EXCEPT !.mem[t.tar] = IF a.dir = "W" THEN w ELSE @, !.tar = Ahead(t, 1)] \in TargetType(Word)
  BY <1>1, <1>5 DEF TargetType
<1>7. [t EXCEPT !.tar = w % MemSize] \in TargetType(Word)
  BY <1>1, <1>4 DEF TargetType
<1>8. [t EXCEPT !.reg[<<a.port, a.reg>>] = w] \in TargetType(Word)
  BY <1>1, <1>2 DEF TargetType
<1> QED BY <1>3, <1>6, <1>7, <1>8, Zenon DEF After

\* A read of DRW moves the address register on and does nothing else.
LEMMA DrwRead ==
  ASSUME NEW t \in TargetType(Word), NEW w
  PROVE  /\ After(t, ReadDRW, w) = [t EXCEPT !.tar = Ahead(t, 1)]
         /\ Value(t, ReadDRW) = t.mem[t.tar]
<1>1. /\ t.mem \in [0..(MemSize - 1) -> Word] /\ t.tar \in 0..(MemSize - 1)
      /\ t = [mem |-> t.mem, tar |-> t.tar, reg |-> t.reg]
  BY DEF TargetType
<1>2. [t.mem EXCEPT ![t.tar] = @] = t.mem
  BY <1>1
<1> QED BY <1>1, <1>2 DEF After, Value, ReadDRW, DRW

\* Any other read leaves the target as it is.
LEMMA OtherRead ==
  ASSUME NEW t, NEW a \in Access, NEW w, a.dir = "R", a # ReadDRW
  PROVE  After(t, a, w) = t
<1>1. ~(a.port = "AP" /\ a.reg = DRW)
  BY DEF Access, ReadDRW
<1> QED BY <1>1 DEF After

-----------------------------------------------------------------------------
(***************************************************************************)
(* The invariant.                                                          *)
(***************************************************************************)

\* What is known of the command while it is carried out.
LEMMA CommandFacts ==
  ASSUME TypeOK
  PROVE  /\ LegalCommand(cmd) /\ Len(cmd.entries) \in Nat
         /\ cmd.kind \in {"transfer", "block", "abort"}
         /\ Word \subseteq Nat /\ 0..(MemSize - 1) \subseteq Word /\ 0 \in Word
<1>1. LegalCommand(cmd)
  BY TransferAssumption DEF TypeOK
<1>2. 0 \in 0..(MemSize - 1)
  BY TargetAssumption
<1> QED BY <1>1, <1>2, TransferAssumption DEF LegalCommand

\* What is known of the entry at hand.
LEMMA CurrentFacts ==
  ASSUME TypeOK, CountInv, Active
  PROVE  /\ response_count \in 0..(Len(cmd.entries) - 1)
         /\ Current.req \in Request /\ Current.data \in Word /\ Current.req.access \in Access
         /\ Current.req.access # RDBUFF
         /\ PlainRead(Current.req) \/ MatchRead(Current.req) \/ PlainWrite(Current.req) \/ MaskWrite(Current.req)
         /\ cmd.kind # "transfer" => Current.req = cmd.entries[1].req /\ Current.req.match = "no"
<1>1. LegalCommand(cmd) /\ Len(cmd.entries) \in Nat
  BY CommandFacts
<1>2. response_count \in 0..(Len(cmd.entries) - 1) /\ response_count + 1 \in 1..Len(cmd.entries)
  BY <1>1 DEF TypeOK, CountInv
<1>3. Current.req \in Request /\ Current.data \in Word /\ Current.req.access \in Access
  BY <1>1, <1>2, EntryTypes DEF Current
<1> QED BY <1>1, <1>2, <1>3 DEF LegalCommand, Current

\* The target as the debugger sees it.
LEMMA SeenFacts ==
  ASSUME TypeOK
  PROVE  /\ SeenTarget \in TargetType(Word)
         /\ Owed = 0 => SeenTarget = target
         /\ Owed = 1 => /\ SeenTarget = [target EXCEPT !.tar = Ahead(target, MemSize - 1)]
                        /\ Ahead(SeenTarget, 1) = target.tar
                        /\ [SeenTarget EXCEPT !.tar = target.tar] = target
<1>1. /\ target.mem \in [0..(MemSize - 1) -> Word] /\ target.tar \in 0..(MemSize - 1)
      /\ target.reg \in [Registers -> Word]
      /\ target = [mem |-> target.mem, tar |-> target.tar, reg |-> target.reg]
  BY DEF TypeOK, TargetType
<1>2. MemSize \in Nat \ {0}
  BY TargetAssumption
<1>3. CASE Owed = 0
  <2>1. Ahead(target, MemSize - Owed) = target.tar
    BY <1>1, <1>2, <1>3, BackAndForth DEF Ahead
  <2> QED BY <1>1, <1>3, <2>1 DEF SeenTarget, TypeOK
<1>4. CASE Owed = 1
  <2> DEFINE b == Ahead(target, MemSize - 1)
  <2>1. b \in 0..(MemSize - 1) /\ (b + 1 * AddrInc) % MemSize = target.tar
    BY <1>1, BackAndForth DEF Ahead
  <2>2. SeenTarget = [target EXCEPT !.tar = b]
    BY <1>4 DEF SeenTarget
  <2> HIDE DEF b
  <2>3. SeenTarget = [mem |-> target.mem, tar |-> b, reg |-> target.reg]
    BY <1>1, <2>2
  <2>4. SeenTarget \in TargetType(Word)
    BY <1>1, <2>1, <2>3 DEF TargetType
  <2>5. Ahead(SeenTarget, 1) = target.tar
    BY <2>1, <2>3 DEF Ahead
  <2>6. [SeenTarget EXCEPT !.tar = target.tar] = target
    BY <1>1, <2>3
  <2> QED BY <1>4, <2>2, <2>4, <2>5, <2>6 DEF b
<1> QED BY <1>3, <1>4 DEF Owed

\* Before the first command only the types matter.
LEMMA InitTransfer == Init => TransferInv
<1> SUFFICES ASSUME Init PROVE TransferInv
  OBVIOUS
<1>1. Word \subseteq Nat /\ 0 \in Word
  <2>1. 0 \in 0..(MemSize - 1)
    BY TargetAssumption
  <2> QED BY <2>1, TransferAssumption
<1>2. ReadDRW \in Access
  BY DEF ReadDRW, Access, DRW
<1>3. target \in TargetType(Word) /\ cmd \in Commands
  BY TransferAssumption DEF Init
<1>4. TypeOK
  BY <1>1, <1>2, <1>3 DEF Init, TypeOK, Request, OK
<1> QED BY <1>4 DEF TransferInv, Init

\* A new command: everything is where its first entry needs it.
LEMMA ReceiveInv ==
  ASSUME TransferInv, NEW c \in Commands, Receive(c)
  PROVE  TransferInv'
<1>1. /\ LegalCommand(c) /\ Len(c.entries) \in Nat /\ c.kind \in {"transfer", "block", "abort"}
      /\ Target0 \subseteq TargetType(Word) /\ Word \subseteq Nat /\ 0 \in Word
  <2>1. 0 \in 0..(MemSize - 1)
    BY TargetAssumption
  <2> QED BY <2>1, TransferAssumption DEF LegalCommand
<1>2. /\ c.kind = "abort" => Len(c.entries) = 1 /\ c.entries[1].req = [access |-> WriteABORT, match |-> "no"]
      /\ c.kind = "block" => Len(c.entries) > 0
  <2>1. c.kind = "block" => Len(c.entries) > 0
    BY <1>1 DEF LegalCommand
  <2>2. ASSUME c.kind = "abort"
        PROVE  Len(c.entries) = 1 /\ c.entries[1].req = [access |-> WriteABORT, match |-> "no"]
    <3>1. Len(c.entries) = 1 /\ c.entries[1].req.access = WriteABORT
      BY <1>1, <2>2 DEF LegalCommand
    <3>2. c.entries[1].req.match = "no" /\ c.entries[1].req \in Request
      BY <1>1, <2>2, <3>1, EntryTypes DEF LegalCommand
    <3> QED BY <3>1, <3>2 DEF Request
  <2> QED BY <2>1, <2>2
<1>3. /\ c.kind = "transfer" => Encode(c) = Rest(c, 0)
      /\ c.kind = "block" => Encode(c) = <<[req |-> c.entries[1].req]>> \o Data(c, 0)
      /\ c.kind = "abort" => Encode(c) = Data(c, 0)
  BY <1>1 DEF Encode
<1>4. Encode(c) \in Seq(Token)
  <2>1. CASE Len(c.entries) = 0
    <3>1. Rest(c, Len(c.entries)) = <<>> /\ <<>> \in Seq(Token)
      BY <1>1, RestEnd
    <3>2. c.kind = "transfer"
      BY <1>1, <1>2, <2>1
    <3> QED BY <1>3, <2>1, <3>1, <3>2
  <2>2. CASE Len(c.entries) > 0
    <3>1. 0 \in 0..(Len(c.entries) - 1) /\ 1 \in 1..Len(c.entries) /\ 0 + 1 = 1
      BY <1>1, <2>2
    <3>2. Rest(c, 0) \in Seq(Token)
      <4>1. Rest(c, 1) \in Seq(Token) /\ Rest(c, 0) = Tokens(c.entries[1]) \o Rest(c, 1)
        BY <1>1, <3>1, RestFirst
      <4>2. Tokens(c.entries[1]) \in Seq(Token)
        BY <1>1, <3>1, EntryTypes
      <4>3. Tokens(c.entries[1]) \o Rest(c, 1) \in Seq(Token)
        BY <4>1, <4>2
      <4> QED BY <4>1, <4>3
    <3>3. Data(c, 0) \in Seq(Token)
      BY <1>1, <3>1, DataFirst
    <3>4. [req |-> c.entries[1].req] \in Token
      BY <1>1, <3>1, EntryTypes DEF Token
    <3>5. <<[req |-> c.entries[1].req]>> \o Data(c, 0) \in Seq(Token)
      BY <3>3, <3>4
    <3> QED BY <1>1, <1>3, <3>2, <3>3, <3>5
  <2> QED BY <1>1, <2>1, <2>2
<1>5. ReadDRW \in Access /\ WriteABORT \in Access
  BY DEF ReadDRW, WriteABORT, Access, DRW
<1>6. TypeOK'
  <2>1. /\ pc' \in {"loop", "reply"} /\ cmd' \in Commands /\ input' \in Seq(Token) /\ flags' \subseteq Flags
        /\ transfer_count' \in Nat /\ ack' \in 0..31 /\ retry_count' \in Nat
    BY <1>1, <1>4 DEF Receive, Flags, OK
  <2>2. transfer_request' \in Request /\ swd_request' \in Access
    BY <1>5 DEF Receive, Request
  <2>3. /\ match_value' \in Word /\ mask_value' \in Word
        /\ response_count' \in Nat /\ response_ack' \in 0..31
        /\ words' \in [Slots -> Word] /\ nwords' \in Nat
        /\ target' \in TargetType(Word) /\ rdbuff' \in Word
    BY <1>1 DEF Receive, TransferInv, TypeOK
  <2> QED BY <2>1, <2>2, <2>3 DEF TypeOK
<1>7. CountInv'
  BY <1>1, NoneCounted DEF Receive, CountInv, Active, ReadsMade
<1>8. FlagsInv'
  BY <1>1 DEF Receive, FlagsInv, Active, TRANSFERBLOCK, WRITEABORT, OMITREQUESTDECODE, PIPELINEDAPREAD
<1>9. RequestInv'
  BY <1>1, <1>2 DEF Receive, RequestInv, Decoded, Morphed, Current, OMITREQUESTDECODE, TRANSFERBLOCK,
                    WRITEABORT, ReadDRW, WriteABORT
<1>10. InputInv'
  BY <1>1, <1>2, <1>3, RestEnd DEF Receive, InputInv, Active, Decoded, Current, OMITREQUESTDECODE, TRANSFERBLOCK, WRITEABORT
<1>11. PostedInv'
  BY <1>1 DEF Receive, PostedInv, Posted, Decoded, OMITREQUESTDECODE, TRANSFERBLOCK, WriteABORT
<1> QED BY <1>6, <1>7, <1>8, <1>9, <1>10, <1>11 DEF TransferInv

\* The place of an entry in the packet: where there is one left to decode,
\* input is at its request, and what follows is what the next step leaves.
LEMMA AtRequest ==
  ASSUME TransferInv, pc = "loop", OMITREQUESTDECODE \notin flags
  PROVE  /\ Head(input) = [req |-> Current.req] /\ Tail(input) \in Seq(Token)
         /\ cmd.kind = "transfer" =>
              IF HasData(Current.req)
              THEN /\ input[2] = [word |-> Current.data]
                   /\ Tail(input) = <<[word |-> Current.data]>> \o Rest(cmd, response_count + 1)
                   /\ Tail(Tail(input)) = Rest(cmd, response_count + 1)
              ELSE Tail(input) = Rest(cmd, response_count + 1)
         /\ cmd.kind # "transfer" => cmd.kind = "block" /\ Tail(input) = Data(cmd, response_count)
         /\ Rest(cmd, response_count + 1) \in Seq(Token)
<1> DEFINE r == Current.req
           w == Current.data
           rest == Rest(cmd, response_count + 1)
           data == Data(cmd, response_count)
<1>1. TypeOK /\ CountInv /\ InputInv /\ FlagsInv /\ Active
  BY DEF TransferInv, Active
<1>2. /\ LegalCommand(cmd) /\ response_count \in 0..(Len(cmd.entries) - 1)
      /\ cmd.kind \in {"transfer", "block", "abort"}
  BY <1>1, CommandFacts, CurrentFacts
<1>3. rest \in Seq(Token) /\ Rest(cmd, response_count) = Tokens(Current) \o rest
  BY <1>2, RestFirst DEF Current
<1>4. data \in Seq(Token)
  BY <1>2, DataFirst
<1>5. Tokens(Current) = IF HasData(r) THEN <<[req |-> r], [word |-> w]>> ELSE <<[req |-> r]>>
  BY DEF Tokens
<1>6. input \in Seq(Token)
  BY <1>1 DEF TypeOK
<1>7. ~Decoded
  BY DEF Decoded
<1> HIDE DEF r, w, rest, data
<1>8. CASE cmd.kind = "transfer"
  <2>1. input = Tokens(Current) \o rest
    BY <1>1, <1>3, <1>8 DEF InputInv
  <2>2. CASE HasData(r)
    <3>1. input = <<[req |-> r], [word |-> w]>> \o rest
      BY <1>5, <2>1, <2>2
    <3>2. Head(input) = [req |-> r] /\ input[2] = [word |-> w] /\ Tail(Tail(input)) = rest
      BY <1>3, <1>6, <3>1
    <3>3. Tail(input) = <<[word |-> w]>> \o rest
      BY <1>3, <1>6, <3>1
    <3>4. Tail(input) \in Seq(Token)
      BY <1>6, <3>1, <1>3
    <3> QED BY <1>3, <1>8, <2>2, <3>2, <3>3, <3>4 DEF r, w, rest
  <2>3. CASE ~HasData(r)
    <3>1. input = <<[req |-> r]>> \o rest
      BY <1>5, <2>1, <2>3
    <3>2. Head(input) = [req |-> r] /\ Tail(input) = rest
      BY <1>3, <1>6, <3>1
    <3> QED BY <1>3, <1>8, <2>3, <3>2 DEF r, w, rest
  <2> QED BY <2>2, <2>3
<1>9. CASE cmd.kind # "transfer"
  <2>1. cmd.kind = "block"
    BY <1>1, <1>2, <1>9 DEF FlagsInv, Active
  <2>2. input = <<[req |-> r]>> \o data
    BY <1>1, <1>7, <1>9 DEF InputInv, r, data
  <2>3. Head(input) = [req |-> r] /\ Tail(input) = data
    BY <1>4, <1>6, <2>2
  <2> QED BY <1>3, <1>4, <1>9, <2>1, <2>3 DEF r, data, rest
<1> QED BY <1>8, <1>9

\* ... and where a write is sent, input is at its data.
LEMMA AtData ==
  ASSUME TransferInv, pc = "request", transfer_request.access.dir = "W"
  PROVE  /\ Head(input) = [word |-> Current.data] /\ Tail(input) \in Seq(Token)
         /\ cmd.kind = "transfer" => Tail(input) = Rest(cmd, response_count + 1)
         /\ cmd.kind # "transfer" => Tail(input) = Data(cmd, response_count + 1)
<1> DEFINE w == Current.data
           rest == Rest(cmd, response_count + 1)
<1>1. TypeOK /\ CountInv /\ InputInv /\ FlagsInv /\ RequestInv /\ Active /\ Decoded
  BY DEF TransferInv, Active, Decoded
<1>2. LegalCommand(cmd) /\ response_count \in 0..(Len(cmd.entries) - 1)
  BY <1>1, CommandFacts, CurrentFacts
<1>3. input \in Seq(Token)
  BY <1>1 DEF TypeOK
<1>4. CASE cmd.kind = "transfer"
  <2>1. rest \in Seq(Token)
    BY <1>2, RestFirst
  <2>2. input = <<[word |-> w]>> \o rest
    BY <1>1, <1>4 DEF InputInv
  <2> HIDE DEF w, rest
  <2>3. Head(input) = [word |-> w] /\ Tail(input) = rest
    BY <1>3, <2>1, <2>2
  <2> QED BY <1>4, <2>1, <2>3 DEF w, rest
<1>5. CASE cmd.kind # "transfer"
  <2>1. cmd.entries[1].req = transfer_request
    BY <1>1, <1>5, CurrentFacts DEF RequestInv
  <2>2. HasData(cmd.entries[1].req)
    BY <2>1 DEF HasData
  <2>3. input = Data(cmd, response_count)
    BY <1>1, <1>5 DEF InputInv
  <2> QED BY <1>2, <1>5, <2>2, <2>3, DataFirst DEF Current
<1> QED BY <1>4, <1>5

\* What the entry at hand leaves of the packet when it is done.
Used == input' = IF cmd.kind = "transfer" THEN Rest(cmd, response_count + 1)
                                          ELSE Data(cmd, response_count + 1)

\* finish_transfer: the counts, ...
LEMMA FinishCounts ==
  ASSUME TransferInv, Active, NEW a \in 0..31, Finish(a, Current.req), UNCHANGED cmd
  PROVE  /\ CountInv' /\ pc' \in {"loop", "reply"}
         /\ pc' = "loop" => /\ a = OK /\ cmd.kind # "abort" /\ transfer_count > 1
                            /\ response_count' > 0
         /\ transfer_count' \in Nat /\ response_count' \in Nat /\ response_ack' \in 0..31
         /\ nwords' \in Nat /\ ack' \in 0..31
         /\ transfer_count' = transfer_count - 1 /\ response_count' = response_count + 1 /\ ack' = a
<1>1. TypeOK /\ CountInv /\ FlagsInv /\ transfer_count \in Nat /\ transfer_count > 0
      /\ nwords \in Nat /\ response_count \in Nat /\ response_ack \in 0..31
  BY DEF TransferInv, Active, CountInv, TypeOK
<1>2. LegalCommand(cmd) /\ response_count \in 0..(Len(cmd.entries) - 1) /\ Len(cmd.entries) \in Nat
  BY <1>1, CommandFacts, CurrentFacts
<1>3. WRITEABORT \in flags <=> cmd.kind = "abort"
  BY <1>1 DEF FlagsInv
<1>4. /\ transfer_count' = transfer_count - 1 /\ response_count' = response_count + 1 /\ ack' = a
      /\ transfer_count' \in Nat /\ response_count' \in Nat
  BY <1>1 DEF Finish
<1>5. nwords = ReadsMade(cmd, response_count)
  BY <1>1 DEF CountInv, ReadsMade
<1>6. cmd.kind = "abort" => Len(cmd.entries) = 1 /\ pc' = "reply" /\ UNCHANGED <<response_ack, nwords>>
  BY <1>2, <1>3 DEF Finish, LegalCommand
<1>7. cmd.kind # "abort" =>
        /\ response_ack' = a /\ pc' = IF a # OK \/ transfer_count' = 0 THEN "reply" ELSE "loop"
        /\ nwords' = IF a = OK /\ PlainRead(Current.req) THEN nwords + 1 ELSE nwords
  BY <1>3 DEF Finish
<1>8. pc' = "loop" => nwords' = ReadsMade(cmd, response_count')
  BY <1>2, <1>4, <1>5, <1>6, <1>7, ReadsCounted DEF Current
<1>9. response_ack' \in 0..31 /\ nwords' \in Nat
  BY <1>1, <1>6, <1>7
<1>10. cmd.kind = "abort" => response_ack' = 0
  BY <1>1, <1>6 DEF CountInv
<1>11. transfer_count' + response_count' = Len(cmd.entries)
  BY <1>1, <1>2, <1>4 DEF CountInv
<1>12. pc' \in {"loop", "reply"} /\ (pc' = "loop" => a = OK /\ cmd.kind # "abort" /\ transfer_count > 1)
  BY <1>1, <1>4, <1>6, <1>7
<1>13. pc' = "reply" => a # OK \/ transfer_count' = 0
  <2>1. ASSUME cmd.kind = "abort" PROVE transfer_count' = 0
    <3> DEFINE L == Len(cmd.entries)
    <3>1. L = 1 /\ response_count \in 0..(L - 1) /\ transfer_count' + response_count' = L
      BY <1>2, <1>6, <1>11, <2>1
    <3> HIDE DEF L
    <3> QED BY <1>1, <1>4, <3>1
  <2> QED BY <1>7, <2>1
<1>14. response_count' > 0
  BY <1>1, <1>4
<1>15. CountInv'
  BY <1>1, <1>4, <1>7, <1>8, <1>10, <1>11, <1>12, <1>13, <1>14 DEF CountInv, Active, ReadsMade
<1> QED BY <1>4, <1>9, <1>12, <1>14, <1>15

\* ... and all else, if the transaction used its data up where it went well,
\* and left the request as Morph has it.
LEMMA FinishInv ==
  ASSUME TransferInv, pc = "request", NEW a \in 0..31, Finish(a, transfer_request),
         UNCHANGED <<cmd, transfer_request, match_value>>,
         flags' \ {PIPELINEDAPREAD, BUSFAULT} = flags \ {PIPELINEDAPREAD, BUSFAULT},
         a = OK => Used /\ PIPELINEDAPREAD \notin flags /\ PIPELINEDAPREAD \notin flags' /\ swd_request' = Morph
  PROVE  CountInv' /\ FlagsInv' /\ RequestInv' /\ InputInv'
<1>1. TypeOK /\ CountInv /\ FlagsInv /\ RequestInv /\ Active /\ Decoded
  BY DEF TransferInv, Active, Decoded
<1>2. transfer_request = Current.req
  BY <1>1 DEF RequestInv
<1>3. /\ CountInv' /\ pc' \in {"loop", "reply"}
      /\ pc' = "loop" => a = OK /\ cmd.kind # "abort" /\ transfer_count > 1 /\ response_count' > 0
      /\ transfer_count' = transfer_count - 1 /\ response_count' = response_count + 1 /\ ack' = a
  BY <1>1, <1>2, FinishCounts
<1>4. /\ LegalCommand(cmd) /\ response_count \in 0..(Len(cmd.entries) - 1) /\ Len(cmd.entries) \in Nat
      /\ cmd.kind \in {"transfer", "block", "abort"} /\ transfer_count \in Nat
  BY <1>1, CommandFacts, CurrentFacts DEF TypeOK
<1>5. /\ TRANSFERBLOCK \in flags' <=> cmd.kind = "block"
      /\ WRITEABORT \in flags' <=> cmd.kind = "abort"
      /\ OMITREQUESTDECODE \in flags' <=> cmd.kind \in {"abort", "block"}
  <2>1. /\ TRANSFERBLOCK \in flags <=> cmd.kind = "block"
        /\ WRITEABORT \in flags <=> cmd.kind = "abort"
        /\ OMITREQUESTDECODE \in flags <=> cmd.kind \in {"abort", "block"}
    BY <1>1 DEF FlagsInv
  <2>2. \A f \in {TRANSFERBLOCK, WRITEABORT, OMITREQUESTDECODE} : f \in flags' <=> f \in flags
    BY DEF TRANSFERBLOCK, WRITEABORT, OMITREQUESTDECODE, PIPELINEDAPREAD, BUSFAULT
  <2> QED BY <2>1, <2>2
<1>6. FlagsInv'
  BY <1>3, <1>5 DEF FlagsInv, Active
<1>7. RequestInv'
  <2> SUFFICES ASSUME pc' = "loop", cmd.kind = "block" PROVE RequestInv'
    BY <1>3, <1>4, <1>5 DEF RequestInv, Decoded
  <2>1. transfer_request' = Current.req' /\ transfer_count' > 0
    <3>1. response_count' \in 0..(Len(cmd.entries) - 1) /\ response_count' + 1 \in 1..Len(cmd.entries)
      BY <1>1, <1>3, <1>4 DEF CountInv
    <3>2. cmd.entries[response_count' + 1].req = cmd.entries[1].req
      BY <1>4, <3>1 DEF LegalCommand
    <3>3. Current.req = cmd.entries[1].req
      BY <1>1, CurrentFacts
    <3> QED BY <1>2, <1>3, <1>4, <3>2, <3>3 DEF Current
  <2>2. swd_request' = IF Morphed' THEN RDBUFF ELSE transfer_request.access
    <3>1. swd_request = transfer_request.access /\ ~Morphed
      BY <1>1, <1>3 DEF RequestInv, Morphed
    <3>2. Morph = IF swd_request = ReadDRW /\ transfer_count = 2 THEN RDBUFF ELSE swd_request
      BY <1>1, <1>3 DEF Morph, FlagsInv
    <3>3. Morphed' <=> transfer_request.access = ReadDRW /\ transfer_count = 2
      BY <1>3, <1>4 DEF Morphed
    <3> QED BY <1>3, <3>1, <3>2, <3>3
  <2> QED BY <1>3, <2>1, <2>2 DEF RequestInv
<1>8. InputInv'
  <2>1. pc' = "reply" /\ ack' = OK => input' = <<>>
    <3> SUFFICES ASSUME pc' = "reply", a = OK PROVE input' = <<>>
      BY <1>3
    <3>1. transfer_count' = 0 /\ response_count' # 0
      BY <1>3, <1>4 DEF CountInv
    <3>2. response_count + 1 = Len(cmd.entries)
      BY <1>3, <1>4, <3>1 DEF CountInv
    <3> QED BY <1>4, <3>2, RestEnd, DataEnd DEF Used
  <2>2. pc' = "loop" => /\ Decoded' <=> cmd.kind # "transfer"
                        /\ input' = IF cmd.kind = "transfer" THEN Rest(cmd, response_count')
                                                             ELSE Data(cmd, response_count')
    BY <1>3, <1>4, <1>5 DEF Decoded, Used
  <2> QED BY <1>3, <2>1, <2>2 DEF InputInv, Active
<1> QED BY <1>3, <1>6, <1>7, <1>8

\* Decoding the next request: a mask is kept at once, ...
LEMMA DecodeMaskInv ==
  ASSUME TransferInv, Decode, MaskWrite(transfer_request')
  PROVE  TransferInv' /\ transfer_request' = Current.req /\ mask_value' = Current.data /\ Finish(OK, Current.req)
         /\ UNCHANGED <<cmd, words, target>>
<1>1. /\ pc = "loop" /\ OMITREQUESTDECODE \notin flags /\ retry_count' = 0
      /\ UNCHANGED <<cmd, words, target, rdbuff, response>>
      /\ mask_value' = input[2].word /\ input' = Tail(Tail(input)) /\ Finish(OK, transfer_request')
      /\ UNCHANGED <<flags, swd_request, match_value>>
      /\ transfer_request' = IF TRANSFERBLOCK \in flags THEN [Head(input).req EXCEPT !.match = "no"]
                                                        ELSE Head(input).req
  BY DEF Decode
<1>2. TypeOK /\ CountInv /\ FlagsInv /\ InputInv /\ Active
  BY <1>1 DEF TransferInv, Active
<1>3. Head(input).req = Current.req
  BY <1>1, AtRequest
<1>4. /\ Current.req \in Request /\ Current.data \in Word /\ Current.req.access \in Access
      /\ cmd.kind # "transfer" => Current.req.match = "no"
      /\ cmd.kind \in {"transfer", "block", "abort"}
      /\ LegalCommand(cmd) /\ response_count \in 0..(Len(cmd.entries) - 1) /\ Len(cmd.entries) \in Nat
  BY <1>2, CommandFacts, CurrentFacts
<1>5. transfer_request' = Current.req
  <2>1. TRANSFERBLOCK \in flags => cmd.kind # "transfer"
    BY <1>1, <1>2 DEF FlagsInv
  <2>2. Current.req.match = "no" => [Current.req EXCEPT !.match = "no"] = Current.req
    BY <1>4 DEF Request
  <2> QED BY <1>1, <1>3, <1>4, <2>1, <2>2
<1>6. cmd.kind = "transfer" /\ HasData(Current.req) /\ ~PlainRead(Current.req)
  BY <1>4, <1>5 DEF MaskWrite, HasData, PlainRead
<1>7. mask_value' = Current.data /\ input' = Rest(cmd, response_count + 1) /\ Rest(cmd, response_count + 1) \in Seq(Token)
  BY <1>1, <1>6, AtRequest
<1>8. OK \in 0..31
  BY DEF OK
<1>9. /\ CountInv' /\ pc' \in {"loop", "reply"}
      /\ response_count' > 0 \/ pc' = "reply"
      /\ transfer_count' \in Nat /\ response_count' \in Nat /\ response_ack' \in 0..31
      /\ nwords' \in Nat /\ ack' \in 0..31
      /\ transfer_count' = transfer_count - 1 /\ response_count' = response_count + 1 /\ ack' = OK
  BY <1>1, <1>2, <1>5, <1>8, FinishCounts
<1>10. TypeOK'
  <2>1. UNCHANGED <<cmd, flags, swd_request, match_value, words, target, rdbuff>>
    BY <1>1
  <2> QED BY <1>1, <1>2, <1>4, <1>5, <1>7, <1>9, <2>1 DEF TypeOK
<1>11. FlagsInv'
  BY <1>1, <1>2, <1>6, <1>9 DEF FlagsInv, Active
<1>12. ~Decoded'
  BY <1>1, <1>9 DEF Decoded
<1>13. RequestInv' /\ PostedInv'
  BY <1>9, <1>12 DEF RequestInv, PostedInv, Posted
<1>14. InputInv'
  <2>1. pc' = "reply" => input' = <<>>
    <3> SUFFICES ASSUME pc' = "reply" PROVE input' = <<>>
      OBVIOUS
    <3>1. transfer_count' = 0
      BY <1>2, <1>9 DEF CountInv, TypeOK
    <3>2. response_count + 1 = Len(cmd.entries)
      BY <1>1, <1>4, <1>9, <3>1 DEF CountInv
    <3> QED BY <1>4, <1>7, <3>2, RestEnd
  <2> QED BY <1>1, <1>6, <1>7, <1>9, <2>1 DEF InputInv
<1> QED BY <1>1, <1>5, <1>7, <1>9, <1>10, <1>11, <1>13, <1>14 DEF TransferInv

\* ... and any other request is sent next.
LEMMA DecodeOtherInv ==
  ASSUME TransferInv, Decode, ~MaskWrite(transfer_request')
  PROVE  TransferInv' /\ transfer_request' = Current.req /\ pc' = "request"
         /\ UNCHANGED <<cmd, ack, response_count, nwords, words, mask_value, target>>
         /\ (Current.req.access = ReadDRW => PIPELINEDAPREAD \in flags')
<1> DEFINE r == Current.req
<1>1. /\ pc = "loop" /\ OMITREQUESTDECODE \notin flags /\ retry_count' = 0
      /\ UNCHANGED <<cmd, words, target, rdbuff, response>>
      /\ IF MatchRead(transfer_request') THEN match_value' = input[2].word /\ input' = Tail(Tail(input))
                                         ELSE UNCHANGED match_value /\ input' = Tail(input)
      /\ flags' = flags
           \cup (IF transfer_request'.access.port = "AP" /\ transfer_request'.access.dir = "R" THEN {PIPELINEDAPREAD} ELSE {})
           \cup (IF TRANSFERBLOCK \in flags THEN {OMITREQUESTDECODE} ELSE {})
      /\ swd_request' = transfer_request'.access
      /\ pc' = "request"
      /\ UNCHANGED <<ack, transfer_count, response_count, response_ack, nwords, mask_value>>
      /\ transfer_request' = IF TRANSFERBLOCK \in flags THEN [Head(input).req EXCEPT !.match = "no"]
                                                        ELSE Head(input).req
  BY DEF Decode
<1>2. TypeOK /\ CountInv /\ FlagsInv /\ InputInv /\ Active
  BY <1>1 DEF TransferInv, Active
<1>3. Head(input).req = r
  BY <1>1, AtRequest
<1>4. /\ r \in Request /\ Current.data \in Word /\ r.access \in Access
      /\ cmd.kind # "transfer" => r.match = "no"
      /\ PlainRead(r) \/ MatchRead(r) \/ PlainWrite(r) \/ MaskWrite(r)
      /\ cmd.kind \in {"transfer", "block", "abort"}
      /\ LegalCommand(cmd) /\ response_count \in 0..(Len(cmd.entries) - 1) /\ Len(cmd.entries) \in Nat
  BY <1>2, CommandFacts, CurrentFacts
<1>5. transfer_request' = r
  <2>1. TRANSFERBLOCK \in flags => cmd.kind # "transfer"
    BY <1>1, <1>2 DEF FlagsInv
  <2>2. Current.req.match = "no" => [Current.req EXCEPT !.match = "no"] = Current.req
    BY <1>4 DEF Request
  <2> QED BY <1>1, <1>3, <1>4, <2>1, <2>2
<1>6. MatchRead(r) => cmd.kind = "transfer" /\ HasData(r)
  BY <1>4 DEF MatchRead, HasData
<1>7. ~MatchRead(r) => (HasData(r) <=> r.access.dir = "W")
  BY <1>4, <1>5 DEF MatchRead, HasData, PlainRead, PlainWrite, MaskWrite
<1>8. MatchRead(r) => r.access.dir = "R"
  BY DEF MatchRead
<1>9. /\ MatchRead(r) => match_value' = Current.data
      /\ ~MatchRead(r) => UNCHANGED match_value
  BY <1>1, <1>5, <1>6, AtRequest
<1>10. /\ input' \in Seq(Token)
       /\ cmd.kind = "transfer" => input' = IF r.access.dir = "W"
                                            THEN <<[word |-> Current.data]>> \o Rest(cmd, response_count + 1)
                                            ELSE Rest(cmd, response_count + 1)
       /\ cmd.kind # "transfer" => cmd.kind = "block" /\ input' = Data(cmd, response_count)
  <2>1. CASE MatchRead(r)
    BY <1>1, <1>5, <1>6, <1>8, <2>1, AtRequest
  <2>2. CASE ~MatchRead(r)
    BY <1>1, <1>5, <1>7, <2>2, AtRequest
  <2> QED BY <2>1, <2>2
<1>11. cmd.kind # "abort"
  BY <1>4, <1>10
<1>12. /\ PIPELINEDAPREAD \in flags' <=> r.access.port = "AP" /\ r.access.dir = "R"
       /\ TRANSFERBLOCK \in flags' <=> cmd.kind = "block"
       /\ WRITEABORT \in flags' <=> cmd.kind = "abort"
       /\ OMITREQUESTDECODE \in flags' <=> cmd.kind = "block"
       /\ flags' \subseteq Flags
  <2>1. /\ PIPELINEDAPREAD \notin flags
        /\ TRANSFERBLOCK \in flags <=> cmd.kind = "block"
        /\ WRITEABORT \in flags <=> cmd.kind = "abort"
        /\ flags \subseteq Flags
    BY <1>1, <1>2 DEF FlagsInv, TypeOK
  <2>2. flags' = flags \cup (IF r.access.port = "AP" /\ r.access.dir = "R" THEN {PIPELINEDAPREAD} ELSE {})
                      \cup (IF TRANSFERBLOCK \in flags THEN {OMITREQUESTDECODE} ELSE {})
    BY <1>1, <1>5
  <2> QED BY <1>1, <2>1, <2>2 DEF Flags, TRANSFERBLOCK, WRITEABORT, OMITREQUESTDECODE, PIPELINEDAPREAD, BUSFAULT
<1>13. cmd.kind = "block" => response_count = 0
  BY <1>1, <1>2 DEF FlagsInv, TypeOK
<1>14. TypeOK'
  <2>1. UNCHANGED <<cmd, transfer_count, ack, response_count, response_ack, nwords, mask_value, words, target, rdbuff>>
    BY <1>1
  <2>2. match_value' \in Word
    BY <1>2, <1>4, <1>9 DEF TypeOK
  <2> QED BY <1>1, <1>2, <1>4, <1>5, <1>10, <1>12, <2>1, <2>2 DEF TypeOK
<1>15. CountInv'
  BY <1>1, <1>2 DEF CountInv, Active
<1>16. FlagsInv'
  BY <1>1, <1>5, <1>11, <1>12, <1>13 DEF FlagsInv, Active
<1>17. Current' = Current
  BY <1>1 DEF Current
<1>18. ~Morphed' /\ ~Posted'
  BY <1>5, <1>12 DEF Morphed, Posted, ReadDRW
<1>19. RequestInv'
  BY <1>1, <1>5, <1>9, <1>17, <1>18 DEF RequestInv
<1>20. InputInv'
  BY <1>1, <1>5, <1>10, <1>17 DEF InputInv, Active, Decoded
<1>21. PostedInv'
  BY <1>18 DEF PostedInv
<1> QED
  BY <1>1, <1>5, <1>12, <1>14, <1>15, <1>16, <1>19, <1>20, <1>21 DEF TransferInv, ReadDRW

\* The rest of a block and a DAP_WriteABORT go on without decoding.
LEMMA OmitInv ==
  ASSUME TransferInv, OmitDecode
  PROVE  TransferInv'
<1>1. /\ pc = "loop" /\ pc' = "request" /\ retry_count' = 0 /\ OMITREQUESTDECODE \in flags
      /\ UNCHANGED <<cmd, input, flags, transfer_count, transfer_request, swd_request, ack, match_value,
                     mask_value, response_count, response_ack, words, nwords, target, rdbuff>>
  BY DEF OmitDecode, out
<1>2. TypeOK /\ CountInv /\ FlagsInv /\ RequestInv /\ InputInv /\ PostedInv /\ Active /\ Decoded /\ Decoded'
  BY <1>1 DEF TransferInv, Active, Decoded
<1>3. TypeOK'
  BY <1>1, <1>2 DEF TypeOK
<1>4. CountInv'
  BY <1>1, <1>2 DEF CountInv, Active
<1>5. FlagsInv'
  BY <1>1, <1>2 DEF FlagsInv, Active
<1>6. Current' = Current /\ (Morphed' <=> Morphed)
  BY <1>1 DEF Current, Morphed
<1>7. RequestInv'
  <2>1. Current.req.match = "no"
    BY <1>1, <1>2, CurrentFacts DEF FlagsInv
  <2>2. transfer_request' = Current.req' /\ swd_request' = IF Morphed' THEN RDBUFF ELSE transfer_request'.access
    BY <1>1, <1>2, <1>6 DEF RequestInv
  <2> QED BY <1>6, <2>1, <2>2 DEF RequestInv, MaskWrite, MatchRead
<1>8. InputInv'
  BY <1>1, <1>2, <1>6 DEF InputInv, Active, FlagsInv
<1>9. Posted' <=> Posted
  BY <1>1, <1>2 DEF Posted
<1>10. Posted => Owed' = Owed
  <2>1. cmd.kind = "abort" => transfer_request.access.dir = "W"
    <3>1. cmd.kind = "abort" => cmd.entries[1].req.access.dir = "W"
      BY <1>2, CommandFacts DEF LegalCommand, WriteABORT
    <3>2. cmd.kind = "abort" => transfer_request = cmd.entries[1].req
      BY <1>2, CurrentFacts DEF RequestInv
    <3> QED BY <3>1, <3>2
  <2>2. Posted => TRANSFERBLOCK \in flags /\ response_count > 0
    BY <1>1, <1>2, <2>1 DEF Posted, FlagsInv
  <2> QED BY <1>1, <2>2 DEF Owed
<1>11. PostedInv'
  BY <1>1, <1>2, <1>9, <1>10 DEF PostedInv, SeenTarget, Ahead
<1> QED BY <1>3, <1>4, <1>5, <1>7, <1>8, <1>11 DEF TransferInv

\* WAIT leaves everything for another try, or ends the command.
LEMMA WaitsInv ==
  ASSUME TransferInv, Waits
  PROVE  TransferInv'
<1>1. /\ pc = "request" /\ retry_count' = retry_count + 1
      /\ UNCHANGED <<cmd, input, flags, transfer_request, swd_request, match_value, mask_value,
                     words, target, rdbuff>>
      /\ \/ ack' = WAIT /\ UNCHANGED <<pc, transfer_count, response_count, response_ack, nwords>>
         \/ Finish(WAIT, transfer_request)
  BY DEF Waits
<1>2. TypeOK /\ CountInv /\ FlagsInv /\ RequestInv /\ InputInv /\ PostedInv /\ Active /\ Decoded
  BY <1>1 DEF TransferInv, Active, Decoded
<1>3. WAIT \in 0..31 /\ WAIT # OK /\ transfer_request = Current.req
  BY <1>2 DEF WAIT, OK, RequestInv
<1>4. CASE ack' = WAIT /\ UNCHANGED <<pc, transfer_count, response_count, response_ack, nwords>>
  <2>1. Active' /\ Decoded' /\ Current' = Current /\ (Morphed' <=> Morphed) /\ (Posted' <=> Posted) /\ Owed' = Owed
    BY <1>1, <1>4 DEF Active, Decoded, Current, Morphed, Posted, Owed
  <2>2. TypeOK'
    BY <1>1, <1>2, <1>3, <1>4 DEF TypeOK
  <2>3. CountInv' /\ FlagsInv'
    BY <1>1, <1>2, <1>4, <2>1 DEF CountInv, FlagsInv
  <2>4. RequestInv'
    BY <1>1, <1>2, <1>4, <2>1 DEF RequestInv
  <2>5. InputInv'
    BY <1>1, <1>2, <1>4, <2>1 DEF InputInv
  <2>6. PostedInv'
    BY <1>1, <1>2, <1>4, <2>1 DEF PostedInv, SeenTarget, Ahead
  <2> QED BY <2>2, <2>3, <2>4, <2>5, <2>6 DEF TransferInv
<1>5. CASE Finish(WAIT, transfer_request)
  <2>1. CountInv' /\ FlagsInv' /\ RequestInv' /\ InputInv'
    BY <1>1, <1>3, <1>5, FinishInv
  <2>2. /\ pc' = "reply" /\ transfer_count' \in Nat /\ response_count' \in Nat /\ response_ack' \in 0..31
        /\ nwords' \in Nat /\ ack' \in 0..31
    BY <1>1, <1>2, <1>3, <1>5, FinishCounts
  <2>3. TypeOK'
    BY <1>1, <1>2, <2>2 DEF TypeOK
  <2>4. PostedInv'
    BY <2>2 DEF PostedInv, Posted, Decoded
  <2> QED BY <2>1, <2>3, <2>4 DEF TransferInv
<1> QED BY <1>1, <1>4, <1>5

\* Any other answer but OK ends it, too.
LEMMA FaultsInv ==
  ASSUME TransferInv, Faults
  PROVE  TransferInv'
<1>1. /\ pc = "request" /\ Finish(FAULT, transfer_request) /\ flags' = flags \cup {BUSFAULT}
      /\ UNCHANGED <<cmd, input, transfer_request, swd_request, retry_count, match_value, mask_value,
                     words, target, rdbuff>>
  BY DEF Faults
<1>2. TypeOK /\ CountInv /\ RequestInv /\ Active /\ Decoded
  BY <1>1 DEF TransferInv, Active, Decoded
<1>3. FAULT \in 0..31 /\ FAULT # OK /\ transfer_request = Current.req
  BY <1>2 DEF FAULT, OK, RequestInv
<1>4. flags' \ {PIPELINEDAPREAD, BUSFAULT} = flags \ {PIPELINEDAPREAD, BUSFAULT} /\ flags' \subseteq Flags
  BY <1>1, <1>2 DEF TypeOK, Flags
<1>5. CountInv' /\ FlagsInv' /\ RequestInv' /\ InputInv'
  BY <1>1, <1>3, <1>4, FinishInv
<1>6. /\ pc' = "reply" /\ transfer_count' \in Nat /\ response_count' \in Nat /\ response_ack' \in 0..31
      /\ nwords' \in Nat /\ ack' \in 0..31
  BY <1>1, <1>2, <1>3, FinishCounts
<1>7. TypeOK'
  BY <1>1, <1>2, <1>4, <1>6 DEF TypeOK
<1>8. PostedInv'
  BY <1>6 DEF PostedInv, Posted, Decoded
<1> QED BY <1>5, <1>7, <1>8 DEF TransferInv

\* There is another transaction for the same entry.
Again(a) ==
  /\ UNCHANGED <<pc, transfer_count, response_count, response_ack, nwords>>
  /\ ack' = a /\ retry_count' \in Nat
  /\ swd_request' = IF Morphed' THEN RDBUFF ELSE transfer_request.access
  /\ PIPELINEDAPREAD \in flags \/ MatchRead(transfer_request)

\* After the data of a transaction there is another one for the same entry, or
\* the entry is done; a write is done at once.
LEMMA AfterDataCases ==
  ASSUME TransferInv, pc = "request", NEW a \in {OK, PARITY}, AfterData(a)
  PROVE  /\ flags' = flags \ {PIPELINEDAPREAD}
         /\ UNCHANGED <<cmd, transfer_request, match_value, mask_value>>
         /\ transfer_request = Current.req
         /\ \/ Again(a) /\ transfer_request.access.dir = "R"
            \/ /\ Finish(a, transfer_request) /\ PIPELINEDAPREAD \notin flags /\ swd_request' = Morph
               /\ retry_count' \in Nat
               /\ MatchRead(transfer_request) => Masked(words'[nwords + 1], mask_value) = Current.data
            \/ /\ Finish(a + MISMATCH, transfer_request) /\ PIPELINEDAPREAD \notin flags
               /\ retry_count' \in Nat /\ MatchRead(transfer_request)
<1>1. TypeOK /\ CountInv /\ FlagsInv /\ RequestInv /\ Active /\ Decoded
  BY DEF TransferInv, Active, Decoded
<1>2. /\ swd_request' = Morph /\ flags' = flags \ {PIPELINEDAPREAD}
      /\ UNCHANGED <<cmd, transfer_request, match_value, mask_value>>
  BY DEF AfterData
<1>3. /\ transfer_request = Current.req /\ ~MaskWrite(transfer_request)
      /\ MatchRead(transfer_request) => match_value = Current.data
      /\ swd_request = IF Morphed THEN RDBUFF ELSE transfer_request.access
  BY <1>1 DEF RequestInv
<1>4. /\ PlainRead(transfer_request) \/ MatchRead(transfer_request) \/ PlainWrite(transfer_request)
      /\ cmd.kind # "transfer" => transfer_request.match = "no"
      /\ cmd.kind \in {"transfer", "block", "abort"}
  BY <1>1, <1>3, CurrentFacts, CommandFacts
<1>5. transfer_request.match # "no" <=> MatchRead(transfer_request)
  BY <1>4 DEF PlainRead, MatchRead, PlainWrite
<1>6. MatchRead(transfer_request) => transfer_request.access.dir = "R"
  BY DEF MatchRead
<1>7. retry_count \in Nat /\ retry_count + 1 \in Nat
  BY <1>1 DEF TypeOK
<1>8. TRANSFERBLOCK \in flags <=> cmd.kind = "block"
  BY <1>1 DEF FlagsInv
<1>9. CASE PIPELINEDAPREAD \in flags
  <2>1. transfer_request.access.dir = "R" /\ transfer_request.access.port = "AP"
    BY <1>1, <1>9 DEF FlagsInv
  <2>2. /\ UNCHANGED <<pc, transfer_count, retry_count, response_count, response_ack, nwords>>
        /\ ack' = a
    BY <1>9 DEF AfterData
  <2>3. cmd.kind # "abort"
    <3>1. cmd.kind = "abort" => transfer_request.access.dir = "W"
      BY <1>1, <1>3, CommandFacts, CurrentFacts DEF LegalCommand, WriteABORT
    <3> QED BY <2>1, <3>1
  <2>4. swd_request = transfer_request.access /\ PIPELINEDAPREAD \notin flags'
    BY <1>2, <1>3, <1>9 DEF Morphed
  <2>5. Morphed' <=> transfer_request.access = ReadDRW /\ (cmd.kind = "transfer" \/ transfer_count = 1)
    BY <1>2, <2>2, <2>4 DEF Morphed
  <2>6. swd_request' = IF Morphed' THEN RDBUFF ELSE transfer_request.access
    BY <1>2, <1>4, <1>8, <1>9, <2>3, <2>4, <2>5 DEF Morph
  <2> QED BY <1>2, <1>3, <1>7, <1>9, <2>1, <2>2, <2>6 DEF Again
<1>10. CASE PIPELINEDAPREAD \notin flags /\ MatchRead(transfer_request)
            /\ match_value # Masked(words'[nwords + 1], mask_value)
  <2>1. retry_count' = retry_count + 1
        /\ \/ ack' = a /\ UNCHANGED <<pc, transfer_count, response_count, response_ack, nwords>>
           \/ Finish(a + MISMATCH, transfer_request)
    BY <1>5, <1>10 DEF AfterData
  <2>2. cmd.kind = "transfer" /\ transfer_request.access.dir = "R"
    BY <1>4, <1>5, <1>6, <1>10
  <2>3. swd_request' = swd_request
    BY <1>2, <1>8, <1>10, <2>2 DEF Morph
  <2>4. UNCHANGED transfer_count => (Morphed' <=> Morphed)
    BY <1>2, <1>10 DEF Morphed
  <2> QED BY <1>2, <1>3, <1>7, <1>10, <2>1, <2>2, <2>3, <2>4 DEF Again
<1>11. CASE PIPELINEDAPREAD \notin flags
            /\ (MatchRead(transfer_request) => match_value = Masked(words'[nwords + 1], mask_value))
  <2>1. Finish(a, transfer_request) /\ UNCHANGED retry_count
    BY <1>5, <1>11 DEF AfterData
  <2> QED BY <1>2, <1>3, <1>7, <1>11, <2>1
<1> QED BY <1>9, <1>10, <1>11

\* A write is done when the target has taken it.
LEMMA WritesInv ==
  ASSUME TransferInv, Writes
  PROVE  /\ TransferInv' /\ Finish(OK, transfer_request) /\ transfer_request = Current.req
         /\ target' = After(target, Current.req.access, Current.data)
         /\ UNCHANGED <<cmd, words, mask_value, transfer_request>>
<1>1. /\ pc = "request" /\ transfer_request.access.dir = "W" /\ AfterData(OK)
      /\ target' = After(target, swd_request, Head(input).word) /\ input' = Tail(input)
      /\ UNCHANGED <<words, rdbuff>>
  BY DEF Writes
<1>2. TypeOK /\ CountInv /\ FlagsInv /\ RequestInv /\ Active /\ Decoded
  BY <1>1 DEF TransferInv, Active, Decoded
<1>3. OK \in {OK, PARITY} /\ OK \in 0..31
  BY DEF OK
<1>4. /\ Finish(OK, transfer_request) /\ PIPELINEDAPREAD \notin flags /\ swd_request' = Morph
      /\ retry_count' \in Nat /\ flags' = flags \ {PIPELINEDAPREAD}
      /\ UNCHANGED <<cmd, transfer_request, match_value, mask_value>>
      /\ transfer_request = Current.req
  <2>1. ~MatchRead(transfer_request)
    BY <1>1 DEF MatchRead
  <2> QED BY <1>1, <1>3, <2>1, AfterDataCases
<1>5. input' \in Seq(Token) /\ Used /\ Head(input).word = Current.data
  BY <1>1, AtData DEF Used
<1>6. swd_request = Current.req.access
  BY <1>1, <1>2, <1>4 DEF RequestInv, Morphed, ReadDRW
<1>7. /\ Current.req.access \in Access /\ Current.data \in Word /\ Current.req \in Request
      /\ Word \subseteq Nat /\ 0..(MemSize - 1) \subseteq Word
  BY <1>2, CurrentFacts, CommandFacts
<1>8. target' = After(target, Current.req.access, Current.data) /\ target' \in TargetType(Word)
  BY <1>1, <1>2, <1>5, <1>6, <1>7, TargetTypes DEF TypeOK
<1>9. CountInv' /\ FlagsInv' /\ RequestInv' /\ InputInv'
  BY <1>1, <1>3, <1>4, <1>5, FinishInv
<1>10. /\ pc' \in {"loop", "reply"} /\ transfer_count' \in Nat /\ response_count' \in Nat
       /\ response_ack' \in 0..31 /\ nwords' \in Nat /\ ack' \in 0..31
  BY <1>2, <1>3, <1>4, FinishCounts
<1>11. swd_request' \in Access
  <2>1. RDBUFF \in Access
    BY DEF RDBUFF, Access
  <2> QED BY <1>4, <1>6, <1>7, <2>1 DEF Morph
<1>12. TypeOK'
  <2>1. flags' \subseteq Flags /\ cmd' \in Commands /\ transfer_request' \in Request
        /\ match_value' \in Word /\ mask_value' \in Word /\ words' \in [Slots -> Word] /\ rdbuff' \in Word
    BY <1>1, <1>2, <1>4 DEF TypeOK
  <2> QED BY <1>4, <1>5, <1>8, <1>10, <1>11, <2>1 DEF TypeOK
<1>13. PostedInv'
  BY <1>1, <1>4 DEF PostedInv, Posted
<1> QED BY <1>1, <1>4, <1>8, <1>9, <1>12, <1>13 DEF TransferInv

\* A read: the target moves on only if DRW is read, and the debugger does not
\* see that while the word is owed.
LEMMA ReadTarget ==
  ASSUME TransferInv, Reads
  PROVE  /\ target' \in TargetType(Word) /\ rdbuff' \in Word /\ Sent \in Word
         /\ swd_request # ReadDRW => target' = target
         /\ swd_request = ReadDRW =>
              /\ target' = [target EXCEPT !.tar = Ahead(target, 1)]
              /\ Owed' = 1 => SeenTarget' = target
         /\ rdbuff' = IF swd_request.port = "AP" THEN Value(target, swd_request) ELSE rdbuff
<1>1. /\ pc = "request" /\ transfer_request.access.dir = "R"
      /\ target' = After(target, swd_request, 0)
      /\ rdbuff' = IF swd_request.port = "AP" THEN Value(target, swd_request) ELSE rdbuff
  BY DEF Reads
<1>2. TypeOK /\ CountInv /\ RequestInv /\ Active /\ Decoded
  BY <1>1 DEF TransferInv, Active, Decoded
<1>3. swd_request.dir = "R" /\ swd_request \in Access
  BY <1>1, <1>2 DEF RequestInv, TypeOK, RDBUFF
<1>4. Word \subseteq Nat /\ 0..(MemSize - 1) \subseteq Word /\ 0 \in Word
  BY <1>2, CommandFacts
<1>5. /\ target \in TargetType(Word) /\ rdbuff \in Word
      /\ target.mem \in [0..(MemSize - 1) -> Word] /\ target.tar \in 0..(MemSize - 1)
      /\ target = [mem |-> target.mem, tar |-> target.tar, reg |-> target.reg]
  BY <1>2 DEF TypeOK, TargetType
<1>6. Value(target, swd_request) \in Word /\ After(target, swd_request, 0) \in TargetType(Word)
  BY <1>3, <1>4, <1>5, TargetTypes
<1>7. target' \in TargetType(Word) /\ rdbuff' \in Word /\ Sent \in Word
  BY <1>1, <1>5, <1>6 DEF Sent
<1>8. swd_request # ReadDRW => target' = target
  BY <1>1, <1>3, OtherRead
<1>9. ASSUME swd_request = ReadDRW
      PROVE  /\ target' = [target EXCEPT !.tar = Ahead(target, 1)]
             /\ Owed' = 1 => SeenTarget' = target
  <2> DEFINE b == Ahead(target, 1)
  <2>1. target' = [target EXCEPT !.tar = b]
    BY <1>1, <1>5, <1>9, DrwRead
  <2>2. b \in 0..(MemSize - 1) /\ (b + (MemSize - 1) * AddrInc) % MemSize = target.tar
    BY <1>5, BackAndForth DEF Ahead
  <2> HIDE DEF b
  <2>3. target' = [mem |-> target.mem, tar |-> b, reg |-> target.reg]
    BY <1>5, <2>1
  <2>4. ASSUME Owed' = 1 PROVE SeenTarget' = target
    <3>1. SeenTarget' = [target' EXCEPT !.tar = Ahead(target', MemSize - 1)]
      BY <2>4 DEF SeenTarget
    <3>2. Ahead(target', MemSize - 1) = target.tar
      BY <2>2, <2>3 DEF Ahead
    <3> QED BY <1>5, <2>3, <3>1, <3>2
  <2> QED BY <2>1, <2>4 DEF b
<1> QED BY <1>1, <1>7, <1>8, <1>9

\* A read leaves the request as the next transaction, or the next entry, needs
\* it, and the word that is then fetched where it is looked for.
LEMMA ReadsInv ==
  ASSUME TransferInv, Reads
  PROVE  TransferInv'
<1>1. /\ pc = "request" /\ transfer_request.access.dir = "R"
      /\ \E w \in Word : words' = [words EXCEPT ![nwords + 1] = w]
      /\ AfterData(OK) \/ AfterData(PARITY)
      /\ input' = input
  <2>1. Sent \in Word
    BY ReadTarget
  <2> QED BY <2>1 DEF Reads
<1>2. /\ TypeOK /\ CountInv /\ FlagsInv /\ RequestInv /\ InputInv /\ PostedInv /\ Active /\ Decoded
  BY <1>1 DEF TransferInv, Active, Decoded
<1>3. PICK a \in {OK, PARITY} : AfterData(a)
  BY <1>1
<1>4. /\ flags' = flags \ {PIPELINEDAPREAD}
      /\ UNCHANGED <<cmd, transfer_request, match_value, mask_value>>
      /\ transfer_request = Current.req
  BY <1>1, <1>3, AfterDataCases
<1>5. /\ target' \in TargetType(Word) /\ rdbuff' \in Word
      /\ swd_request # ReadDRW => target' = target
      /\ (swd_request = ReadDRW => (Owed' = 1 => SeenTarget' = target))
      /\ rdbuff' = IF swd_request.port = "AP" THEN Value(target, swd_request) ELSE rdbuff
  BY ReadTarget
<1>6. words' \in [Slots -> Word]
  BY <1>1, <1>2 DEF TypeOK
<1>7. /\ a \in 0..31 /\ a + MISMATCH \in 0..31 /\ a + MISMATCH # OK
  BY DEF OK, PARITY, MISMATCH
<1>8. /\ RDBUFF \in Access /\ transfer_request.access \in Access /\ swd_request \in Access
      /\ swd_request = IF Morphed THEN RDBUFF ELSE transfer_request.access
      /\ transfer_request.access # RDBUFF
  <2>1. RDBUFF \in Access
    BY DEF RDBUFF, Access
  <2>2. transfer_request.access \in Access /\ transfer_request.access # RDBUFF
    BY <1>2, <1>4, CurrentFacts
  <2>3. swd_request \in Access
    BY <1>2 DEF TypeOK
  <2>4. swd_request = IF Morphed THEN RDBUFF ELSE transfer_request.access
    BY <1>2 DEF RequestInv
  <2> QED BY <2>1, <2>2, <2>3, <2>4
<1>9. /\ cmd' \in Commands /\ flags' \subseteq Flags /\ transfer_request' \in Request
      /\ match_value' \in Word /\ mask_value' \in Word /\ input' \in Seq(Token)
  BY <1>1, <1>2, <1>4 DEF TypeOK
<1>10. SeenTarget \in TargetType(Word) /\ (Owed = 0 => SeenTarget = target)
  BY <1>2, SeenFacts
\* The word that is fetched next.
<1>11. ASSUME Posted', transfer_request.access = ReadDRW => Owed' = 1,
              ~(Posted /\ Morphed)
       PROVE  PostedInv'
  <2>1. transfer_request.access.port = "AP" /\ swd_request = transfer_request.access
    <3>1. transfer_request.access.port = "AP"
      BY <1>4, <1>11 DEF Posted
    <3>2. Morphed => Posted
      BY <1>1, <1>2, <3>1 DEF Posted, Morphed
    <3>3. ~Morphed
      BY <1>11, <3>2, Zenon
    <3> QED BY <1>8, <3>1, <3>3
  <2>2. rdbuff' = Value(target, transfer_request.access)
    BY <1>5, <2>1
  <2>3. SeenTarget' = target
    <3>1. CASE transfer_request.access = ReadDRW
      BY <1>5, <1>11, <2>1, <3>1
    <3>2. CASE transfer_request.access # ReadDRW
      <4>1. Owed' = 0
        BY <1>4, <3>2 DEF Owed
      <4>2. target'.tar = Ahead(target', MemSize - 0)
        <5>1. target'.tar \in 0..(MemSize - 1)
          BY <1>5 DEF TargetType
        <5>2. MemSize - 0 = MemSize
          BY TargetAssumption
        <5> QED BY <5>1, <5>2, BackAndForth DEF Ahead
      <4>3. SeenTarget' = [target' EXCEPT !.tar = target'.tar]
        BY <4>1, <4>2 DEF SeenTarget
      <4>4. target' = [mem |-> target'.mem, tar |-> target'.tar, reg |-> target'.reg]
        BY <1>5 DEF TargetType
      <4> QED BY <1>5, <2>1, <3>2, <4>3, <4>4
    <3> QED BY <3>1, <3>2
  <2> QED BY <1>4, <2>2, <2>3 DEF PostedInv
<1>12. CASE Again(a)
  <2>1. /\ UNCHANGED <<pc, transfer_count, response_count, response_ack, nwords>> /\ ack' = a
        /\ retry_count' \in Nat /\ swd_request' = IF Morphed' THEN RDBUFF ELSE transfer_request.access
        /\ PIPELINEDAPREAD \in flags \/ MatchRead(transfer_request)
    BY <1>12 DEF Again
  <2>2. TypeOK'
    BY <1>2, <1>5, <1>6, <1>7, <1>8, <1>9, <2>1 DEF TypeOK
  <2>3. Active' /\ Decoded' /\ Current' = Current
    BY <1>1, <1>4, <2>1 DEF Active, Decoded, Current
  <2>4. CountInv'
    BY <1>1, <1>2, <1>4, <2>1, <2>3 DEF CountInv
  <2>5. FlagsInv'
    BY <1>1, <1>2, <1>4, <2>1, <2>3 DEF FlagsInv, TRANSFERBLOCK, WRITEABORT, OMITREQUESTDECODE, PIPELINEDAPREAD
  <2>6. RequestInv'
    BY <1>2, <1>4, <2>1, <2>3, <1>1 DEF RequestInv
  <2>7. InputInv'
    BY <1>1, <1>2, <1>4, <2>1, <2>3 DEF InputInv
  <2>8. PostedInv'
    <3>1. CASE Posted /\ Morphed
      <4>1. swd_request = RDBUFF /\ RDBUFF # ReadDRW /\ RDBUFF.port # "AP"
        BY <1>8, <3>1 DEF RDBUFF, ReadDRW
      <4>2. target' = target /\ rdbuff' = rdbuff
        BY <1>5, <4>1
      <4>3. PIPELINEDAPREAD \notin flags /\ flags' = flags
        BY <1>4, <3>1 DEF Posted
      <4>4. Owed' = Owed
        BY <1>4, <2>1, <4>3 DEF Owed
      <4>5. SeenTarget' = SeenTarget
        BY <4>2, <4>4 DEF SeenTarget, Ahead
      <4> QED BY <1>2, <1>4, <3>1, <4>2, <4>5 DEF PostedInv
    <3>2. CASE ~(Posted /\ Morphed) /\ Posted'
      <4>1. transfer_request.access = ReadDRW => Owed' = 1
        BY <1>1, <1>4, <2>1 DEF Owed
      <4> QED BY <1>11, <3>2, <4>1
    <3> QED BY <3>1, <3>2 DEF PostedInv
  <2> QED BY <2>2, <2>4, <2>5, <2>6, <2>7, <2>8 DEF TransferInv
<1>13. ASSUME NEW b \in {a, a + MISMATCH}, Finish(b, transfer_request), PIPELINEDAPREAD \notin flags,
              retry_count' \in Nat, b = OK => swd_request' = Morph, swd_request' \in Access
       PROVE  TransferInv'
  <2>1. b \in 0..31 /\ flags' = flags
    BY <1>4, <1>7, <1>13
  <2>2. Used
    <3>1. ~HasData(cmd.entries[1].req) \/ cmd.kind = "transfer"
      BY <1>1, <1>2, <1>4, CurrentFacts DEF HasData
    <3>2. cmd.kind # "transfer" => Data(cmd, response_count) = Data(cmd, response_count + 1)
      BY <3>1 DEF Data
    <3> QED BY <1>1, <1>2, <3>2 DEF Used, InputInv
  <2>3. CountInv' /\ FlagsInv' /\ RequestInv' /\ InputInv'
    BY <1>1, <1>4, <1>13, <2>1, <2>2, FinishInv
  <2>4. /\ pc' \in {"loop", "reply"} /\ transfer_count' \in Nat /\ response_count' \in Nat
        /\ response_ack' \in 0..31 /\ nwords' \in Nat /\ ack' \in 0..31
        /\ pc' = "loop" => cmd.kind # "abort" /\ transfer_count > 1 /\ response_count' > 0
    BY <1>2, <1>4, <1>13, <2>1, FinishCounts
  <2>5. TypeOK'
    BY <1>5, <1>6, <1>9, <1>13, <2>4 DEF TypeOK
  <2>6. PostedInv'
    <3> SUFFICES ASSUME Posted' PROVE PostedInv'
      BY DEF PostedInv
    <3>1. pc' = "loop" /\ OMITREQUESTDECODE \in flags
      BY <2>1, <2>4 DEF Posted, Decoded
    <3>2. cmd.kind = "block" /\ TRANSFERBLOCK \in flags
      BY <1>2, <2>4, <3>1, CommandFacts DEF FlagsInv
    <3>3. ~Morphed
      BY <2>4, <3>1, <3>2 DEF Morphed
    <3>4. transfer_request.access = ReadDRW => Owed' = 1
      BY <1>4, <1>13, <2>1, <2>4, <3>1, <3>2 DEF Owed
    <3> QED BY <1>11, <3>3, <3>4
  <2> QED BY <2>3, <2>5, <2>6 DEF TransferInv
<1>14. swd_request' = Morph
  BY <1>3 DEF AfterData
<1>15. swd_request' \in Access
  BY <1>8, <1>14 DEF Morph
<1> QED BY <1>1, <1>3, <1>12, <1>13, <1>14, <1>15, AfterDataCases

\* Between commands only the types are kept.
LEMMA RespondInv ==
  ASSUME TransferInv, Respond
  PROVE  TransferInv'
<1>1. pc' = "idle" /\ UNCHANGED <<cmd, input, flags, local, match_value, mask_value, out, target, rdbuff>>
  BY DEF Respond
<1>2. TypeOK'
  BY <1>1 DEF TransferInv, TypeOK, local, out
<1> QED BY <1>1, <1>2 DEF TransferInv

\* The target's status register is not what a posted read waits for: that is
\* a register of the access port.
LEMMA RunsInv ==
  ASSUME TransferInv, TargetRuns
  PROVE  TransferInv' /\ Owed' = Owed
         /\ \E w \in Status : SeenTarget' = [SeenTarget EXCEPT !.reg[<<"DP", 1>>] = w]
<1>1. /\ UNCHANGED <<pc, cmd, input, flags, transfer_count, transfer_request, swd_request, ack, retry_count>>
      /\ UNCHANGED <<match_value, mask_value, response_count, response_ack, words, nwords, rdbuff>>
  BY DEF TargetRuns, local, out
<1>2. PICK w \in Status : target' = [target EXCEPT !.reg[<<"DP", 1>>] = w]
  BY DEF TargetRuns
<1>3. /\ target.mem \in [0..(MemSize - 1) -> Word] /\ target.tar \in 0..(MemSize - 1)
      /\ target.reg \in [Registers -> Word] /\ w \in Word
      /\ target = [mem |-> target.mem, tar |-> target.tar, reg |-> target.reg]
  BY TransferAssumption DEF TransferInv, TypeOK, TargetType
<1> DEFINE s == [target.reg EXCEPT ![<<"DP", 1>>] = w]
<1>4. s \in [Registers -> Word]
  BY <1>3
<1>5. target' = [mem |-> target.mem, tar |-> target.tar, reg |-> s]
  BY <1>2, <1>3
<1>6. \A n \in 0..3 : s[<<"AP", n>>] = target.reg[<<"AP", n>>]
  BY <1>3 DEF Registers
<1> HIDE DEF s
<1>7. target' \in TargetType(Word)
  BY <1>3, <1>4, <1>5 DEF TargetType
<1>8. TypeOK'
  BY <1>1, <1>7 DEF TransferInv, TypeOK
<1>9. Owed' = Owed
  BY <1>1 DEF Owed
<1> DEFINE b == (target.tar + (MemSize - Owed) * AddrInc) % MemSize
<1>10. SeenTarget = [target EXCEPT !.tar = b] /\ SeenTarget' = [target' EXCEPT !.tar = b]
  BY <1>5, <1>9 DEF SeenTarget, Ahead
<1> HIDE DEF b
<1>11. /\ SeenTarget = [mem |-> target.mem, tar |-> b, reg |-> target.reg]
       /\ SeenTarget' = [mem |-> target.mem, tar |-> b, reg |-> s]
  BY <1>3, <1>5, <1>10
<1>12. SeenTarget' = [SeenTarget EXCEPT !.reg[<<"DP", 1>>] = w]
  BY <1>11 DEF s
<1>13. pc # "idle" /\ PostedInv => PostedInv'
  <2> SUFFICES ASSUME pc # "idle", PostedInv, Posted' PROVE rdbuff' = Value(SeenTarget', transfer_request'.access)
    BY DEF PostedInv
  <2>1. Posted /\ transfer_request' = transfer_request /\ transfer_request.access.port = "AP"
    BY <1>1 DEF Posted, Decoded
  <2>2. rdbuff = Value(SeenTarget, transfer_request.access)
    BY <2>1 DEF PostedInv
  <2>3. transfer_request.access.reg \in 0..3
    BY DEF TransferInv, TypeOK, Request, Access
  <2> QED BY <1>1, <1>6, <1>11, <2>1, <2>2, <2>3 DEF Value
<1>14. pc # "idle" => CountInv' /\ FlagsInv' /\ RequestInv' /\ InputInv'
  <2> SUFFICES ASSUME pc # "idle" PROVE CountInv' /\ FlagsInv' /\ RequestInv' /\ InputInv'
    OBVIOUS
  <2>1. CountInv /\ FlagsInv /\ RequestInv /\ InputInv
    BY DEF TransferInv
  <2>2. Current' = Current /\ (Active' <=> Active) /\ (Decoded' <=> Decoded) /\ (Morphed' <=> Morphed)
    BY <1>1 DEF Current, Active, Decoded, Morphed
  <2>3. CountInv' /\ FlagsInv'
    BY <1>1, <2>1, <2>2 DEF CountInv, FlagsInv
  <2>4. RequestInv'
    BY <1>1, <2>1, <2>2 DEF RequestInv
  <2>5. InputInv'
    BY <1>1, <2>1, <2>2 DEF InputInv
  <2> QED BY <2>3, <2>4, <2>5
<1> QED BY <1>1, <1>8, <1>9, <1>12, <1>13, <1>14 DEF TransferInv

\* Steps that change nothing.
LEMMA StutterInv ==
  ASSUME TransferInv, UNCHANGED vars
  PROVE  TransferInv'
<1>1. /\ UNCHANGED <<pc, cmd, input, flags, transfer_count, transfer_request, swd_request, ack, retry_count>>
      /\ UNCHANGED <<match_value, mask_value, response_count, response_ack, words, nwords, target, rdbuff>>
  BY DEF vars, local, out
<1>2. TypeOK'
  BY <1>1 DEF TransferInv, TypeOK
<1>3. ASSUME pc # "idle" PROVE CountInv' /\ FlagsInv' /\ RequestInv' /\ InputInv' /\ PostedInv'
  <2>1. CountInv /\ FlagsInv /\ RequestInv /\ InputInv /\ PostedInv
    BY <1>3 DEF TransferInv
  <2>2. /\ Current' = Current /\ (Active' <=> Active) /\ (Decoded' <=> Decoded) /\ (Morphed' <=> Morphed)
        /\ SeenTarget' = SeenTarget /\ (Posted' <=> Posted)
    BY <1>1 DEF Current, Active, Decoded, Morphed, SeenTarget, Ahead, Owed, Posted
  <2>3. CountInv' /\ FlagsInv'
    BY <1>1, <2>1, <2>2 DEF CountInv, FlagsInv
  <2>4. RequestInv'
    BY <1>1, <2>1, <2>2 DEF RequestInv
  <2>5. InputInv'
    BY <1>1, <2>1, <2>2 DEF InputInv
  <2>6. PostedInv'
    BY <1>1, <2>1, <2>2 DEF PostedInv
  <2> QED BY <2>3, <2>4, <2>5, <2>6
<1> QED BY <1>1, <1>2, <1>3 DEF TransferInv

\* For every list of legal commands, every answer of the target and every
\* limit: the counts, the flags, the request shifted out, the input pointer and
\* the posted word agree with the entry dap_transfer is carrying out.
THEOREM TransferInvariant == Spec => []TransferInv
<1>1. ASSUME TransferInv, [Next]_vars PROVE TransferInv'
  <2>1. CASE \E c \in Commands : Receive(c)
    BY <1>1, <2>1, ReceiveInv
  <2>2. CASE Decode
    BY <1>1, <2>2, DecodeMaskInv, DecodeOtherInv
  <2>3. CASE OmitDecode
    BY <1>1, <2>3, OmitInv
  <2>4. CASE Waits
    BY <1>1, <2>4, WaitsInv
  <2>5. CASE Faults
    BY <1>1, <2>5, FaultsInv
  <2>6. CASE Writes
    BY <1>1, <2>6, WritesInv
  <2>7. CASE Reads
    BY <1>1, <2>7, ReadsInv
  <2>8. CASE Respond
    BY <1>1, <2>8, RespondInv
  <2>9. CASE TargetRuns
    BY <1>1, <2>9, RunsInv
  <2>10. CASE UNCHANGED vars
    BY <1>1, <2>10, StutterInv
  <2> QED BY <1>1, <2>1, <2>2, <2>3, <2>4, <2>5, <2>6, <2>7, <2>8, <2>9, <2>10 DEF Next, Work, Transaction
<1> QED BY <1>1, InitTransfer, PTL DEF Spec

\* Every variable of dap_transfer keeps its type; the words stored are words
\* because the target only ever holds words.
THEOREM TransferTypes == Spec => []TypeOK
<1>1. TransferInv => TypeOK
  BY DEF TransferInv
<1> QED BY <1>1, TransferInvariant, PTL

\* *input is at the request when one is decoded, at its data when that is
\* written, and at the end of the packet when a command succeeds.
THEOREM TransferInputInStep == Spec => []InputInStep
<1>1. ASSUME TransferInv PROVE InputInStep
  <2>1. pc = "reply" /\ ack = OK => input = <<>>
    BY <1>1 DEF TransferInv, InputInv
  <2> QED BY <1>1, <2>1, AtRequest, AtData DEF InputInStep
<1> QED BY <1>1, TransferInvariant, PTL

\* Every read, those whose word is not kept included, finds room for its word.
LEMMA RoomForRead ==
  ASSUME TransferInv, pc = "request", transfer_request.access.dir = "R"
  PROVE  FirstWord(cmd.kind) + 4 * (nwords + 1) <= PacketSize + 4 /\ nwords + 1 \in Slots
<1>1. TypeOK /\ CountInv /\ RequestInv /\ Active /\ Decoded
  BY DEF TransferInv, Active, Decoded
<1>2. /\ LegalCommand(cmd) /\ response_count \in 0..(Len(cmd.entries) - 1)
      /\ nwords = ReadsMade(cmd, response_count) /\ cmd.kind \in {"transfer", "block", "abort"}
  BY <1>1, CommandFacts, CurrentFacts DEF CountInv, ReadsMade
<1> DEFINE all == Cardinality(PlainReads(cmd))
<1>3. all \in Nat /\ nwords \in Nat /\ nwords <= all
  BY <1>2, ReadsCounted
<1>4. FirstWord(cmd.kind) + 4 * all <= PacketSize /\ FirstWord(cmd.kind) \in {3, 4} /\ PacketSize \in Nat
  BY <1>2, TransferAssumption DEF LegalCommand, FirstWord
<1> HIDE DEF all
<1>5. FirstWord(cmd.kind) + 4 * (nwords + 1) <= PacketSize + 4
  BY <1>3, <1>4
<1>6. 4 * (nwords + 1) <= PacketSize + 4 - 3
  BY <1>3, <1>4
<1>7. nwords + 1 <= (PacketSize + 4 - 3) \div 4
  BY <1>3, <1>4, <1>6
<1> QED BY <1>3, <1>4, <1>5, <1>7 DEF Slots

\* No read stores past the end of scratchpad, whatever the packet size: the
\* four bytes by which it is oversized suffice for the reads that are not kept.
THEOREM TransferWithinScratchpad == Spec => []WithinScratchpad
<1>1. TransferInv => WithinScratchpad
  BY RoomForRead DEF WithinScratchpad
<1> QED BY <1>1, TransferInvariant, PTL

-----------------------------------------------------------------------------
(***************************************************************************)
(* The debugger's contract.                                                *)
(***************************************************************************)
\* A word stored behind those that are kept is no result until it is counted.
LEMMA Results ==
  ASSUME TypeOK, nwords + 1 \in Slots, NEW v \in Word, words' = [words EXCEPT ![nwords + 1] = v]
  PROVE  /\ SubSeq(words', 1, nwords) = SubSeq(words, 1, nwords)
         /\ SubSeq(words', 1, nwords + 1) = Append(SubSeq(words, 1, nwords), v)
         /\ words'[nwords + 1] = v
<1> DEFINE n == nwords
           s == SubSeq(words, 1, n)
           t == SubSeq(words', 1, n + 1)
           u == SubSeq(words', 1, n)
<1>1. words \in [Slots -> Word] /\ n \in Nat /\ n + 1 \in Slots
  BY DEF TypeOK
<1>2. 1..n \subseteq Slots /\ 1..(n + 1) \subseteq Slots /\ n \in Int /\ n + 1 \in Int /\ 1 \in Int
  <2> DEFINE K == (PacketSize + 4 - 3) \div 4
  <2>1. K \in Int /\ Slots = 1..K
    BY TransferAssumption DEF Slots
  <2> HIDE DEF K, n
  <2> QED BY <1>1, <2>1
<1>3. /\ words'[n + 1] = v
      /\ \A i \in 1..n : words'[i] = words[i] /\ words[i] \in Word
      /\ \A i \in 1..(n + 1) : words'[i] \in Word
  BY <1>1, <1>2
<1>4. s \in Seq(Word) /\ Len(s) = n /\ \A i \in 1..n : s[i] = words[i]
  <2>1. \A i \in 1..n : words[i] \in Word
    BY <1>3
  <2>2. n - 1 + 1 = n /\ (\A i \in 1..n : 1 + i - 1 = i) /\ (1 <= n \/ n = 0)
    BY <1>1
  <2> HIDE DEF n
  <2> QED BY <1>2, <2>1, <2>2, SubSeqProperties
<1>5. u \in Seq(Word) /\ Len(u) = n /\ \A i \in 1..n : u[i] = words'[i]
  <2>1. \A i \in 1..n : words'[i] \in Word
    BY <1>1, <1>3
  <2>2. n - 1 + 1 = n /\ (\A i \in 1..n : 1 + i - 1 = i) /\ (1 <= n \/ n = 0)
    BY <1>1
  <2> HIDE DEF n
  <2> QED BY <1>2, <2>1, <2>2, SubSeqProperties
<1>6. t \in Seq(Word) /\ Len(t) = n + 1 /\ \A i \in 1..(n + 1) : t[i] = words'[i]
  <2>1. (n + 1) - 1 + 1 = n + 1 /\ (\A i \in 1..(n + 1) : 1 + i - 1 = i) /\ 1 <= n + 1
    BY <1>1
  <2> HIDE DEF n
  <2> QED BY <1>2, <1>3, <2>1, SubSeqProperties
<1> HIDE DEF s, t, u, n
<1>7. u = s
  BY <1>3, <1>4, <1>5, SeqEqual
<1>8. t = Append(s, v)
  <2>1. Append(s, v) \in Seq(Word) /\ Len(Append(s, v)) = n + 1
        /\ Append(s, v)[n + 1] = v /\ \A i \in 1..n : Append(s, v)[i] = s[i]
    BY <1>4, AppendProperties
  <2>2. \A i \in 1..(n + 1) : i \in 1..n \/ i = n + 1
    BY <1>1
  <2>3. \A i \in 1..(n + 1) : t[i] = Append(s, v)[i]
    BY <1>3, <1>4, <1>6, <2>1, <2>2
  <2> QED BY <1>6, <2>1, <2>3, SeqEqual
<1> QED BY <1>3, <1>7, <1>8 DEF s, t, u, n

\* The contract speaks of commands and targets with the words of this module.
LEMMA SameWords ==
  /\ Host!OK = OK /\ Host!WAIT = WAIT /\ Host!FAULT = FAULT /\ Host!PARITY = PARITY /\ Host!MISMATCH = MISMATCH
  /\ Host!NoResponse = NoResponse /\ Host!ReadDRW = ReadDRW
  /\ \A r : /\ Host!MaskWrite(r) = MaskWrite(r) /\ Host!MatchRead(r) = MatchRead(r)
            /\ Host!PlainRead(r) = PlainRead(r)
  /\ \A x, a, w : /\ Host!Value(x, a) = Value(x, a) /\ Host!After(x, a, w) = After(x, a, w)
                  /\ Host!Ahead(x, w) = Ahead(x, w)
  /\ \A w, m : Host!Masked(w, m) = Masked(w, m)
<1>1. Host!OK = OK /\ Host!WAIT = WAIT /\ Host!FAULT = FAULT /\ Host!PARITY = PARITY /\ Host!MISMATCH = MISMATCH
  BY DEF Host!OK, Host!WAIT, Host!FAULT, Host!PARITY, Host!MISMATCH, OK, WAIT, FAULT, PARITY, MISMATCH
<1>2. Host!NoResponse = NoResponse /\ Host!ReadDRW = ReadDRW /\ Host!DRW = DRW /\ Host!TAR = TAR
  BY DEF Host!NoResponse, Host!ReadDRW, NoResponse, ReadDRW, Host!DRW, DRW, Host!TAR, TAR
<1>3. \A r : /\ Host!MaskWrite(r) = MaskWrite(r) /\ Host!MatchRead(r) = MatchRead(r)
             /\ Host!PlainRead(r) = PlainRead(r)
  BY Zenon DEF Host!MaskWrite, Host!MatchRead, Host!PlainRead, MaskWrite, MatchRead, PlainRead
<1>4. \A x, w : Host!Ahead(x, w) = Ahead(x, w)
  BY Zenon DEF Host!Ahead, Ahead
<1>5. \A x, a, w : Host!Value(x, a) = Value(x, a) /\ Host!After(x, a, w) = After(x, a, w)
  <2> SUFFICES ASSUME NEW x, NEW a, NEW w PROVE Host!Value(x, a) = Value(x, a) /\ Host!After(x, a, w) = After(x, a, w)
    OBVIOUS
  <2>1. Host!Value(x, a) = Value(x, a)
    BY <1>2 DEF Host!Value, Value
  <2>2. Host!After(x, a, w) = After(x, a, w)
    BY <1>2, <1>4 DEF Host!After, After
  <2> QED BY <2>1, <2>2
<1>6. \A w, m : Host!Masked(w, m) = Masked(w, m)
  BY Zenon DEF Host!Masked, Masked
<1> QED BY <1>1, <1>2, <1>3, <1>4, <1>5, <1>6

\* The first states are those of the contract.
LEMMA InitHost == Init => Host!Init
<1> SUFFICES ASSUME Init PROVE Host!Init
  OBVIOUS
<1>1. TypeOK
  BY InitTransfer DEF TransferInv
<1>2. SeenTarget = target
  BY <1>1, SeenFacts DEF Owed, Init
<1>3. SubSeq(words, 1, nwords) = <<>>
  BY SubSeqEmpty DEF Init
<1> QED BY <1>2, <1>3, SameWords DEF Init, Host!Init

\* What the debugger sees where a step leaves nothing owed.
LEMMA NothingOwed ==
  ASSUME target' \in TargetType(Word), Owed' = 0
  PROVE  SeenTarget' = target'
<1>1. /\ target'.tar \in 0..(MemSize - 1)
      /\ target' = [mem |-> target'.mem, tar |-> target'.tar, reg |-> target'.reg]
  BY DEF TargetType
<1>2. MemSize - 0 = MemSize
  BY TargetAssumption
<1>3. Ahead(target', MemSize - 0) = target'.tar
  BY <1>1, <1>2, BackAndForth DEF Ahead
<1>4. SeenTarget' = [target' EXCEPT !.tar = Ahead(target', MemSize - 0)]
  BY DEF SeenTarget
<1> QED BY <1>1, <1>3, <1>4

\* A command arrives.
LEMMA ReceiveIssues ==
  ASSUME TransferInv, NEW c \in Commands, Receive(c)
  PROVE  Host!Issue(c)
<1>1. /\ pc = "idle" /\ pc' \in {"loop", "reply"} /\ cmd' = c /\ response_count' = 0 /\ nwords' = 0
      /\ response' = NoResponse /\ target' \in Target0 /\ UNCHANGED mask_value
  BY DEF Receive
<1>2. SeenTarget' = target'
  <2>1. Owed' = 0
    BY <1>1 DEF Owed
  <2> QED BY <1>1, <2>1, TransferAssumption, NothingOwed
<1>3. SubSeq(words', 1, nwords') = <<>>
  BY <1>1, SubSeqEmpty
<1> QED BY <1>1, <1>2, <1>3, SameWords DEF Host!Issue

\* A request of the command that succeeds.
LEMMA MakeStep ==
  ASSUME TransferInv, Active, Finish(OK, Current.req), UNCHANGED <<cmd, response>>,
         \/ /\ MaskWrite(Current.req) /\ mask_value' = Current.data /\ SeenTarget' = SeenTarget
            /\ SubSeq(words', 1, nwords') = SubSeq(words, 1, nwords)
         \/ /\ ~MaskWrite(Current.req)
            /\ MatchRead(Current.req) =>
                 Masked(Value(SeenTarget, Current.req.access), mask_value) = Current.data
            /\ SubSeq(words', 1, nwords') =
                 IF PlainRead(Current.req)
                 THEN Append(SubSeq(words, 1, nwords), Value(SeenTarget, Current.req.access))
                 ELSE SubSeq(words, 1, nwords)
            /\ SeenTarget' = After(SeenTarget, Current.req.access, Current.data)
            /\ UNCHANGED mask_value
  PROVE  Host!Make
<1>1. TypeOK /\ CountInv
  BY DEF TransferInv, Active
<1>2. OK \in 0..31
  BY DEF OK
<1>3. /\ pc' \in {"loop", "reply"} /\ response_count' = response_count + 1 /\ ack' = OK
      /\ response_count \in Nat /\ response_count' > 0
  <2>1. pc' \in {"loop", "reply"} /\ response_count' = response_count + 1 /\ ack' = OK
    BY <1>2, FinishCounts
  <2>2. response_count \in Nat
    BY <1>1 DEF TypeOK
  <2> QED BY <2>1, <2>2
<1>4. Len(cmd.entries) - response_count > 0
  BY <1>1, CommandFacts, CurrentFacts
<1>5. /\ pc # "idle" /\ pc' # "idle" /\ pc \in {"loop", "request"}
      /\ (IF pc' \in {"loop", "request"} \/ response_count' = 0 THEN OK ELSE ack') = OK
  BY <1>3 DEF Active
<1>6. Host!Req = Current.req /\ Host!Datum = Current.data
  BY DEF Host!Req, Host!Datum, Current
<1>7. \/ /\ Host!MaskWrite(Current.req) /\ mask_value' = Current.data /\ SeenTarget' = SeenTarget
         /\ SubSeq(words', 1, nwords') = SubSeq(words, 1, nwords)
      \/ /\ ~Host!MaskWrite(Current.req)
         /\ Host!MatchRead(Current.req) =>
              Host!Masked(Host!Value(SeenTarget, Current.req.access), mask_value) = Current.data
         /\ SubSeq(words', 1, nwords') =
              IF Host!PlainRead(Current.req)
              THEN Append(SubSeq(words, 1, nwords), Host!Value(SeenTarget, Current.req.access))
              ELSE SubSeq(words, 1, nwords)
         /\ SeenTarget' = Host!After(SeenTarget, Current.req.access, Current.data)
         /\ UNCHANGED mask_value
  BY SameWords
<1>8. Host!OK = OK
  BY SameWords
<1> QED BY <1>3, <1>4, <1>5, <1>6, <1>7, <1>8 DEF Host!Make, Host!Remaining

\* One that does not.
LEMMA FailStep ==
  ASSUME TransferInv, pc = "request", NEW a \in 0..31, Finish(a, Current.req),
         UNCHANGED <<cmd, response, mask_value>>,
         a \in {WAIT, FAULT} \cup (IF Current.req.access.dir = "R" THEN {PARITY} ELSE {})
               \cup (IF MatchRead(Current.req) THEN {OK + MISMATCH, PARITY + MISMATCH} ELSE {}),
         SubSeq(words', 1, nwords) = SubSeq(words, 1, nwords),
         NEW n \in 0..2, n > 0 => Current.req.access = ReadDRW, n > 1 => transfer_count > 1,
         SeenTarget' = [SeenTarget EXCEPT !.tar = Ahead(SeenTarget, n)]
  PROVE  Host!Fail
<1>1. TypeOK /\ CountInv /\ RequestInv /\ Active /\ Decoded
  BY DEF TransferInv, Active, Decoded
<1>2. a # OK
  BY DEF OK, WAIT, FAULT, PARITY, MISMATCH
<1>3. /\ pc' = "reply" /\ response_count' = response_count + 1 /\ ack' = a
      /\ response_count \in Nat /\ response_count' > 0
  <2>1. /\ pc' \in {"loop", "reply"} /\ response_count' = response_count + 1 /\ ack' = a
        /\ pc' # "loop"
    BY <1>1, <1>2, FinishCounts
  <2>2. response_count \in Nat
    BY <1>1 DEF TypeOK
  <2> QED BY <2>1, <2>2
<1>4. nwords' = nwords
  BY <1>2 DEF Finish
<1>5. Len(cmd.entries) - response_count > 0 /\ (n > 1 => Len(cmd.entries) - response_count # 1)
  <2> DEFINE L == Len(cmd.entries)
  <2>1. L \in Nat /\ response_count \in 0..(L - 1) /\ transfer_count + response_count = L /\ transfer_count \in Nat
    BY <1>1, CommandFacts, CurrentFacts DEF CountInv, TypeOK
  <2> HIDE DEF L
  <2>2. L - response_count > 0 /\ (n > 1 => L - response_count # 1)
    BY <2>1
  <2> QED BY <2>2 DEF L
<1>6. ~MaskWrite(Current.req)
  BY <1>1 DEF RequestInv
<1>7. Host!Req = Current.req
  BY DEF Host!Req, Current
<1>8. a \in Host!Failures
  BY <1>7, SameWords DEF Host!Failures
<1>9. n \in 0..(IF Current.req.access # ReadDRW THEN 0 ELSE IF Len(cmd.entries) - response_count = 1 THEN 1 ELSE 2)
  BY <1>5
<1>10. /\ Host!OK = OK /\ Host!ReadDRW = ReadDRW /\ ~Host!MaskWrite(Current.req)
       /\ Host!Ahead(SeenTarget, n) = Ahead(SeenTarget, n)
  BY <1>6, SameWords
<1>11. \E k \in 0..(IF Current.req.access # Host!ReadDRW THEN 0 ELSE IF Len(cmd.entries) - response_count = 1 THEN 1 ELSE 2) :
         SeenTarget' = [SeenTarget EXCEPT !.tar = Host!Ahead(SeenTarget, k)]
  BY <1>9, <1>10
<1>12. (IF pc' \in {"loop", "request"} \/ response_count' = 0 THEN OK ELSE ack') = a
  BY <1>3
<1> QED BY <1>3, <1>4, <1>5, <1>7, <1>8, <1>10, <1>11, <1>12 DEF Host!Fail, Host!Remaining

\* A step the debugger does not see.
LEMMA UnseenStep ==
  ASSUME TransferInv, Active, Active', UNCHANGED <<cmd, response, mask_value, response_count, nwords>>,
         SubSeq(words', 1, nwords) = SubSeq(words, 1, nwords), SeenTarget' = SeenTarget
  PROVE  UNCHANGED Host!vars
<1>1. pc \in {"loop", "request"} /\ pc' \in {"loop", "request"}
  BY DEF Active
<1>2. pc # "idle" /\ pc' # "idle" /\ SubSeq(words', 1, nwords') = SubSeq(words, 1, nwords)
  BY <1>1
<1> QED BY <1>1, <1>2 DEF Host!vars

\* Decoding is not seen, but for a mask.
LEMMA DecodeSeen ==
  ASSUME TransferInv, Decode
  PROVE  Host!Make \/ UNCHANGED Host!vars
<1>1. TypeOK /\ FlagsInv /\ Active /\ pc = "loop" /\ OMITREQUESTDECODE \notin flags
      /\ UNCHANGED <<cmd, response, words, target>>
  BY DEF TransferInv, Active, Decode
<1>2. TRANSFERBLOCK \in flags => response_count = 0
  BY <1>1 DEF FlagsInv, TypeOK
<1>3. Owed = 0
  BY <1>1, <1>2 DEF Owed
<1>4. SeenTarget = target /\ target \in TargetType(Word)
  BY <1>1, <1>3, SeenFacts DEF TypeOK
<1>5. CASE MaskWrite(transfer_request')
  <2>1. /\ transfer_request' = Current.req /\ mask_value' = Current.data /\ Finish(OK, Current.req)
        /\ cmd.kind = "transfer"
    <3>1. CountInv
      BY <1>1 DEF TransferInv
    <3> QED BY <1>1, <1>5, <3>1, DecodeMaskInv, CurrentFacts, CommandFacts DEF MaskWrite
  <2>2. TRANSFERBLOCK \notin flags /\ flags' = flags
    BY <1>1, <1>5, <2>1 DEF FlagsInv, Decode
  <2>3. pc' # "request"
    BY <2>1 DEF Finish
  <2>4. Owed' = 0
    BY <2>2, <2>3 DEF Owed
  <2>5. SeenTarget' = SeenTarget
    BY <1>1, <1>4, <2>4, NothingOwed
  <2>6. MaskWrite(Current.req) /\ ~PlainRead(Current.req)
    BY <1>5, <2>1 DEF MaskWrite, PlainRead
  <2>7. nwords' = nwords
    BY <2>1, <2>6 DEF Finish
  <2> QED BY <1>1, <2>1, <2>5, <2>6, <2>7, MakeStep
<1>6. CASE ~MaskWrite(transfer_request')
  <2>1. /\ pc' = "request" /\ transfer_request' = Current.req
        /\ UNCHANGED <<cmd, response_count, nwords, words, mask_value, target>>
        /\ Current.req.access = ReadDRW => PIPELINEDAPREAD \in flags'
    BY <1>6, DecodeOtherInv
  <2>2. Owed' = 0
    BY <2>1 DEF Owed
  <2>3. SeenTarget' = SeenTarget
    BY <1>1, <1>4, <2>2, NothingOwed
  <2>4. Active'
    BY <2>1 DEF Active
  <2> QED BY <1>1, <2>1, <2>3, <2>4, UnseenStep
<1> QED BY <1>5, <1>6

\* Nor is going on without.
LEMMA OmitSeen ==
  ASSUME TransferInv, OmitDecode
  PROVE  UNCHANGED Host!vars
<1>1. /\ TypeOK /\ CountInv /\ FlagsInv /\ RequestInv /\ Active /\ Decoded /\ pc = "loop" /\ pc' = "request"
      /\ OMITREQUESTDECODE \in flags
      /\ UNCHANGED <<cmd, response, words, target, flags, transfer_request, response_count, nwords, mask_value>>
  BY DEF TransferInv, Active, Decoded, OmitDecode, out
<1>2. transfer_request.access = ReadDRW => cmd.kind # "abort"
  <2>1. cmd.kind = "abort" => cmd.entries[1].req.access.dir = "W"
    BY <1>1, CommandFacts DEF LegalCommand, WriteABORT
  <2>2. cmd.kind = "abort" => transfer_request = cmd.entries[1].req
    BY <1>1, CurrentFacts DEF RequestInv
  <2> QED BY <2>1, <2>2 DEF ReadDRW
<1>3. transfer_request.access = ReadDRW => TRANSFERBLOCK \in flags /\ response_count > 0
  BY <1>1, <1>2 DEF FlagsInv
<1>4. Owed' = Owed
  BY <1>1, <1>3 DEF Owed
<1>5. SeenTarget' = SeenTarget /\ Active'
  BY <1>1, <1>4 DEF SeenTarget, Ahead, Active
<1> QED BY <1>1, <1>5, UnseenStep

\* An answer without data, where it ends the command.
LEMMA NoDataStep ==
  ASSUME TransferInv, pc = "request", NEW a \in {WAIT, FAULT}, Finish(a, transfer_request),
         UNCHANGED <<cmd, response, mask_value, words, target>>
  PROVE  Host!Fail
<1>1. TypeOK /\ CountInv /\ RequestInv /\ Active /\ Decoded
  BY DEF TransferInv, Active, Decoded
<1>2. transfer_request = Current.req /\ a \in 0..31 /\ a # OK
  BY <1>1 DEF RequestInv, WAIT, FAULT, OK
<1>3. pc' = "reply"
  BY <1>1, <1>2, FinishCounts
<1>4. SeenTarget' = target /\ target \in TargetType(Word)
  <2>1. Owed' = 0
    BY <1>3 DEF Owed
  <2> QED BY <1>1, <2>1, NothingOwed DEF TypeOK
<1>5. CASE Owed = 0
  <2>1. SeenTarget = target /\ [target EXCEPT !.tar = Ahead(target, 0)] = target
    <3>1. target.tar \in 0..(MemSize - 1) /\ target = [mem |-> target.mem, tar |-> target.tar, reg |-> target.reg]
      BY <1>4 DEF TargetType
    <3>2. Ahead(target, 0) = target.tar
      BY <3>1, BackAndForth DEF Ahead
    <3> QED BY <1>1, <1>5, <3>1, <3>2, SeenFacts
  <2>2. SeenTarget' = [SeenTarget EXCEPT !.tar = Ahead(SeenTarget, 0)]
    BY <1>4, <2>1
  <2>3. 0 \in 0..2 /\ ~(0 > 0) /\ ~(0 > 1)
    OBVIOUS
  <2> QED BY <1>2, <2>2, <2>3, FailStep
<1>6. CASE Owed = 1
  <2>1. SeenTarget' = [SeenTarget EXCEPT !.tar = Ahead(SeenTarget, 1)]
    BY <1>1, <1>4, <1>6, SeenFacts
  <2>2. Current.req.access = ReadDRW
    BY <1>2, <1>6 DEF Owed
  <2>3. 1 \in 0..2 /\ ~(1 > 1)
    OBVIOUS
  <2> QED BY <1>2, <2>1, <2>2, <2>3, FailStep
<1> QED BY <1>5, <1>6 DEF Owed

\* A retry is not seen.
LEMMA WaitsSeen ==
  ASSUME TransferInv, Waits
  PROVE  Host!Fail \/ UNCHANGED Host!vars
<1>1. /\ pc = "request"
      /\ UNCHANGED <<cmd, response, flags, transfer_request, mask_value, words, target>>
      /\ \/ UNCHANGED <<pc, transfer_count, response_count, nwords>>
         \/ Finish(WAIT, transfer_request)
  BY DEF Waits
<1>2. CASE UNCHANGED <<pc, transfer_count, response_count, nwords>>
  <2>1. Active /\ Active' /\ Owed' = Owed
    BY <1>1, <1>2 DEF Active, Owed
  <2>2. SeenTarget' = SeenTarget
    BY <1>1, <2>1 DEF SeenTarget, Ahead
  <2> QED BY <1>1, <1>2, <2>1, <2>2, UnseenStep
<1>3. CASE Finish(WAIT, transfer_request)
  BY <1>1, <1>3, NoDataStep
<1> QED BY <1>1, <1>2, <1>3

\* A fault is seen at once.
LEMMA FaultsSeen ==
  ASSUME TransferInv, Faults
  PROVE  Host!Fail
<1>1. /\ pc = "request" /\ Finish(FAULT, transfer_request)
      /\ UNCHANGED <<cmd, response, mask_value, words, target>>
  BY DEF Faults
<1> QED BY <1>1, NoDataStep

\* A write is seen as what it is.
LEMMA WritesSeen ==
  ASSUME TransferInv, Writes
  PROVE  Host!Make
<1>1. /\ TypeOK /\ RequestInv /\ Active /\ Decoded /\ pc = "request" /\ transfer_request.access.dir = "W"
      /\ UNCHANGED response
  BY DEF TransferInv, Active, Decoded, Writes, AfterData
<1>2. /\ TransferInv' /\ Finish(OK, transfer_request) /\ transfer_request = Current.req
      /\ target' = After(target, Current.req.access, Current.data)
      /\ UNCHANGED <<cmd, words, mask_value, transfer_request>>
  BY WritesInv
<1>3. Owed = 0 /\ Owed' = 0
  BY <1>1, <1>2 DEF Owed, ReadDRW
<1>4. SeenTarget = target /\ SeenTarget' = target'
  BY <1>1, <1>2, <1>3, SeenFacts, NothingOwed DEF TransferInv, TypeOK
<1>5. ~MaskWrite(Current.req) /\ ~MatchRead(Current.req) /\ ~PlainRead(Current.req)
  BY <1>1, <1>2 DEF RequestInv, MatchRead, PlainRead
<1>6. nwords' = nwords
  BY <1>2, <1>5 DEF Finish
<1> QED BY <1>1, <1>2, <1>4, <1>5, <1>6, MakeStep

\* The response.
LEMMA RespondSeen ==
  ASSUME TransferInv, Respond
  PROVE  Host!Reply
<1>1. /\ pc = "reply" /\ pc' = "idle"
      /\ response' = [count |-> response_count, ack |-> response_ack, data |-> SubSeq(words, 1, nwords)]
      /\ UNCHANGED <<cmd, flags, transfer_request, response_count, ack, words, nwords, mask_value, target>>
  BY DEF Respond, local, out
<1>2. TypeOK /\ CountInv
  BY <1>1 DEF TransferInv
<1>3. Owed = 0 /\ Owed' = 0
  BY <1>1 DEF Owed
<1>4. SeenTarget' = SeenTarget
  BY <1>1, <1>3 DEF SeenTarget, Ahead
<1> DEFINE s == IF response_count = 0 THEN OK ELSE ack
<1>5. /\ (IF pc \in {"loop", "request"} \/ response_count = 0 THEN OK ELSE ack) = s
      /\ (IF pc' \in {"loop", "request"} \/ response_count' = 0 THEN OK ELSE ack') = s
  BY <1>1
<1>6. s # OK \/ Len(cmd.entries) - response_count = 0
  BY <1>1, <1>2, CommandFacts DEF CountInv, TypeOK
<1>7. response_ack = IF cmd.kind = "abort" \/ response_count = 0 THEN 0 ELSE s
  BY <1>1, <1>2 DEF CountInv
<1> HIDE DEF s
<1> QED BY <1>1, <1>4, <1>5, <1>6, <1>7, SameWords DEF Host!Reply, Host!Remaining

\* The target's own steps.
LEMMA RunsSeen ==
  ASSUME TransferInv, TargetRuns
  PROVE  Host!TargetRuns
<1>1. UNCHANGED <<pc, cmd, response, ack, response_count, words, nwords, mask_value>>
  BY DEF TargetRuns, local, out
<1>2. \E w \in Status : SeenTarget' = [SeenTarget EXCEPT !.reg[<<"DP", 1>>] = w]
  BY RunsInv
<1> QED BY <1>1, <1>2 DEF Host!TargetRuns

\* The word on the wire in the last transaction of a read is the one asked
\* for, wherever it was posted and however it is fetched.
LEMMA LastTransaction ==
  ASSUME TransferInv, Reads, PIPELINEDAPREAD \notin flags
  PROVE  Sent = Value(SeenTarget, Current.req.access)
<1>1. /\ TypeOK /\ CountInv /\ RequestInv /\ PostedInv /\ Active /\ Decoded
      /\ transfer_request.access.dir = "R"
  BY DEF TransferInv, Active, Decoded, Reads
<1>2. /\ transfer_request = Current.req
      /\ swd_request = IF Morphed THEN RDBUFF ELSE transfer_request.access
  BY <1>1 DEF RequestInv
<1>3. transfer_request.access \in Access /\ transfer_request.access # RDBUFF
  BY <1>1, <1>2, CurrentFacts
<1>4. CASE transfer_request.access.port = "AP"
  <2>1. rdbuff = Value(SeenTarget, transfer_request.access)
    BY <1>1, <1>4 DEF PostedInv, Posted
  <2>2. swd_request.port = "AP" \/ swd_request = RDBUFF
    BY <1>2, <1>4
  <2> QED BY <1>2, <2>1, <2>2 DEF Sent
<1>5. CASE transfer_request.access.port = "DP"
  <2>1. transfer_request.access # ReadDRW
    BY <1>5 DEF ReadDRW
  <2>2. swd_request = transfer_request.access
    BY <1>2, <2>1 DEF Morphed
  <2>3. Owed = 0
    BY <2>1 DEF Owed
  <2>4. SeenTarget = target
    BY <1>1, <2>3, SeenFacts
  <2> QED BY <1>2, <1>3, <1>5, <2>2, <2>4 DEF Sent
<1> QED BY <1>3, <1>4, <1>5 DEF Access

\* How far the target has got with a read of DRW, and what of it is seen.
LEMMA DrwTransaction ==
  ASSUME TransferInv, Reads, PIPELINEDAPREAD \notin flags, transfer_request.access = ReadDRW
  PROVE  /\ Owed = 1
         /\ Morphed => target' = target
         /\ ~Morphed => /\ cmd.kind = "block" /\ TRANSFERBLOCK \in flags /\ transfer_count > 1
                        /\ target' = [target EXCEPT !.tar = Ahead(target, 1)]
                        /\ Owed' = 1 => SeenTarget' = target
<1>1. TypeOK /\ CountInv /\ FlagsInv /\ RequestInv /\ Active /\ Decoded /\ pc = "request"
  BY DEF TransferInv, Active, Decoded, Reads
<1>2. Owed = 1
  BY <1>1 DEF Owed
<1>3. swd_request = IF Morphed THEN RDBUFF ELSE ReadDRW
  BY <1>1 DEF RequestInv
<1>4. Morphed => target' = target
  <2>1. RDBUFF # ReadDRW
    BY DEF RDBUFF, ReadDRW
  <2> QED BY <1>3, <2>1, ReadTarget
<1>5. ASSUME ~Morphed
      PROVE  /\ cmd.kind = "block" /\ TRANSFERBLOCK \in flags /\ transfer_count > 1
             /\ target' = [target EXCEPT !.tar = Ahead(target, 1)]
             /\ Owed' = 1 => SeenTarget' = target
  <2>1. cmd.kind # "transfer" /\ transfer_count # 1
    BY <1>5 DEF Morphed
  <2>2. cmd.kind # "abort"
    <3>1. cmd.kind = "abort" => cmd.entries[1].req.access.dir = "W"
      BY <1>1, CommandFacts DEF LegalCommand, WriteABORT
    <3>2. cmd.kind = "abort" => transfer_request = cmd.entries[1].req
      BY <1>1, CurrentFacts DEF RequestInv
    <3> QED BY <3>1, <3>2 DEF ReadDRW
  <2>3. cmd.kind = "block"
    BY <1>1, <2>1, <2>2, CommandFacts
  <2>4. TRANSFERBLOCK \in flags /\ transfer_count > 1
    BY <1>1, <2>1, <2>3 DEF FlagsInv, CountInv, TypeOK
  <2>5. swd_request = ReadDRW
    BY <1>3, <1>5
  <2> QED BY <2>3, <2>4, <2>5, ReadTarget
<1> QED BY <1>2, <1>4, <1>5

\* A read: of its transactions the debugger sees the one that ends it.
LEMMA ReadsSeen ==
  ASSUME TransferInv, Reads
  PROVE  Host!Make \/ Host!Fail \/ UNCHANGED Host!vars
<1>1. /\ TypeOK /\ CountInv /\ FlagsInv /\ RequestInv /\ Active /\ Decoded /\ pc = "request"
      /\ transfer_request.access.dir = "R" /\ UNCHANGED response
  BY DEF TransferInv, Active, Decoded, Reads, AfterData
<1>2. PICK a \in {OK, PARITY} :
        /\ AfterData(a)
        /\ \E w \in Word : words' = [words EXCEPT ![nwords + 1] = w] /\ (a = OK => w = Sent)
  <2>1. Sent \in Word
    BY ReadTarget
  <2>2. PARITY # OK
    BY DEF PARITY, OK
  <2> QED BY <2>1, <2>2 DEF Reads
<1>3. PICK w \in Word : words' = [words EXCEPT ![nwords + 1] = w] /\ (a = OK => w = Sent)
  BY <1>2
<1>4. nwords + 1 \in Slots
  BY <1>1, RoomForRead
<1>5. /\ SubSeq(words', 1, nwords) = SubSeq(words, 1, nwords)
      /\ SubSeq(words', 1, nwords + 1) = Append(SubSeq(words, 1, nwords), w)
      /\ words'[nwords + 1] = w
  BY <1>1, <1>3, <1>4, Results
<1>6. /\ flags' = flags \ {PIPELINEDAPREAD}
      /\ UNCHANGED <<cmd, transfer_request, match_value, mask_value>>
      /\ transfer_request = Current.req
  BY <1>1, <1>2, AfterDataCases
<1>7. target \in TargetType(Word) /\ target' \in TargetType(Word) /\ SeenTarget \in TargetType(Word)
      /\ Current.req.access \in Access /\ ~MaskWrite(Current.req)
  BY <1>1, <1>6, ReadTarget, SeenFacts, CurrentFacts DEF TypeOK, RequestInv
<1>8. Current.req.access # ReadDRW => Owed = 0 /\ Owed' = 0 /\ target' = target /\ SeenTarget = target /\ SeenTarget' = target
  <2> SUFFICES ASSUME Current.req.access # ReadDRW
               PROVE  Owed = 0 /\ Owed' = 0 /\ target' = target /\ SeenTarget = target /\ SeenTarget' = target
    OBVIOUS
  <2>1. Owed = 0 /\ Owed' = 0
    BY <1>6 DEF Owed
  <2>2. swd_request = Current.req.access
    BY <1>1, <1>6 DEF RequestInv, Morphed
  <2>3. target' = target
    BY <2>2, ReadTarget
  <2> QED BY <1>1, <1>7, <2>1, <2>3, SeenFacts, NothingOwed
<1>9. CASE Again(a)
  <2>1. /\ UNCHANGED <<pc, transfer_count, response_count, nwords>>
        /\ PIPELINEDAPREAD \in flags \/ MatchRead(transfer_request)
    BY <1>9 DEF Again
  <2>2. ASSUME Current.req.access = ReadDRW PROVE SeenTarget' = SeenTarget
    <3>1. Owed' = 1
      BY <1>1, <1>6, <2>1, <2>2 DEF Owed
    <3>2. CASE PIPELINEDAPREAD \in flags
      <4>1. Owed = 0
        BY <3>2 DEF Owed
      <4>2. swd_request = ReadDRW
        BY <1>1, <1>6, <2>2, <3>2 DEF RequestInv, Morphed
      <4> QED BY <1>1, <3>1, <4>1, <4>2, ReadTarget, SeenFacts
    <3>3. CASE PIPELINEDAPREAD \notin flags
      <4>1. MatchRead(transfer_request)
        BY <2>1, <3>3
      <4>2. cmd.kind = "transfer"
        BY <1>1, <1>6, <4>1, CurrentFacts DEF MatchRead
      <4>3. Morphed
        BY <1>6, <2>2, <3>3, <4>2 DEF Morphed
      <4>4. target' = target /\ Owed = 1
        BY <1>6, <2>2, <3>3, <4>3, DrwTransaction
      <4> QED BY <3>1, <4>4 DEF SeenTarget, Ahead
    <3> QED BY <3>2, <3>3
  <2>3. SeenTarget' = SeenTarget
    BY <1>8, <2>2
  <2>4. Active'
    BY <1>1, <2>1 DEF Active
  <2> QED BY <1>1, <1>5, <1>6, <2>1, <2>3, <2>4, UnseenStep
\* The word arrived and is what was wanted.
<1>10. ASSUME a = OK, Finish(OK, transfer_request), PIPELINEDAPREAD \notin flags,
              MatchRead(transfer_request) => Masked(words'[nwords + 1], mask_value) = Current.data
       PROVE  Host!Make
  <2>1. w = Value(SeenTarget, Current.req.access)
    BY <1>3, <1>10, LastTransaction
  <2>2. MatchRead(Current.req) => Masked(Value(SeenTarget, Current.req.access), mask_value) = Current.data
    BY <1>5, <1>6, <1>10, <2>1
  <2>3. nwords' = IF PlainRead(Current.req) THEN nwords + 1 ELSE nwords
    <3>1. cmd.kind # "abort"
      <4>1. cmd.kind = "abort" => cmd.entries[1].req.access.dir = "W"
        BY <1>1, CommandFacts DEF LegalCommand, WriteABORT
      <4>2. cmd.kind = "abort" => transfer_request = cmd.entries[1].req
        BY <1>1, <1>6, CurrentFacts
      <4> QED BY <1>1, <4>1, <4>2
    <3>2. WRITEABORT \notin flags
      BY <1>1, <3>1 DEF FlagsInv
    <3> QED BY <1>6, <1>10, <3>2 DEF Finish
  <2>4. SubSeq(words', 1, nwords') = IF PlainRead(Current.req)
                                     THEN Append(SubSeq(words, 1, nwords), Value(SeenTarget, Current.req.access))
                                     ELSE SubSeq(words, 1, nwords)
    BY <1>5, <2>1, <2>3
  <2>5. SeenTarget' = After(SeenTarget, Current.req.access, Current.data)
    <3>1. CASE Current.req.access # ReadDRW
      <4>1. After(SeenTarget, Current.req.access, Current.data) = SeenTarget
        BY <1>1, <1>6, <1>7, <3>1, OtherRead
      <4> QED BY <1>8, <3>1, <4>1
    <3>2. CASE Current.req.access = ReadDRW
      <4>1. Owed = 1
        BY <1>6, <1>10, <3>2, DrwTransaction
      <4>2. After(SeenTarget, Current.req.access, Current.data) = target
        <5>1. After(SeenTarget, ReadDRW, Current.data) = [SeenTarget EXCEPT !.tar = Ahead(SeenTarget, 1)]
          BY <1>7, DrwRead
        <5> QED BY <1>1, <3>2, <4>1, <5>1, SeenFacts
      <4>3. CASE Morphed
        <5>1. target' = target
          BY <1>6, <1>10, <3>2, <4>3, DrwTransaction
        <5>2. pc' \in {"loop", "reply"} /\ (pc' = "loop" => transfer_count > 1)
          <6>1. OK \in 0..31
            BY DEF OK
          <6> QED BY <1>1, <1>6, <1>10, <6>1, FinishCounts
        <5>3. cmd.kind = "transfer" \/ transfer_count = 1
          BY <4>3 DEF Morphed
        <5>4. Owed' = 0
          <6>1. pc' = "loop" => TRANSFERBLOCK \notin flags'
            BY <1>1, <1>6, <5>2, <5>3 DEF FlagsInv
          <6> QED BY <5>2, <6>1 DEF Owed
        <5> QED BY <1>7, <4>2, <5>1, <5>4, NothingOwed
      <4>4. CASE ~Morphed
        <5>1. TRANSFERBLOCK \in flags /\ transfer_count > 1 /\ (Owed' = 1 => SeenTarget' = target) /\ cmd.kind = "block"
          BY <1>6, <1>10, <3>2, <4>4, DrwTransaction
        <5>2. pc' = "loop" /\ response_count' > 0
          <6>1. response_count' = response_count + 1 /\ transfer_count' = transfer_count - 1
            BY <1>10 DEF Finish
          <6>2. WRITEABORT \notin flags
            BY <1>1, <5>1 DEF FlagsInv
          <6> QED BY <1>1, <1>10, <5>1, <6>1, <6>2 DEF Finish, TypeOK
        <5>3. TRANSFERBLOCK \in flags' /\ PIPELINEDAPREAD \notin flags'
          BY <1>6, <5>1 DEF TRANSFERBLOCK, PIPELINEDAPREAD
        <5>4. Owed' = 1
          BY <1>6, <3>2, <5>2, <5>3 DEF Owed
        <5> QED BY <4>2, <5>1, <5>4
      <4> QED BY <4>3, <4>4
    <3> QED BY <3>1, <3>2
  <2> QED BY <1>1, <1>6, <1>7, <1>10, <2>2, <2>4, <2>5, MakeStep
\* It did not.
<1>11. ASSUME NEW b, b \in {PARITY} \cup (IF MatchRead(Current.req) THEN {OK + MISMATCH, PARITY + MISMATCH} ELSE {}),
              Finish(b, transfer_request), PIPELINEDAPREAD \notin flags
       PROVE  Host!Fail
  <2>1. /\ b \in 0..31 /\ b # OK
        /\ b \in {WAIT, FAULT} \cup (IF Current.req.access.dir = "R" THEN {PARITY} ELSE {})
                 \cup (IF MatchRead(Current.req) THEN {OK + MISMATCH, PARITY + MISMATCH} ELSE {})
    BY <1>1, <1>6, <1>11 DEF OK, PARITY, MISMATCH
  <2>2. pc' = "reply"
    BY <1>1, <1>6, <1>11, <2>1, FinishCounts
  <2>3. SeenTarget' = target'
    <3>1. Owed' = 0
      BY <2>2 DEF Owed
    <3> QED BY <1>7, <3>1, NothingOwed
  <2>4. 0 \in 0..2 /\ 1 \in 0..2 /\ 2 \in 0..2 /\ ~(0 > 0) /\ ~(0 > 1) /\ ~(1 > 1)
    OBVIOUS
  <2>5. CASE Current.req.access # ReadDRW
    <3>1. [target EXCEPT !.tar = Ahead(target, 0)] = target
      <4>1. target.tar \in 0..(MemSize - 1) /\ target = [mem |-> target.mem, tar |-> target.tar, reg |-> target.reg]
        BY <1>7 DEF TargetType
      <4>2. Ahead(target, 0) = target.tar
        BY <4>1, BackAndForth DEF Ahead
      <4> QED BY <4>1, <4>2
    <3>2. SeenTarget' = [SeenTarget EXCEPT !.tar = Ahead(SeenTarget, 0)]
      BY <1>8, <2>5, <3>1
    <3> QED BY <1>1, <1>5, <1>6, <1>11, <2>1, <2>4, <3>2, FailStep
  <2>6. CASE Current.req.access = ReadDRW /\ Morphed
    <3>1. SeenTarget' = [SeenTarget EXCEPT !.tar = Ahead(SeenTarget, 1)]
      BY <1>1, <1>6, <1>11, <2>3, <2>6, DrwTransaction, SeenFacts
    <3> QED BY <1>1, <1>5, <1>6, <1>11, <2>1, <2>4, <2>6, <3>1, FailStep
  <2>7. CASE Current.req.access = ReadDRW /\ ~Morphed
    <3>1. Owed = 1 /\ transfer_count > 1 /\ target' = [target EXCEPT !.tar = Ahead(target, 1)]
      BY <1>6, <1>11, <2>7, DrwTransaction
    <3>2. /\ Ahead(SeenTarget, 1) = target.tar
          /\ [SeenTarget EXCEPT !.tar = target.tar] = target
      BY <1>1, <3>1, SeenFacts
    <3>3. Ahead(SeenTarget, 2) = Ahead(target, 1)
      <4>1. SeenTarget.tar \in 0..(MemSize - 1)
        BY <1>7 DEF TargetType
      <4> QED BY <3>2, <4>1, AheadTwice DEF Ahead
    <3>4. SeenTarget' = [SeenTarget EXCEPT !.tar = Ahead(SeenTarget, 2)]
      <4> DEFINE k == Ahead(target, 1)
      <4>1. target' = [target EXCEPT !.tar = k] /\ Ahead(SeenTarget, 2) = k
        BY <3>1, <3>3
      <4> HIDE DEF k
      <4>2. SeenTarget = [mem |-> SeenTarget.mem, tar |-> SeenTarget.tar, reg |-> SeenTarget.reg]
        BY <1>7 DEF TargetType
      <4>3. target = [mem |-> SeenTarget.mem, tar |-> target.tar, reg |-> SeenTarget.reg]
        BY <3>2, <4>2
      <4>4. target' = [mem |-> SeenTarget.mem, tar |-> k, reg |-> SeenTarget.reg]
        BY <4>1, <4>3
      <4>5. [SeenTarget EXCEPT !.tar = k] = [mem |-> SeenTarget.mem, tar |-> k, reg |-> SeenTarget.reg]
        BY <4>2
      <4>6. SeenTarget' = [SeenTarget EXCEPT !.tar = k]
        BY <2>3, <4>4, <4>5
      <4> QED BY <4>1, <4>6
    <3> QED BY <1>1, <1>5, <1>6, <1>11, <2>1, <2>4, <2>7, <3>1, <3>4, FailStep
  <2> QED BY <2>5, <2>6, <2>7
<1>12. CASE Finish(a, transfer_request) /\ PIPELINEDAPREAD \notin flags
            /\ (MatchRead(transfer_request) => Masked(words'[nwords + 1], mask_value) = Current.data)
  <2>1. CASE a = OK
    BY <1>10, <1>12, <2>1
  <2>2. CASE a = PARITY
    BY <1>11, <1>12, <2>2
  <2> QED BY <2>1, <2>2
<1>13. CASE Finish(a + MISMATCH, transfer_request) /\ PIPELINEDAPREAD \notin flags /\ MatchRead(transfer_request)
  BY <1>6, <1>11, <1>13
<1> QED BY <1>1, <1>2, <1>9, <1>12, <1>13, AfterDataCases

\* The safety of the contract: to the debugger every request is made once and
\* in order, the first failure ends the command, the response carries the words
\* of the plain reads, and posting, pipelining, RDBUFF and retries do not show.
\* (That a command is always answered is liveness, and is only model-checked.)
THEOREM TransferImplementsHost == Spec => Host!Init /\ [][Host!Next]_(Host!vars)
<1>1. ASSUME TransferInv, [Next]_vars PROVE [Host!Next]_(Host!vars)
  <2>1. CASE \E c \in Commands : Receive(c)
    BY <1>1, <2>1, ReceiveIssues DEF Host!Next
  <2>2. CASE Decode
    BY <1>1, <2>2, DecodeSeen DEF Host!Next, Host!Work
  <2>3. CASE OmitDecode
    BY <1>1, <2>3, OmitSeen
  <2>4. CASE Waits
    BY <1>1, <2>4, WaitsSeen DEF Host!Next, Host!Work
  <2>5. CASE Faults
    BY <1>1, <2>5, FaultsSeen DEF Host!Next, Host!Work
  <2>6. CASE Writes
    BY <1>1, <2>6, WritesSeen DEF Host!Next, Host!Work
  <2>7. CASE Reads
    BY <1>1, <2>7, ReadsSeen DEF Host!Next, Host!Work
  <2>8. CASE Respond
    BY <1>1, <2>8, RespondSeen DEF Host!Next, Host!Work
  <2>9. CASE TargetRuns
    BY <1>1, <2>9, RunsSeen DEF Host!Next
  <2>10. CASE UNCHANGED vars
    BY <2>10 DEF vars, local, out, Host!vars, SeenTarget, Ahead, Owed
  <2> QED BY <1>1, <2>1, <2>2, <2>3, <2>4, <2>5, <2>6, <2>7, <2>8, <2>9, <2>10 DEF Next, Work, Transaction
<1> QED BY <1>1, InitHost, TransferInvariant, PTL DEF Spec
=============================================================================
