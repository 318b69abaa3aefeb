------------------------- MODULE ScriptReplaySafety -------------------------
(***************************************************************************)
(* Why a replay never diverges.  What a line of the script is told is      *)
(* determined by the program and the records: the n-th reading of the      *)
(* program is the n-th on record, the k-th call of the program is document *)
(* k, and an await is answered by the calls deferred since the last one.   *)
(* So the histories of two executions agree as far as both go.  IInv says  *)
(* this of every document and of the execution as long as it is not        *)
(* locked, for any program, any values and any number of restarts.         *)
(***************************************************************************)
EXTENDS ScriptReplay, SequenceTheorems, FiniteSetTheorems, WellFoundedInduction, TLAPS

-----------------------------------------------------------------------------
(* What the program says by itself.                                        *)

IsCall(p) == Program[p] \in {"call", "defer"}

\* The calls and the readings of the first p lines.
CallNo(p) == Cardinality({q \in 1 .. p : IsCall(q)})
ReadNo(p) == Cardinality({q \in 1 .. p : Program[q] = "read"})

\* The calls that answer line p.
Deferred(p) ==
    {q \in 1 .. p - 1 : Program[q] = "defer" /\ \A r \in q + 1 .. p - 1 : Program[r] # "await"}
Awaited(p) ==
    IF Program[p] = "call" THEN {CallNo(p)}
    ELSE IF Program[p] = "await" THEN {CallNo(q) : q \in Deferred(p)}
    ELSE {}

\* Readings R and documents D say what line p is told.
Foretold(entry, p, R, D) ==
    IF Program[p] = "read"
    THEN /\ ReadNo(p) \in DOMAIN R
         /\ entry = [of |-> "read", told |-> <<R[ReadNo(p)]>>]
    ELSE /\ \A k \in Awaited(p) : k \in DOMAIN D /\ D[k].result \in Values
         /\ entry = [of |-> "call", told |-> [k \in Awaited(p) |-> D[k].result]]

\* A history that is what the readings and the documents say.
OnRecord(history, R, D) ==
    /\ Len(history) <= Len(Program)
    /\ ReadNo(Len(history)) <= Len(R)
    /\ \A p \in DOMAIN history : Foretold(history[p], p, R, D)

\* The line behind the history makes call k.
MakesCall(history, k) ==
    /\ Len(history) < Len(Program)
    /\ IsCall(Len(history) + 1)
    /\ CallNo(Len(history) + 1) = k

-----------------------------------------------------------------------------
(* The inductive invariant: of the readings on record, the documents and   *)
(* an execution `h' it speaks of three values, M, D and h.                 *)

Recorded(M) == FlattenSeq(M)
AllReadings(h, M) == Recorded(M) \o h.pending
Behind(h, k) == Len(h.calls[k].args)

\* A document has the history of its line; a result is there when the task is over.
DocsSound ==
    \A i \in Call :
        /\ MakesCall(docs[i].args, i)
        /\ OnRecord(docs[i].args, Recorded(memos), docs)
        /\ docs[i].result # "none" => nested[i] = "over"

\* The calls are those of the program, each made behind a part of the history,
\* also when the host is locked.
Waits(h) == \E k \in DOMAIN h.calls : ~h.calls[k].deferred /\ h.calls[k].at # "delivered"
CallInOrder(h, k) ==
    /\ MakesCall(h.calls[k].args, k)
    /\ Behind(h, k) <= Len(h.history)
    /\ \A p \in DOMAIN h.calls[k].args : h.calls[k].args[p] = h.history[p]
    /\ h.calls[k].deferred <=> Program[Behind(h, k) + 1] = "defer"
    /\ h.calls[k].deferred =>
        /\ Behind(h, k) < Len(h.history)
        /\ h.calls[k].at = "delivered" <=>
            \E r \in Behind(h, k) + 2 .. Len(h.history) : Program[r] = "await"
    /\ ~h.calls[k].deferred =>
        (h.calls[k].at = "delivered" <=> Behind(h, k) < Len(h.history))
CallsInOrder(h) ==
    /\ Len(h.calls) = CallNo(Len(h.history)) + (IF Waits(h) THEN 1 ELSE 0)
    /\ \A k \in DOMAIN h.calls : CallInOrder(h, k)

\* Where a call stands, also when the host is locked: only a call behind the
\* records has flushed, and it is the next document.
CallPlaced(h, k, M, D) ==
    /\ h.calls[k].at = "reserved" /\ k > h.recorded => k > Len(D)
    /\ h.calls[k].at = "admitted" => k <= Len(D)
    /\ h.calls[k].at = "flushed" => k = Len(D) + 1 /\ OnRecord(h.calls[k].args, Recorded(M), D)
    /\ h.calls[k].at = "answered" => h.calls[k].reply # "none"
CallsPlaced(h, M, D) ==
    /\ h.recorded <= Len(D)
    /\ Len(D) <= h.recorded \/ Len(D) <= Len(h.calls)
    /\ \A k \in DOMAIN h.calls : CallPlaced(h, k, M, D)

\* What was read so far: a part of the replay log, or all of it and more.
ReadingsInOrder(h, M) ==
    /\ h.batches = Len(M)
    /\ h.read <= Len(h.replay)
    /\ Len(h.replay) <= Len(Recorded(M))
    /\ \A n \in DOMAIN h.replay : h.replay[n] = Recorded(M)[n]
    /\ h.read < Len(h.replay) => h.pending = <<>> /\ Len(Recorded(M)) = Len(h.replay)
    /\ ReadNo(Len(h.history)) =
        IF h.read < Len(h.replay) THEN h.read ELSE Len(AllReadings(h, M))

\* An admitted call is its document, an answer the result in it.
CallAsRecorded(h, k, D) ==
    /\ h.calls[k].at \in {"admitted", "answered", "delivered"} =>
        k \in DOMAIN D /\ D[k].args = h.calls[k].args
    /\ h.calls[k].at \in {"answered", "delivered"} =>
        h.calls[k].reply = D[k].result /\ h.calls[k].reply \in Values
    /\ h.phase = "closing" => h.calls[k].at \in {"answered", "delivered"}
CallsAsRecorded(h, D) == \A k \in DOMAIN h.calls : CallAsRecorded(h, k, D)

\* As long as nothing locks the host.
ExecutionSound(h, M, D) ==
    /\ OnRecord(h.history, AllReadings(h, M), D)
    /\ ReadingsInOrder(h, M)
    /\ CallsAsRecorded(h, D)

HostSound(h, M, D) ==
    /\ h.fatal # "diverged"
    /\ CallsInOrder(h)
    /\ CallsPlaced(h, M, D)
    /\ h.fatal = "no" => ExecutionSound(h, M, D)

IInv ==
    /\ TypeOK
    /\ DocsSound
    /\ host # Off => HostSound(host, memos, docs)
    /\ CompletedAsRecorded

-----------------------------------------------------------------------------
(* Numbers of calls and readings.                                          *)

\* A set of natural numbers that is not empty has a least element.
LEMMA Least ==
    ASSUME NEW S \in SUBSET Nat, S # {}
    PROVE  \E m \in S : \A n \in S : m <= n
  <1> DEFINE Less == {pair \in Nat \X Nat : pair[1] < pair[2]}
  <1>1. IsWellFoundedOn(Less, Nat)
    BY NatLessThanWellFounded DEF OpToRel
  <1>2. PICK m \in S : \A n \in S : ~(<<n, m>> \in Less)
    <2> HIDE DEF Less
    <2> QED
      BY <1>1, WFMin
  <1>3. ASSUME NEW n \in S PROVE m <= n
    <2>1. <<n, m>> \in Nat \X Nat /\ <<n, m>>[1] = n /\ <<n, m>>[2] = m
      OBVIOUS
    <2>2. ~(n < m)
      BY <1>2, <2>1
    <2> QED
      BY <2>2
  <1> QED
    BY <1>3

\* How many of the first p numbers are in a set.
CountIn(S, p) == Cardinality({q \in 1 .. p : q \in S})

\* Counting goes on by one.
LEMMA Count ==
    ASSUME NEW S, NEW p \in Nat
    PROVE  /\ CountIn(S, p) \in Nat /\ CountIn(S, p) <= p
           /\ CountIn(S, 0) = 0
           /\ CountIn(S, p + 1) = CountIn(S, p) + (IF p + 1 \in S THEN 1 ELSE 0)
  <1> DEFINE First(n) == {q \in 1 .. n : q \in S}
  <1>1. IsFiniteSet(1 .. p) /\ First(p) \subseteq 1 .. p
    BY FS_Interval
  <1>2. IsFiniteSet(First(p))
    BY <1>1, FS_Subset
  <1>3. Cardinality(First(p)) \in Nat /\ Cardinality(First(p)) <= p
    <2>1. Cardinality(1 .. p) = p
      BY FS_Interval
    <2> HIDE DEF First
    <2> QED
      BY <1>1, <1>2, <2>1, FS_CardinalityType, FS_Subset
  <1>4. First(0) = {} /\ Cardinality({}) = 0
    BY FS_EmptySet
  <1>5. Cardinality(First(p + 1)) = Cardinality(First(p)) + (IF p + 1 \in S THEN 1 ELSE 0)
    <2>1. CASE p + 1 \in S
      <3>1. First(p + 1) = First(p) \cup {p + 1} /\ p + 1 \notin First(p)
        BY <2>1
      <3>2. Cardinality(First(p) \cup {p + 1}) = Cardinality(First(p)) + 1
        <4> HIDE DEF First
        <4> QED
          BY <1>2, <3>1, FS_AddElement
      <3> QED
        BY <2>1, <3>1, <3>2
    <2>2. CASE p + 1 \notin S
      <3>1. First(p + 1) = First(p)
        BY <2>2
      <3> QED
        BY <1>3, <2>2, <3>1
    <2> QED
      BY <2>1, <2>2
  <1> QED
    BY <1>3, <1>4, <1>5 DEF CountIn

\* Of more numbers at least as many.
LEMMA CountGrows ==
    ASSUME NEW S, NEW p \in Nat, NEW q \in Nat, p <= q
    PROVE  /\ CountIn(S, p) <= CountIn(S, q)
           /\ p < q /\ q \in S => CountIn(S, p) < CountIn(S, q)
  <1>1. ASSUME NEW b \in Nat, p <= b
        PROVE  CountIn(S, p) <= CountIn(S, b)
    <2> DEFINE A == {n \in 1 .. p : n \in S}
               B == {n \in 1 .. b : n \in S}
    <2>1. A \subseteq B /\ B \subseteq 1 .. b /\ IsFiniteSet(1 .. b)
      BY <1>1, FS_Interval
    <2>2. IsFiniteSet(B)
      BY <2>1, FS_Subset
    <2>3. Cardinality(A) <= Cardinality(B)
      <3> HIDE DEF A, B
      <3> QED
        BY <2>1, <2>2, FS_Subset
    <2> QED
      BY <2>3 DEF CountIn
  <1>2. ASSUME p < q, q \in S
        PROVE  CountIn(S, p) < CountIn(S, q)
    <2>1. q - 1 \in Nat /\ p <= q - 1 /\ (q - 1) + 1 = q
      BY <1>2
    <2>2. CountIn(S, q) = CountIn(S, q - 1) + 1
      BY <1>2, <2>1, Count
    <2>3. CountIn(S, p) <= CountIn(S, q - 1)
      BY <1>1, <2>1
    <2>4. CountIn(S, p) \in Nat /\ CountIn(S, q - 1) \in Nat
      BY <2>1, Count
    <2> QED
      BY <2>2, <2>3, <2>4
  <1> QED
    BY <1>1, <1>2

\* Calls of the program, counted.
LEMMA CallNumbers ==
    ASSUME NEW p \in Nat
    PROVE  /\ CallNo(p) \in Nat /\ CallNo(0) = 0 /\ CallNo(p) <= p
           /\ CallNo(p + 1) = CallNo(p) + (IF IsCall(p + 1) THEN 1 ELSE 0)
           /\ \A q \in Nat : p <= q => CallNo(p) <= CallNo(q)
           /\ \A q \in Nat : p < q /\ IsCall(q) => CallNo(p) < CallNo(q)
  <1> DEFINE S == {q \in Nat : IsCall(q)}
  <1>1. ASSUME NEW n \in Nat PROVE CallNo(n) = CountIn(S, n)
    <2>1. {q \in 1 .. n : IsCall(q)} = {q \in 1 .. n : q \in S}
      OBVIOUS
    <2> QED
      BY <2>1 DEF CallNo, CountIn
  <1>2. \A q \in Nat : q \in S <=> IsCall(q)
    OBVIOUS
  <1> HIDE DEF S
  <1> QED
    BY <1>1, <1>2, Count, CountGrows

\* Readings of the program, counted.
LEMMA ReadNumbers ==
    ASSUME NEW p \in Nat
    PROVE  /\ ReadNo(p) \in Nat /\ ReadNo(0) = 0
           /\ ReadNo(p + 1) = ReadNo(p) + (IF Program[p + 1] = "read" THEN 1 ELSE 0)
           /\ \A q \in Nat : p <= q => ReadNo(p) <= ReadNo(q)
  <1> DEFINE S == {q \in Nat : Program[q] = "read"}
  <1>1. ASSUME NEW n \in Nat PROVE ReadNo(n) = CountIn(S, n)
    <2>1. {q \in 1 .. n : Program[q] = "read"} = {q \in 1 .. n : q \in S}
      OBVIOUS
    <2> QED
      BY <2>1 DEF ReadNo, CountIn
  <1>2. \A q \in Nat : q \in S <=> Program[q] = "read"
    OBVIOUS
  <1> HIDE DEF S
  <1> QED
    BY <1>1, <1>2, Count, CountGrows

\* A call number belongs to one line.
LEMMA OneLine ==
    ASSUME NEW p \in Nat, NEW q \in Nat, IsCall(p), IsCall(q), CallNo(p) = CallNo(q)
    PROVE  p = q
  <1>1. CallNo(p) \in Nat /\ CallNo(q) \in Nat
    BY CallNumbers
  <1>2. ~(p < q) /\ ~(q < p)
    BY <1>1, CallNumbers, SMTT(30)
  <1> QED
    BY <1>2

-----------------------------------------------------------------------------
(* Batches of readings.                                                    *)

\* What FlattenSeq computes, as a function.
Flat(s, i, f) == IF i = 1 THEN s[i] ELSE f[i - 1] \o s[i]
IsFlat(f, s, n) == \A i \in 1 .. n : f[i] = Flat(s, i, f)

\* There is such a function for the first n batches, and its values are sequences.
LEMMA FlatExists ==
    ASSUME NEW s \in Seq(Seq(Values)), NEW n \in 0 .. Len(s)
    PROVE  \E f \in [1 .. n -> Seq(Values)] : IsFlat(f, s, n)
  <1> DEFINE Has(m) == \E f \in [1 .. m -> Seq(Values)] : IsFlat(f, s, m)
             Bad == {m \in 0 .. Len(s) : ~Has(m)}
  <1>1. Has(0)
    <2>1. <<>> \in [1 .. 0 -> Seq(Values)] /\ IsFlat(<<>>, s, 0)
      BY DEF IsFlat
    <2> QED
      BY <2>1
  <1>2. ASSUME NEW m \in 0 .. Len(s), m + 1 \in 0 .. Len(s), Has(m)
        PROVE  Has(m + 1)
    <2>1. PICK f \in [1 .. m -> Seq(Values)] : IsFlat(f, s, m)
      BY <1>2
    <2> DEFINE last == IF m = 0 THEN s[1] ELSE f[m] \o s[m + 1]
               g == [i \in 1 .. m + 1 |-> IF i = m + 1 THEN last ELSE f[i]]
    <2>2. last \in Seq(Values)
      <3>1. s[m + 1] \in Seq(Values) /\ (m # 0 => f[m] \in Seq(Values))
        BY <1>2
      <3> QED
        BY <3>1, ConcatProperties
    <2>3. g \in [1 .. m + 1 -> Seq(Values)]
      <3> HIDE DEF last
      <3> QED
        BY <2>2
    <2>4. ASSUME NEW i \in 1 .. m + 1 PROVE g[i] = Flat(s, i, g)
      <3>1. CASE i = m + 1
        <4>1. CASE m = 0
          BY <3>1, <4>1 DEF Flat
        <4>2. CASE m # 0
          <5>1. g[i] = last /\ g[m] = f[m] /\ i - 1 = m
            <6> HIDE DEF last
            <6> QED
              BY <3>1, <4>2
          <5>2. last = f[m] \o s[m + 1]
            BY <4>2
          <5>3. i # 1 /\ s[i] = s[m + 1]
            BY <3>1, <4>2
          <5> HIDE DEF last, g
          <5>4. g[i - 1] = f[m] /\ g[i] = f[m] \o s[i]
            BY <5>1, <5>2, <5>3
          <5> QED
            BY <5>3, <5>4 DEF Flat
        <4> QED
          BY <4>1, <4>2
      <3>2. CASE i # m + 1
        <4>1. i \in 1 .. m /\ g[i] = f[i] /\ (i # 1 => g[i - 1] = f[i - 1])
          <5> HIDE DEF last
          <5> QED
            BY <3>2
        <4>2. f[i] = Flat(s, i, f)
          BY <2>1, <4>1 DEF IsFlat
        <4> HIDE DEF g
        <4> QED
          BY <4>1, <4>2 DEF Flat
      <3> QED
        BY <3>1, <3>2
    <2>5. IsFlat(g, s, m + 1)
      <3> HIDE DEF last, g
      <3> QED
        BY <2>4 DEF IsFlat
    <2> HIDE DEF g
    <2> QED
      BY <2>3, <2>5
  <1>3. Bad = {}
    <2> SUFFICES ASSUME Bad # {} PROVE FALSE
      OBVIOUS
    <2> HIDE DEF Has
    <2>1. PICK m \in Bad : \A k \in Bad : m <= k
      <3>1. Bad \in SUBSET Nat
        OBVIOUS
      <3> HIDE DEF Bad
      <3> QED
        BY <3>1, Least
    <2>2. m \in 0 .. Len(s) /\ ~Has(m) /\ m # 0
      BY <1>1
    <2>3. m - 1 \in 0 .. Len(s) /\ Has(m - 1)
      BY <2>1, <2>2
    <2> QED
      BY <1>2, <2>2, <2>3
  <1> QED
    BY <1>3

\* And only one.
LEMMA FlatUnique ==
    ASSUME NEW s, NEW f, NEW g, NEW n \in Nat, IsFlat(f, s, n), IsFlat(g, s, n)
    PROVE  \A i \in 1 .. n : f[i] = g[i]
  <1> DEFINE Bad == {i \in 1 .. n : f[i] # g[i]}
  <1> SUFFICES ASSUME Bad # {} PROVE FALSE
    OBVIOUS
  <1>1. PICK m \in Bad : \A k \in Bad : m <= k
    <2>1. Bad \in SUBSET Nat
      OBVIOUS
    <2> HIDE DEF Bad
    <2> QED
      BY <2>1, Least
  <1>2. m \in 1 .. n /\ f[m] # g[m]
    OBVIOUS
  <1>3. f[m] = Flat(s, m, f) /\ g[m] = Flat(s, m, g)
    BY <1>2 DEF IsFlat
  <1>4. m # 1 => f[m - 1] = g[m - 1]
    <2> SUFFICES ASSUME m # 1 PROVE f[m - 1] = g[m - 1]
      OBVIOUS
    <2>1. m - 1 \in 1 .. n /\ ~(m <= m - 1)
      BY <1>2
    <2> QED
      BY <1>1, <2>1
  <1> QED
    BY <1>2, <1>3, <1>4 DEF Flat

\* FlattenSeq by its function.
LEMMA Flattened ==
    ASSUME NEW s \in Seq(Seq(Values)), Len(s) # 0
    PROVE  \E f \in [1 .. Len(s) -> Seq(Values)] :
                IsFlat(f, s, Len(s)) /\ FlattenSeq(s) = f[Len(s)]
  <1> DEFINE IsF(f) == f = [i \in 1 .. Len(s) |-> IF i = 1 THEN s[i] ELSE f[i - 1] \o s[i]]
             h == CHOOSE f : IsF(f)
  <1>1. FlattenSeq(s) = h[Len(s)]
    BY DEF FlattenSeq
  <1>2. Len(s) \in Nat /\ Len(s) \in 0 .. Len(s) /\ Len(s) \in 1 .. Len(s)
    BY LenProperties
  <1>3. PICK f \in [1 .. Len(s) -> Seq(Values)] : IsFlat(f, s, Len(s))
    BY <1>2, FlatExists
  <1>4. IsF(f)
    BY <1>3 DEF IsFlat, Flat
  <1>5. IsF(h)
    <2> HIDE DEF IsF
    <2> QED
      BY <1>4
  <1>6. IsFlat(h, s, Len(s))
    <2> HIDE DEF h
    <2>1. \A i \in 1 .. Len(s) : h[i] = IF i = 1 THEN s[i] ELSE h[i - 1] \o s[i]
      BY <1>5
    <2> HIDE DEF IsF
    <2> QED
      BY <2>1 DEF IsFlat, Flat
  <1> HIDE DEF h, IsF
  <1>7. \A i \in 1 .. Len(s) : h[i] = f[i]
    BY <1>2, <1>3, <1>6, FlatUnique
  <1> QED
    BY <1>1, <1>2, <1>3, <1>7

\* One more batch goes behind the others.
LEMMA FlattenAppend ==
    ASSUME NEW s \in Seq(Seq(Values)), NEW b \in Seq(Values)
    PROVE  /\ FlattenSeq(<<>>) = <<>>
           /\ FlattenSeq(s) \in Seq(Values)
           /\ FlattenSeq(Append(s, b)) = FlattenSeq(s) \o b
  <1>1. FlattenSeq(<<>>) = <<>>
    BY DEF FlattenSeq
  <1>2. FlattenSeq(s) \in Seq(Values)
    <2>1. CASE Len(s) = 0
      <3>1. s = <<>> /\ <<>> \in Seq(Values)
        BY <2>1, EmptySeq
      <3> QED
        BY <1>1, <3>1
    <2>2. CASE Len(s) # 0
      <3>1. Len(s) \in 1 .. Len(s)
        BY <2>2, LenProperties
      <3>2. PICK f \in [1 .. Len(s) -> Seq(Values)] : FlattenSeq(s) = f[Len(s)]
        BY <2>2, Flattened
      <3> QED
        BY <3>1, <3>2
    <2> QED
      BY <2>1, <2>2
  <1>3. PICK n : n = Len(s)
    OBVIOUS
  <1>4. PICK t : t = Append(s, b)
    OBVIOUS
  <1>5. /\ t \in Seq(Seq(Values)) /\ Len(t) = n + 1 /\ n \in Nat
        /\ \A i \in 1 .. n : t[i] = s[i]
        /\ t[n + 1] = b
    BY <1>3, <1>4, AppendProperties, LenProperties
  <1>6. PICK g \in [1 .. n + 1 -> Seq(Values)] :
            IsFlat(g, t, n + 1) /\ FlattenSeq(t) = g[n + 1]
    <2>1. Len(t) # 0
      BY <1>5
    <2>2. \E g \in [1 .. Len(t) -> Seq(Values)] :
            IsFlat(g, t, Len(t)) /\ FlattenSeq(t) = g[Len(t)]
      BY <1>5, <2>1, Flattened
    <2> QED
      BY <1>5, <2>2
  <1>7. CASE n = 0
    <2>1. s = <<>>
      BY <1>3, <1>7, EmptySeq
    <2>2. g[1] = b
      <3>1. 1 \in 1 .. n + 1 /\ t[1] = b
        BY <1>5, <1>7
      <3> QED
        BY <1>6, <3>1 DEF IsFlat, Flat
    <2>3. <<>> \o b = b
      BY ConcatEmptySeq
    <2>4. FlattenSeq(t) = b
      BY <1>6, <1>7, <2>2
    <2> QED
      BY <1>1, <1>2, <1>4, <2>1, <2>3, <2>4
  <1>8. CASE n # 0
    <2>1. PICK f \in [1 .. n -> Seq(Values)] : IsFlat(f, s, n) /\ FlattenSeq(s) = f[n]
      BY <1>3, <1>8, Flattened
    <2>2. n \in Nat /\ n \in 1 .. n
      BY <1>5, <1>8
    <2>3. \A i \in 1 .. n : s[i] = t[i] /\ g[i] = Flat(t, i, g)
      BY <1>5, <1>6 DEF IsFlat
    <2>4. IsFlat(g, s, n)
      BY <2>3 DEF IsFlat, Flat
    <2>5. \A i \in 1 .. n : f[i] = g[i]
      BY <2>1, <2>2, <2>4, FlatUnique
    <2>6. g[n + 1] = Flat(t, n + 1, g) /\ n + 1 # 1 /\ (n + 1) - 1 = n
      BY <1>5, <1>6, <1>8 DEF IsFlat
    <2>7. g[n + 1] = g[n] \o b
      BY <1>5, <2>6 DEF Flat
    <2> QED
      BY <1>1, <1>2, <1>4, <1>6, <2>1, <2>2, <2>5, <2>7
  <1> QED
    BY <1>1, <1>2, <1>7, <1>8, <1>4

-----------------------------------------------------------------------------
(* What is foretold stays foretold.                                        *)

Doc == [args : History, result : Values \cup {Unknown, "none"}]

Extends(R, S) == Len(R) <= Len(S) /\ \A n \in 1 .. Len(R) : R[n] = S[n]

\* Documents are added and get their results.
DocsGrow(D, E) ==
    /\ Len(D) <= Len(E)
    /\ \A k \in 1 .. Len(D) :
        /\ E[k].args = D[k].args
        /\ D[k].result \in Values => E[k].result = D[k].result

\* More readings and documents foretell the same.
LEMMA ForetoldGrows ==
    ASSUME NEW R \in Seq(Values), NEW S \in Seq(Values), Extends(R, S),
           NEW D \in Seq(Doc), NEW E \in Seq(Doc), DocsGrow(D, E),
           NEW p, NEW entry, Foretold(entry, p, R, D)
    PROVE  Foretold(entry, p, S, E)
  <1>1. /\ DOMAIN R = 1 .. Len(R) /\ DOMAIN S = 1 .. Len(S)
        /\ Len(R) \in Nat /\ Len(S) \in Nat
        /\ DOMAIN D = 1 .. Len(D) /\ DOMAIN E = 1 .. Len(E)
        /\ Len(D) \in Nat /\ Len(E) \in Nat
    BY LenProperties
  <1>2. CASE Program[p] = "read"
    BY <1>1, <1>2 DEF Foretold, Extends
  <1>3. CASE Program[p] # "read"
    <2>1. \A k \in Awaited(p) : k \in DOMAIN E /\ E[k].result \in Values
                                /\ E[k].result = D[k].result
      BY <1>1, <1>3 DEF Foretold, DocsGrow
    <2>2. [k \in Awaited(p) |-> D[k].result] = [k \in Awaited(p) |-> E[k].result]
      BY <2>1
    <2>3. entry = [of |-> "call", told |-> [k \in Awaited(p) |-> D[k].result]]
      BY <1>3 DEF Foretold
    <2> QED
      BY <1>3, <2>1, <2>2, <2>3 DEF Foretold
  <1> QED
    BY <1>2, <1>3

LEMMA OnRecordGrows ==
    ASSUME NEW R \in Seq(Values), NEW S \in Seq(Values), Extends(R, S),
           NEW D \in Seq(Doc), NEW E \in Seq(Doc), DocsGrow(D, E),
           NEW history \in History, OnRecord(history, R, D)
    PROVE  OnRecord(history, S, E)
  <1>1. Len(history) \in Nat /\ Len(R) \in Nat /\ Len(S) \in Nat
    BY LenProperties DEF History
  <1>2. ReadNo(Len(history)) \in Nat
    BY <1>1, ReadNumbers
  <1>3. ReadNo(Len(history)) <= Len(S)
    BY <1>1, <1>2 DEF OnRecord, Extends
  <1>4. \A p \in DOMAIN history : Foretold(history[p], p, S, E)
    BY ForetoldGrows DEF OnRecord
  <1> QED
    BY <1>3, <1>4 DEF OnRecord

\* A part of a history.
IsPart(part, history) ==
    Len(part) <= Len(history) /\ \A p \in 1 .. Len(part) : part[p] = history[p]

\* Two histories agree as far as both go.
LEMMA SameHistory ==
    ASSUME NEW R \in Seq(Values), NEW S \in Seq(Values), Extends(R, S), NEW D \in Seq(Doc),
           NEW a \in History, NEW b \in History,
           OnRecord(a, R, D), OnRecord(b, S, D), Len(a) = Len(b)
    PROVE  a = b
  <1>1. DocsGrow(D, D)
    BY LenProperties DEF DocsGrow
  <1>2. /\ a \in [1 .. Len(a) -> Entry] /\ b \in [1 .. Len(b) -> Entry]
        /\ DOMAIN a = 1 .. Len(a) /\ DOMAIN b = 1 .. Len(b)
    BY LenProperties DEF History
  <1>3. ASSUME NEW p \in 1 .. Len(a) PROVE a[p] = b[p]
    <2>1. Foretold(a[p], p, R, D) /\ Foretold(b[p], p, S, D)
      BY <1>2, <1>3 DEF OnRecord
    <2>2. Foretold(a[p], p, S, D)
      BY <1>1, <2>1, ForetoldGrows
    <2> QED
      BY <2>1, <2>2 DEF Foretold
  <1>4. PICK n : n = Len(a)
    OBVIOUS
  <1>5. a = [p \in 1 .. n |-> a[p]] /\ b = [p \in 1 .. n |-> b[p]]
    BY <1>2, <1>4
  <1>6. [p \in 1 .. n |-> a[p]] = [p \in 1 .. n |-> b[p]]
    BY <1>3, <1>4
  <1> QED
    BY <1>5, <1>6, Zenon

\* A part of a history is on record as far as its readings are.
LEMMA PartOnRecord ==
    ASSUME NEW R \in Seq(Values), NEW D, NEW part \in History, NEW history \in History,
           IsPart(part, history), OnRecord(history, R, D)
    PROVE  OnRecord(part, R, D)
  <1>1. /\ Len(part) \in Nat /\ Len(history) \in Nat /\ Len(R) \in Nat
        /\ DOMAIN part = 1 .. Len(part) /\ DOMAIN history = 1 .. Len(history)
        /\ Len(Program) \in Nat
    BY LenProperties, ProgramAssumption DEF History
  <1>2. /\ ReadNo(Len(part)) <= ReadNo(Len(history))
        /\ ReadNo(Len(part)) \in Nat /\ ReadNo(Len(history)) \in Nat
    BY <1>1, ReadNumbers DEF IsPart
  <1>3. \A p \in DOMAIN part : p \in DOMAIN history /\ part[p] = history[p]
    BY <1>1 DEF IsPart
  <1>4. Len(part) <= Len(Program) /\ ReadNo(Len(part)) <= Len(R)
    BY <1>1, <1>2 DEF IsPart, OnRecord
  <1> QED
    BY <1>3, <1>4 DEF OnRecord

\* One more line.
LEMMA OnRecordAppend ==
    ASSUME NEW R \in Seq(Values), NEW D, NEW history \in History, NEW entry \in Entry,
           OnRecord(history, R, D), Len(history) < Len(Program),
           ReadNo(Len(history) + 1) <= Len(R),
           Foretold(entry, Len(history) + 1, R, D)
    PROVE  OnRecord(Append(history, entry), R, D)
  <1> DEFINE longer == Append(history, entry)
  <1>1. /\ Len(longer) = Len(history) + 1
        /\ \A p \in 1 .. Len(history) : longer[p] = history[p]
        /\ longer[Len(history) + 1] = entry
        /\ DOMAIN longer = 1 .. Len(history) + 1
        /\ DOMAIN history = 1 .. Len(history) /\ Len(history) \in Nat
        /\ Len(Program) \in Nat
    BY AppendProperties, LenProperties, ProgramAssumption DEF History
  <1> HIDE DEF longer
  <1>2. ASSUME NEW p \in DOMAIN longer PROVE Foretold(longer[p], p, R, D)
    <2>1. CASE p \in DOMAIN history
      BY <1>1, <2>1 DEF OnRecord
    <2>2. CASE p = Len(history) + 1
      BY <1>1, <2>2
    <2> QED
      BY <1>1, <2>1, <2>2
  <1>3. Len(longer) <= Len(Program) /\ ReadNo(Len(longer)) <= Len(R)
    BY <1>1
  <1>4. OnRecord(longer, R, D)
    BY <1>2, <1>3 DEF OnRecord
  <1> QED
    BY <1>4 DEF longer

\* Readings on record are readings.
LEMMA RecordedType ==
    ASSUME NEW M \in Seq(Seq(Values)), NEW batch \in Seq(Values)
    PROVE  /\ Recorded(M) \in Seq(Values) /\ Recorded(M) \o batch \in Seq(Values)
           /\ Extends(Recorded(M), Recorded(M) \o batch)
           /\ Recorded(Append(M, batch)) = Recorded(M) \o batch
           /\ Append(M, batch) \in Seq(Seq(Values)) /\ Len(Append(M, batch)) = Len(M) + 1
           /\ Len(Recorded(M) \o batch) = Len(Recorded(M)) + Len(batch)
           /\ Len(Recorded(M)) \in Nat /\ Len(batch) \in Nat /\ Len(M) \in Nat
  <1>1. Recorded(M) \in Seq(Values) /\ Recorded(Append(M, batch)) = Recorded(M) \o batch
    BY FlattenAppend DEF Recorded
  <1>2. /\ Len(Recorded(M)) \in Nat /\ Len(batch) \in Nat /\ Len(M) \in Nat
        /\ Recorded(M) \o batch \in Seq(Values)
        /\ Len(Recorded(M) \o batch) = Len(Recorded(M)) + Len(batch)
        /\ \A n \in 1 .. Len(Recorded(M)) : (Recorded(M) \o batch)[n] = Recorded(M)[n]
    BY <1>1, ConcatProperties, LenProperties
  <1>3. Extends(Recorded(M), Recorded(M) \o batch)
    BY <1>2 DEF Extends
  <1> QED
    BY <1>1, <1>2, <1>3, AppendProperties

\* A line that is not a reading, told of calls that are over.
LEMMA RepliesForetold ==
    ASSUME NEW p, NEW K, K = Awaited(p), Program[p] # "read", NEW R, NEW D, NEW reply,
           \A k \in K : k \in DOMAIN D /\ D[k].result \in Values /\ reply[k] = D[k].result
    PROVE  Foretold([of |-> "call", told |-> [k \in K |-> reply[k]]], p, R, D)
  <1>1. [k \in K |-> reply[k]] = [k \in Awaited(p) |-> D[k].result]
    OBVIOUS
  <1> QED
    BY <1>1 DEF Foretold

-----------------------------------------------------------------------------
(* Executions that differ in a call.                                       *)

\* What the parts of an execution are.
LEMMA HostTypes ==
    ASSUME NEW h \in HostState
    PROVE  /\ h.history \in History /\ h.history \in Seq(Entry) /\ Len(h.history) \in Nat
           /\ DOMAIN h.history = 1 .. Len(h.history)
           /\ h.calls \in Seq(CallState)
           /\ Len(h.calls) \in Nat /\ DOMAIN h.calls = 1 .. Len(h.calls)
           /\ \A k \in DOMAIN h.calls :
                /\ h.calls[k] \in CallState /\ h.calls[k].args \in History
                /\ Len(h.calls[k].args) \in Nat
                /\ DOMAIN h.calls[k].args = 1 .. Len(h.calls[k].args)
           /\ h.replay \in Seq(Values) /\ Len(h.replay) \in Nat
           /\ DOMAIN h.replay = 1 .. Len(h.replay)
           /\ h.pending \in Seq(Values) /\ Len(h.pending) \in Nat
           /\ h.read \in Nat /\ h.batches \in Nat /\ h.recorded \in Nat
  <1>1. /\ h.history \in History /\ h.calls \in Seq(CallState)
        /\ h.replay \in Seq(Values) /\ h.pending \in Seq(Values)
        /\ h.read \in Nat /\ h.batches \in Nat /\ h.recorded \in Nat
    BY DEF HostState
  <1>2. h.history \in Seq(Entry) /\ Len(h.history) \in Nat
        /\ DOMAIN h.history = 1 .. Len(h.history)
    BY <1>1, LenProperties DEF History
  <1>3. Len(h.calls) \in Nat /\ DOMAIN h.calls = 1 .. Len(h.calls)
    BY <1>1, LenProperties
  <1>4. ASSUME NEW k \in DOMAIN h.calls
        PROVE  /\ h.calls[k] \in CallState /\ h.calls[k].args \in History
               /\ Len(h.calls[k].args) \in Nat
               /\ DOMAIN h.calls[k].args = 1 .. Len(h.calls[k].args)
    <2>1. h.calls[k] \in CallState
      BY <1>1, <1>3, ElementOfSeq
    <2>2. h.calls[k].args \in Seq(Entry) /\ h.calls[k].args \in History
      BY <2>1 DEF CallState, History
    <2> QED
      BY <2>1, <2>2, LenProperties
  <1>5. /\ Len(h.replay) \in Nat /\ DOMAIN h.replay = 1 .. Len(h.replay)
        /\ Len(h.pending) \in Nat
    BY <1>1, LenProperties
  <1> QED
    BY <1>1, <1>2, <1>3, <1>4, <1>5

\* g is h but for the state of call k and what locks it.
OnlyCall(h, g, k) ==
    /\ g.phase = h.phase /\ g.history = h.history /\ g.replay = h.replay
    /\ g.read = h.read /\ g.recorded = h.recorded
    /\ Len(g.calls) = Len(h.calls)
    /\ \A j \in DOMAIN h.calls :
        /\ g.calls[j].args = h.calls[j].args /\ g.calls[j].deferred = h.calls[j].deferred
        /\ j # k => g.calls[j] = h.calls[j]

AtStates == {"reserved", "flushed", "admitted", "answered", "delivered"}

LEMMA AtFields ==
    ASSUME NEW h \in HostState, NEW k \in DOMAIN h.calls, NEW at \in AtStates,
           NEW g, g = At(h, k, at)
    PROVE  /\ g \in HostState /\ OnlyCall(h, g, k) /\ g.fatal = h.fatal
           /\ g.pending = h.pending /\ g.batches = h.batches
           /\ g.calls[k].at = at /\ g.calls[k].reply = h.calls[k].reply
  <1> DEFINE c == [h.calls[k] EXCEPT !.at = at]
  <1>1. h.calls \in Seq(CallState) /\ h.calls[k] \in CallState /\ k \in 1 .. Len(h.calls)
    BY HostTypes
  <1>2. /\ c \in CallState /\ c.args = h.calls[k].args /\ c.deferred = h.calls[k].deferred
        /\ c.at = at /\ c.reply = h.calls[k].reply
    BY <1>1 DEF CallState, AtStates
  <1>3. g = [h EXCEPT !.calls = [h.calls EXCEPT ![k] = c]]
    BY DEF At, HostState
  <1> HIDE DEF c
  <1>4. PICK calls : calls = [h.calls EXCEPT ![k] = c]
    OBVIOUS
  <1>5. /\ calls \in Seq(CallState) /\ Len(calls) = Len(h.calls)
        /\ calls[k] = c /\ \A j \in DOMAIN h.calls : j # k => calls[j] = h.calls[j]
    BY <1>1, <1>2, <1>4, ExceptSeq
  <1>6. /\ g \in HostState /\ g.calls = calls /\ g.phase = h.phase /\ g.history = h.history
        /\ g.replay = h.replay /\ g.read = h.read /\ g.recorded = h.recorded
        /\ g.fatal = h.fatal /\ g.pending = h.pending /\ g.batches = h.batches
    BY <1>3, <1>4, <1>5 DEF HostState
  <1> QED
    BY <1>2, <1>5, <1>6 DEF OnlyCall

LEMMA AnsweredFields ==
    ASSUME NEW h \in HostState, NEW k \in DOMAIN h.calls,
           NEW reply \in Values \cup {Unknown, Error, "none"},
           NEW g, g = Answered(h, k, reply)
    PROVE  /\ g \in HostState /\ OnlyCall(h, g, k) /\ g.fatal = h.fatal
           /\ g.pending = h.pending /\ g.batches = h.batches
           /\ g.calls[k].at = "answered" /\ g.calls[k].reply = reply
  <1> DEFINE c == [h.calls[k] EXCEPT !.at = "answered", !.reply = reply]
  <1>1. h.calls \in Seq(CallState) /\ h.calls[k] \in CallState /\ k \in 1 .. Len(h.calls)
        /\ k \in DOMAIN h.calls
    BY HostTypes
  <1>2. /\ c \in CallState /\ c.args = h.calls[k].args /\ c.deferred = h.calls[k].deferred
        /\ c.at = "answered" /\ c.reply = reply
    BY <1>1 DEF CallState
  <1>3. g = [h EXCEPT !.calls = [h.calls EXCEPT ![k] = c]]
    BY <1>1 DEF Answered, At, HostState
  <1> HIDE DEF c
  <1>4. PICK calls : calls = [h.calls EXCEPT ![k] = c]
    OBVIOUS
  <1>5. /\ calls \in Seq(CallState) /\ Len(calls) = Len(h.calls)
        /\ calls[k] = c /\ \A j \in DOMAIN h.calls : j # k => calls[j] = h.calls[j]
    BY <1>1, <1>2, <1>4, ExceptSeq
  <1>6. /\ g \in HostState /\ g.calls = calls /\ g.phase = h.phase /\ g.history = h.history
        /\ g.replay = h.replay /\ g.read = h.read /\ g.recorded = h.recorded
        /\ g.fatal = h.fatal /\ g.pending = h.pending /\ g.batches = h.batches
    BY <1>3, <1>4, <1>5 DEF HostState
  <1> QED
    BY <1>2, <1>5, <1>6 DEF OnlyCall

\* A locked host is locked for the first reason.
LEMMA LockedFields ==
    ASSUME NEW h \in HostState, NEW why \in {"changed", "diverged", "unknown"},
           NEW g, g = Locked(h, why)
    PROVE  /\ g \in HostState /\ OnlyCall(h, g, 0) /\ g.calls = h.calls
           /\ g.pending = h.pending /\ g.batches = h.batches
           /\ g.fatal = IF h.fatal = "no" THEN why ELSE h.fatal
  BY HostTypes DEF Locked, HostState, OnlyCall

\* Order and numbers do not depend on where a call stands before its delivery.
LEMMA OrderStays ==
    ASSUME NEW h \in HostState, NEW g \in HostState, NEW k, OnlyCall(h, g, k),
           k \in DOMAIN h.calls =>
                (g.calls[k].at = "delivered" <=> h.calls[k].at = "delivered"),
           CallsInOrder(h)
    PROVE  CallsInOrder(g)
  <1>1. /\ DOMAIN g.calls = DOMAIN h.calls /\ Len(g.calls) = Len(h.calls)
        /\ g.history = h.history
    BY HostTypes DEF OnlyCall
  <1>2. \A j \in DOMAIN h.calls :
            /\ g.calls[j].args = h.calls[j].args /\ g.calls[j].deferred = h.calls[j].deferred
            /\ g.calls[j].at = "delivered" <=> h.calls[j].at = "delivered"
    BY DEF OnlyCall
  <1>3. Waits(g) <=> Waits(h)
    BY <1>1, <1>2 DEF Waits
  <1>4. ASSUME NEW j \in DOMAIN g.calls PROVE CallInOrder(g, j)
    <2>1. CallInOrder(h, j) /\ Behind(g, j) = Behind(h, j)
      BY <1>1, <1>2 DEF CallsInOrder, Behind
    <2> QED
      BY <1>1, <1>2, <2>1 DEF CallInOrder
  <1> QED
    BY <1>1, <1>3, <1>4 DEF CallsInOrder

\* The other calls stay where they are.
LEMMA PlacesStay ==
    ASSUME NEW h \in HostState, NEW g \in HostState, NEW k, OnlyCall(h, g, k),
           NEW M \in Seq(Seq(Values)), NEW N \in Seq(Seq(Values)), NEW D \in Seq(Doc),
           Extends(Recorded(M), Recorded(N)),
           CallsPlaced(h, M, D), k \in DOMAIN h.calls => CallPlaced(g, k, N, D)
    PROVE  CallsPlaced(g, N, D)
  <1>1. DOMAIN g.calls = DOMAIN h.calls /\ Len(g.calls) = Len(h.calls)
        /\ g.recorded = h.recorded
    BY HostTypes DEF OnlyCall
  <1>2. ASSUME NEW j \in DOMAIN g.calls, j # k PROVE CallPlaced(g, j, N, D)
    <2>1. g.calls[j] = h.calls[j] /\ CallPlaced(h, j, M, D) /\ h.calls[j].args \in History
      BY <1>1, <1>2, HostTypes DEF OnlyCall, CallsPlaced
    <2>2. DocsGrow(D, D)
      BY LenProperties DEF DocsGrow
    <2>3. Recorded(M) \in Seq(Values) /\ Recorded(N) \in Seq(Values)
      BY FlattenAppend, EmptySeq DEF Recorded
    <2>4. OnRecord(h.calls[j].args, Recorded(M), D) => OnRecord(h.calls[j].args, Recorded(N), D)
      BY <2>1, <2>2, <2>3, OnRecordGrows
    <2> QED
      BY <1>1, <2>1, <2>4 DEF CallPlaced
  <1>3. \A j \in DOMAIN g.calls : CallPlaced(g, j, N, D)
    BY <1>1, <1>2
  <1> QED
    BY <1>1, <1>3 DEF CallsPlaced

\* The execution stays sound when a call that moves is as its document says.
LEMMA ExecutionStays ==
    ASSUME NEW h \in HostState, NEW g \in HostState, NEW k, OnlyCall(h, g, k),
           g.pending = h.pending, g.batches = h.batches,
           NEW M, NEW D, ExecutionSound(h, M, D),
           k \in DOMAIN h.calls => CallAsRecorded(g, k, D)
    PROVE  ExecutionSound(g, M, D)
  <1>1. /\ DOMAIN g.calls = DOMAIN h.calls /\ g.history = h.history /\ g.phase = h.phase
        /\ g.replay = h.replay /\ g.read = h.read
    BY HostTypes DEF OnlyCall
  <1>2. AllReadings(g, M) = AllReadings(h, M)
    BY DEF AllReadings
  <1>3. OnRecord(g.history, AllReadings(g, M), D)
    BY <1>1, <1>2 DEF ExecutionSound
  <1>4. ReadingsInOrder(g, M)
    BY <1>1, <1>2 DEF ExecutionSound, ReadingsInOrder
  <1>5. ASSUME NEW j \in DOMAIN g.calls PROVE CallAsRecorded(g, j, D)
    <2>1. CASE j = k
      BY <1>1, <2>1
    <2>2. CASE j # k
      <3>1. g.calls[j] = h.calls[j] /\ CallAsRecorded(h, j, D)
        BY <1>1, <2>2 DEF OnlyCall, ExecutionSound, CallsAsRecorded
      <3> QED
        BY <1>1, <3>1 DEF CallAsRecorded
    <2> QED
      BY <2>1, <2>2
  <1> QED
    BY <1>3, <1>4, <1>5 DEF ExecutionSound, CallsAsRecorded

\* Documents that grow keep an execution sound.
LEMMA GrownDocs ==
    ASSUME NEW h \in HostState, NEW M \in Seq(Seq(Values)),
           NEW D \in Seq(Doc), NEW E \in Seq(Doc), DocsGrow(D, E), ExecutionSound(h, M, D)
    PROVE  ExecutionSound(h, M, E)
  <1>1. AllReadings(h, M) \in Seq(Values) /\ Extends(AllReadings(h, M), AllReadings(h, M))
    BY RecordedType, HostTypes DEF AllReadings, Extends
  <1>2. OnRecord(h.history, AllReadings(h, M), E)
    BY <1>1, HostTypes, OnRecordGrows DEF ExecutionSound
  <1>3. ASSUME NEW k \in DOMAIN h.calls PROVE CallAsRecorded(h, k, E)
    <2>1. CallAsRecorded(h, k, D)
      BY DEF ExecutionSound, CallsAsRecorded
    <2>2. /\ DOMAIN D = 1 .. Len(D) /\ DOMAIN E = 1 .. Len(E)
          /\ Len(D) \in Nat /\ Len(E) \in Nat
      BY LenProperties
    <2> QED
      BY <2>1, <2>2 DEF CallAsRecorded, DocsGrow
  <1> QED
    BY <1>2, <1>3 DEF ExecutionSound, CallsAsRecorded

\* A document and the call of its number were made behind the same history.
LEMMA RecordedCall ==
    ASSUME NEW h \in HostState, NEW M \in Seq(Seq(Values)), NEW D \in Seq(Doc),
           CallsInOrder(h), OnRecord(h.history, AllReadings(h, M), D),
           NEW k \in DOMAIN h.calls, k \in DOMAIN D,
           MakesCall(D[k].args, k), OnRecord(D[k].args, Recorded(M), D)
    PROVE  D[k].args = h.calls[k].args
  <1> DEFINE a == D[k].args
             b == h.calls[k].args
  <1>1. a \in History /\ b \in History /\ Len(a) \in Nat /\ Len(b) \in Nat
    <2>1. D[k] \in Doc
      BY LenProperties, ElementOfSeq
    <2>2. a \in History /\ a \in Seq(Entry)
      BY <2>1 DEF Doc, History
    <2> QED
      BY <2>2, LenProperties, HostTypes
  <1>2. MakesCall(b, k) /\ IsPart(b, h.history)
    BY HostTypes DEF CallsInOrder, CallInOrder, IsPart, Behind
  <1> HIDE DEF a, b
  <1>3. Len(a) = Len(b)
    <2>1. IsCall(Len(a) + 1) /\ IsCall(Len(b) + 1) /\ CallNo(Len(a) + 1) = CallNo(Len(b) + 1)
      BY <1>2 DEF MakesCall, a
    <2>2. Len(a) + 1 = Len(b) + 1
      BY <1>1, <2>1, OneLine, SMTT(30)
    <2> QED
      BY <1>1, <2>2
  <1>4. /\ AllReadings(h, M) \in Seq(Values) /\ Recorded(M) \in Seq(Values)
        /\ Extends(Recorded(M), AllReadings(h, M))
    BY RecordedType, HostTypes DEF AllReadings
  <1>5. OnRecord(b, AllReadings(h, M), D)
    BY <1>1, <1>2, <1>4, PartOnRecord, HostTypes
  <1>6. OnRecord(a, Recorded(M), D)
    BY DEF a
  <1>7. a = b
    BY <1>1, <1>3, <1>4, <1>5, <1>6, SameHistory
  <1> QED
    BY <1>7 DEF a, b

-----------------------------------------------------------------------------
(* Executions that go on.                                                  *)

\* A call that is neither deferred nor delivered is made by the line the script is at.
LEMMA WaitsHere ==
    ASSUME NEW h \in HostState, CallsInOrder(h), NEW k \in DOMAIN h.calls,
           ~h.calls[k].deferred, h.calls[k].at # "delivered"
    PROVE  /\ Len(h.history) < Len(Program) /\ Program[Len(h.history) + 1] = "call"
           /\ k = CallNo(Len(h.history) + 1)
  <1>1. /\ MakesCall(h.calls[k].args, k) /\ Behind(h, k) <= Len(h.history)
        /\ ~(Behind(h, k) < Len(h.history)) /\ Program[Behind(h, k) + 1] # "defer"
    BY DEF CallsInOrder, CallInOrder
  <1>2. Behind(h, k) = Len(h.history)
    BY <1>1, HostTypes DEF Behind
  <1> QED
    BY <1>1, <1>2 DEF MakesCall, IsCall, Behind

\* A function of the first n numbers is a sequence.
LEMMA FunctionSeq ==
    ASSUME NEW S, NEW n \in Nat, NEW f \in [1 .. n -> S]
    PROVE  f \in Seq(S) /\ Len(f) = n
  <1>1. f \in Seq(S)
    BY SeqDef
  <1>2. Len(f) \in Nat /\ 1 .. Len(f) = 1 .. n
    BY <1>1, LenProperties
  <1> QED
    BY <1>1, <1>2

\* A range of numbers with one more.
LEMMA OneMore ==
    ASSUME NEW m \in Nat, NEW n \in Nat, m < n
    PROVE  m + 2 .. n + 1 = (m + 2 .. n) \cup {n + 1}
  OBVIOUS

\* A call keeps its place in the order when a line is told.
LEMMA OrderOfOld ==
    ASSUME NEW h \in HostState, NEW g \in HostState, NEW entry \in Entry,
           g.history = Append(h.history, entry),
           NEW k \in DOMAIN h.calls, k \in DOMAIN g.calls, CallInOrder(h, k),
           g.calls[k].args = h.calls[k].args, g.calls[k].deferred = h.calls[k].deferred,
           ~h.calls[k].deferred => g.calls[k].at = "delivered",
           h.calls[k].deferred =>
              (g.calls[k].at = "delivered" <=>
                  h.calls[k].at = "delivered" \/ Program[Len(h.history) + 1] = "await")
    PROVE  CallInOrder(g, k)
  <1> DEFINE n == Len(h.history)
             m == Len(h.calls[k].args)
  <1>1. n \in Nat /\ m \in Nat /\ DOMAIN h.calls[k].args = 1 .. m
    BY HostTypes
  <1>2. /\ Len(g.history) = n + 1
        /\ \A p \in 1 .. n : g.history[p] = h.history[p]
    BY AppendProperties, HostTypes
  <1>3. Behind(g, k) = m /\ Behind(h, k) = m
    BY DEF Behind
  <1>4. /\ MakesCall(h.calls[k].args, k) /\ m <= n
        /\ \A p \in 1 .. m : h.calls[k].args[p] = h.history[p]
        /\ h.calls[k].deferred <=> Program[m + 1] = "defer"
        /\ h.calls[k].deferred =>
            /\ m < n
            /\ h.calls[k].at = "delivered" <=> \E r \in m + 2 .. n : Program[r] = "await"
    BY <1>1, <1>3 DEF CallInOrder
  <1> HIDE DEF n, m
  <1>5. \A p \in 1 .. m : g.calls[k].args[p] = g.history[p]
    BY <1>1, <1>2, <1>4
  <1>6. h.calls[k].deferred =>
            (g.calls[k].at = "delivered" <=> \E r \in m + 2 .. n + 1 : Program[r] = "await")
    <2> SUFFICES ASSUME h.calls[k].deferred
                 PROVE  g.calls[k].at = "delivered" <=>
                            \E r \in m + 2 .. n + 1 : Program[r] = "await"
      OBVIOUS
    <2>1. m + 2 .. n + 1 = (m + 2 .. n) \cup {n + 1}
      <3>1. m < n
        BY <1>4
      <3> QED
        BY <1>1, <3>1, OneMore
    <2>2. g.calls[k].at = "delivered" <=>
            h.calls[k].at = "delivered" \/ Program[n + 1] = "await"
      BY DEF n
    <2> QED
      BY <1>4, <2>1, <2>2
  <1>7. m <= n + 1 /\ (h.calls[k].deferred => m < n + 1) /\ m < n + 1
    BY <1>1, <1>4
  <1> QED
    BY <1>1, <1>2, <1>3, <1>4, <1>5, <1>6, <1>7 DEF CallInOrder

\* What a line of the program may be.
LEMMA ProgramLine ==
    ASSUME NEW n \in Nat, n < Len(Program)
    PROVE  /\ Program[n + 1] \in {"read", "call", "defer", "await"}
           /\ Len(Program) \in Nat /\ n + 1 \in 1 .. Len(Program)
           /\ ReadNo(n) \in Nat /\ CallNo(n) \in Nat
           /\ ReadNo(n + 1) = ReadNo(n) + (IF Program[n + 1] = "read" THEN 1 ELSE 0)
           /\ CallNo(n + 1) = CallNo(n) + (IF IsCall(n + 1) THEN 1 ELSE 0)
  <1>1. Len(Program) \in Nat
    BY ProgramAssumption, LenProperties
  <1>2. n + 1 \in 1 .. Len(Program)
    BY <1>1
  <1>3. Program[n + 1] \in {"read", "call", "defer", "await"}
    BY <1>2, ProgramAssumption, ElementOfSeq
  <1> QED
    BY <1>1, <1>2, <1>3, ReadNumbers, CallNumbers

\* A line that reads nothing.
LEMMA NoReading ==
    ASSUME NEW n \in Nat, Program[n + 1] # "read"
    PROVE  ReadNo(n + 1) = ReadNo(n) /\ ReadNo(n) \in Nat
  <1>1. PICK m : m = ReadNo(n)
    OBVIOUS
  <1>2. m \in Nat /\ ReadNo(n + 1) = m + 0
    BY <1>1, ReadNumbers
  <1>3. m + 0 = m
    BY <1>2
  <1> QED
    BY <1>1, <1>2, <1>3

\* A line that calls nothing.
LEMMA NoCall ==
    ASSUME NEW n \in Nat, ~IsCall(n + 1)
    PROVE  CallNo(n + 1) = CallNo(n) /\ CallNo(n) \in Nat
  <1>1. PICK m : m = CallNo(n)
    OBVIOUS
  <1>2. m \in Nat /\ CallNo(n + 1) = m + 0
    BY <1>1, CallNumbers
  <1>3. m + 0 = m
    BY <1>2
  <1> QED
    BY <1>1, <1>2, <1>3

\* A reading.
LEMMA OrderAfterRead ==
    ASSUME NEW h \in HostState, NEW g \in HostState, NEW entry \in Entry,
           g.history = Append(h.history, entry), g.calls = h.calls,
           Len(h.history) < Len(Program), Program[Len(h.history) + 1] = "read",
           CallsInOrder(h)
    PROVE  CallsInOrder(g)
  <1>1. \A k \in DOMAIN h.calls : h.calls[k].deferred \/ h.calls[k].at = "delivered"
    BY WaitsHere
  <1>2. ~Waits(h) /\ ~Waits(g)
    BY <1>1 DEF Waits
  <1>3. \A k \in DOMAIN g.calls : CallInOrder(g, k)
    BY <1>1, OrderOfOld DEF CallsInOrder
  <1>4. Len(g.history) = Len(h.history) + 1 /\ Len(h.history) \in Nat
    BY AppendProperties, HostTypes
  <1>5. CallNo(Len(g.history)) = CallNo(Len(h.history))
    <2>1. ~IsCall(Len(h.history) + 1)
      BY DEF IsCall
    <2> QED
      BY <1>4, <2>1, NoCall
  <1> QED
    BY <1>2, <1>3, <1>5 DEF CallsInOrder

\* A new call is a call in order.
LEMMA NewCallInOrder ==
    ASSUME NEW h \in HostState, NEW g \in HostState, NEW call \in CallState,
           g.calls = Append(h.calls, call), call.args = h.history, call.at = "reserved",
           Len(h.history) < Len(Program), IsCall(Len(h.history) + 1),
           call.deferred <=> Program[Len(h.history) + 1] = "defer",
           CallsInOrder(h), ~Waits(h),
           \/ ~call.deferred /\ g.history = h.history
           \/ call.deferred /\ \E entry \in Entry : g.history = Append(h.history, entry)
    PROVE  CallInOrder(g, Len(h.calls) + 1)
  <1> DEFINE n == Len(h.history)
             k == Len(h.calls) + 1
  <1>1. /\ n \in Nat /\ h.history \in Seq(Entry) /\ DOMAIN h.history = 1 .. n
        /\ g.calls[k] = call
    BY HostTypes, AppendProperties
  <1>2. /\ n <= Len(g.history) /\ \A p \in 1 .. n : g.history[p] = h.history[p]
        /\ Len(g.history) = IF call.deferred THEN n + 1 ELSE n
    BY <1>1, AppendProperties, SMTT(40)
  <1>3. CallNo(n + 1) = k
    BY <1>1, ProgramLine, HostTypes DEF CallsInOrder
  <1>4. MakesCall(call.args, k)
    BY <1>3 DEF MakesCall
  <1>5. Behind(g, k) = n /\ DOMAIN call.args = 1 .. n
    BY <1>1 DEF Behind
  <1>6. \A p \in 1 .. n : call.args[p] = g.history[p]
    BY <1>1, <1>2
  <1>7. call.deferred =>
            n < Len(g.history) /\ ~\E r \in n + 2 .. Len(g.history) : Program[r] = "await"
    BY <1>1, <1>2
  <1>8. ~call.deferred => ~(n < Len(g.history))
    BY <1>1, <1>2
  <1> HIDE DEF n, k
  <1>9. call.deferred <=> Program[n + 1] = "defer"
    BY DEF n
  <1>10. CallInOrder(g, k)
    BY <1>1, <1>2, <1>4, <1>5, <1>6, <1>7, <1>8, <1>9 DEF CallInOrder
  <1> QED
    BY <1>10 DEF k

\* A call is reserved; a deferred one tells its line nothing.
LEMMA OrderAfterReserve ==
    ASSUME NEW h \in HostState, NEW g \in HostState, NEW call \in CallState,
           g.calls = Append(h.calls, call), call.args = h.history, call.at = "reserved",
           Len(h.history) < Len(Program), IsCall(Len(h.history) + 1),
           call.deferred <=> Program[Len(h.history) + 1] = "defer",
           CallsInOrder(h), ~Waits(h),
           \/ ~call.deferred /\ g.history = h.history
           \/ call.deferred /\ \E entry \in Entry : g.history = Append(h.history, entry)
    PROVE  CallsInOrder(g)
  <1> DEFINE n == Len(h.calls)
  <1>1. /\ n \in Nat /\ DOMAIN h.calls = 1 .. n /\ DOMAIN g.calls = 1 .. n + 1
        /\ Len(g.calls) = n + 1 /\ g.calls[n + 1] = call
        /\ \A k \in 1 .. n : g.calls[k] = h.calls[k]
    BY HostTypes, AppendProperties
  <1>2. CallInOrder(g, n + 1)
    BY NewCallInOrder
  <1>3. ASSUME NEW k \in DOMAIN h.calls PROVE CallInOrder(g, k)
    <2>1. CallInOrder(h, k) /\ g.calls[k] = h.calls[k] /\ k \in DOMAIN g.calls
      BY <1>1 DEF CallsInOrder
    <2>2. ~h.calls[k].deferred => h.calls[k].at = "delivered"
      BY DEF Waits
    <2>3. CASE g.history = h.history
      BY <2>1, <2>3 DEF CallInOrder, Behind
    <2>4. CASE call.deferred /\ \E entry \in Entry : g.history = Append(h.history, entry)
      BY <2>1, <2>2, <2>4, OrderOfOld
    <2> QED
      BY <2>3, <2>4
  <1>4. Waits(g) <=> ~call.deferred
    <2>1. \A k \in 1 .. n : g.calls[k].deferred \/ g.calls[k].at = "delivered"
      BY <1>1 DEF Waits
    <2>2. call.at # "delivered"
      OBVIOUS
    <2>3. n + 1 \in DOMAIN g.calls /\ \A k \in DOMAIN g.calls : k \in 1 .. n \/ k = n + 1
      BY <1>1
    <2> HIDE DEF n
    <2> QED
      BY <1>1, <2>1, <2>2, <2>3 DEF Waits
  <1>5. Len(g.history) = IF call.deferred THEN Len(h.history) + 1 ELSE Len(h.history)
    BY HostTypes, AppendProperties, SMTT(40)
  <1>6. CallNo(Len(h.history) + 1) = CallNo(Len(h.history)) + 1 /\ CallNo(Len(h.history)) \in Nat
    BY HostTypes, ProgramLine
  <1>7. n = CallNo(Len(h.history))
    BY <1>6 DEF CallsInOrder
  <1>8. Len(g.calls) = CallNo(Len(g.history)) + (IF Waits(g) THEN 1 ELSE 0)
    BY <1>1, <1>4, <1>5, <1>6, <1>7
  <1> HIDE DEF n
  <1> QED
    BY <1>1, <1>2, <1>3, <1>8 DEF CallsInOrder

\* A call has a number of the program.
LEMMA CallBounds ==
    ASSUME NEW h \in HostState, CallsInOrder(h)
    PROVE  DOMAIN h.calls \subseteq 1 .. Len(Program)
  <1> SUFFICES ASSUME NEW k \in DOMAIN h.calls PROVE k \in 1 .. Len(Program)
    OBVIOUS
  <1>1. PICK p : p = Behind(h, k) + 1
    OBVIOUS
  <1>2. p \in Nat /\ p <= Len(Program) /\ CallNo(p) = k
    <2>1. Behind(h, k) \in Nat /\ MakesCall(h.calls[k].args, k) /\ Len(Program) \in Nat
      BY HostTypes, ProgramAssumption, LenProperties DEF Behind, CallsInOrder, CallInOrder
    <2> QED
      BY <1>1, <2>1 DEF MakesCall, Behind
  <1>3. CallNo(p) <= p /\ CallNo(p) \in Nat
    BY <1>2, CallNumbers
  <1>4. k \in Nat /\ 1 <= k /\ Len(Program) \in Nat
    BY HostTypes, ProgramAssumption, LenProperties
  <1> QED
    BY <1>2, <1>3, <1>4

\* The calls that are delivered to a line.
Due(h, op) ==
    {k \in DOMAIN h.calls : h.calls[k].at # "delivered" /\ (op = "await" \/ ~h.calls[k].deferred)}

\* They are those it waits for.
LEMMA DeliveredAwaited ==
    ASSUME NEW h \in HostState, CallsInOrder(h), Len(h.history) < Len(Program),
           NEW op, op = Program[Len(h.history) + 1], op \in {"call", "await"},
           NEW these,
           these = Due(h, op),
           op = "call" => these # {}
    PROVE  these = Awaited(Len(h.history) + 1)
  <1> USE DEF Due
  <1>1. PICK n : n = Len(h.history)
    OBVIOUS
  <1>2. n \in Nat
    BY <1>1, HostTypes
  <1>3. CASE op = "call"
    <2>1. \A k \in these : k = CallNo(n + 1)
      BY <1>1, <1>3, WaitsHere
    <2>2. these = {CallNo(n + 1)}
      BY <1>3, <2>1
    <2> QED
      BY <1>1, <1>3, <2>2 DEF Awaited
  <1>4. CASE op = "await"
    <2>1. Awaited(n + 1) = {CallNo(q) : q \in Deferred(n + 1)}
      BY <1>1, <1>4 DEF Awaited
    <2>2. \A k \in DOMAIN h.calls : h.calls[k].deferred \/ h.calls[k].at = "delivered"
      BY <1>4, WaitsHere
    <2>3. ASSUME NEW k \in these PROVE k \in Awaited(n + 1)
      <3>1. k \in DOMAIN h.calls /\ h.calls[k].at # "delivered" /\ h.calls[k].deferred
        BY <2>2
      <3>2. PICK m : m = Behind(h, k)
        OBVIOUS
      <3>3. /\ m \in Nat /\ m < n /\ Program[m + 1] = "defer" /\ CallNo(m + 1) = k
            /\ ~\E r \in m + 2 .. n : Program[r] = "await"
        BY <1>1, <3>1, <3>2, HostTypes
           DEF CallsInOrder, CallInOrder, MakesCall, Behind
      <3>4. m + 1 \in Deferred(n + 1)
        <4>1. m + 1 \in 1 .. (n + 1) - 1 /\ (n + 1) - 1 = n /\ (m + 1) + 1 = m + 2
          BY <1>2, <3>3
        <4> QED
          BY <3>3, <4>1 DEF Deferred
      <3> QED
        BY <2>1, <3>3, <3>4
    <2>4. ASSUME NEW q \in Deferred(n + 1) PROVE CallNo(q) \in these
      <3>1. /\ q \in 1 .. n /\ Program[q] = "defer" /\ q \in Nat
            /\ \A r \in q + 1 .. n : Program[r] # "await"
        <4>1. (n + 1) - 1 = n
          BY <1>2
        <4> QED
          BY <1>2, <4>1 DEF Deferred
      <3>2. PICK k : k = CallNo(q)
        OBVIOUS
      <3>3. k \in DOMAIN h.calls
        <4>1. IsCall(q) /\ q - 1 \in Nat /\ (q - 1) + 1 = q
          BY <3>1 DEF IsCall
        <4>2. CallNo(q) = CallNo(q - 1) + 1 /\ CallNo(q - 1) \in Nat
          BY <4>1, CallNumbers
        <4>3. CallNo(q) <= CallNo(n) /\ CallNo(n) \in Nat
          BY <1>2, <3>1, CallNumbers
        <4>4. CallNo(n) <= Len(h.calls) /\ Len(h.calls) \in Nat
          BY <1>1, <4>3, HostTypes DEF CallsInOrder
        <4> QED
          BY <3>2, <4>2, <4>3, <4>4, HostTypes
      <3>4. PICK m : m = Behind(h, k)
        OBVIOUS
      <3>5. /\ m \in Nat /\ IsCall(m + 1) /\ CallNo(m + 1) = k
            /\ h.calls[k].deferred <=> Program[m + 1] = "defer"
            /\ h.calls[k].deferred =>
                (h.calls[k].at = "delivered" <=> \E r \in m + 2 .. n : Program[r] = "await")
        BY <1>1, <3>3, <3>4, HostTypes DEF CallsInOrder, CallInOrder, MakesCall, Behind
      <3>6. m + 1 = q
        <4>1. m + 1 \in Nat /\ IsCall(q)
          BY <3>1, <3>5 DEF IsCall
        <4> QED
          BY <3>1, <3>2, <3>5, <4>1, OneLine
      <3>7. m + 2 = q + 1
        BY <3>5, <3>6
      <3>8. h.calls[k].deferred /\ h.calls[k].at # "delivered"
        BY <3>1, <3>5, <3>6, <3>7
      <3> QED
        BY <1>4, <3>2, <3>3, <3>8
    <2> QED
      BY <1>1, <2>1, <2>3, <2>4
  <1> QED
    BY <1>3, <1>4

\* g is h but for the calls that are delivered.
DeliveredOnly(h, g, these) ==
    /\ Len(g.calls) = Len(h.calls)
    /\ \A k \in DOMAIN h.calls :
        /\ g.calls[k].args = h.calls[k].args /\ g.calls[k].deferred = h.calls[k].deferred
        /\ g.calls[k].at = IF k \in these THEN "delivered" ELSE h.calls[k].at

\* Replies are delivered.
LEMMA OrderAfterDeliver ==
    ASSUME NEW h \in HostState, NEW g \in HostState, NEW entry \in Entry,
           CallsInOrder(h), Len(h.history) < Len(Program),
           NEW op, op = Program[Len(h.history) + 1], op \in {"call", "await"},
           NEW these,
           these = Due(h, op),
           op = "call" => these # {},
           g.history = Append(h.history, entry),
           DeliveredOnly(h, g, these)
    PROVE  CallsInOrder(g)
  <1> USE DEF Due, DeliveredOnly
  <1>1. DOMAIN g.calls = DOMAIN h.calls
    BY HostTypes
  <1>2. ASSUME NEW k \in DOMAIN h.calls, ~h.calls[k].deferred PROVE g.calls[k].at = "delivered"
    BY <1>2
  <1>3. ASSUME NEW k \in DOMAIN h.calls PROVE CallInOrder(g, k)
    <2>1. h.calls[k].deferred =>
            (g.calls[k].at = "delivered" <=> h.calls[k].at = "delivered" \/ op = "await")
      OBVIOUS
    <2>2. CallInOrder(h, k) /\ (~h.calls[k].deferred => g.calls[k].at = "delivered")
      BY <1>2 DEF CallsInOrder
    <2> QED
      BY <1>1, <2>1, <2>2, OrderOfOld
  <1>4. ~Waits(g)
    BY <1>1, <1>2 DEF Waits
  <1>5. Len(g.history) = Len(h.history) + 1 /\ Len(h.history) \in Nat
    BY AppendProperties, HostTypes
  <1>6. Len(h.calls) = CallNo(Len(h.history) + 1)
    <2>1. CASE op = "call"
      <3>1. Waits(h)
        BY <2>1 DEF Waits
      <3> QED
        BY <1>5, <2>1, <3>1, ProgramLine DEF CallsInOrder, IsCall
    <2>2. CASE op = "await"
      <3>1. ~Waits(h)
        BY <2>2, WaitsHere DEF Waits
      <3> QED
        BY <1>5, <2>2, <3>1, ProgramLine DEF CallsInOrder, IsCall
    <2> QED
      BY <2>1, <2>2
  <1>7. CallNo(Len(h.history) + 1) \in Nat
    <2>1. Len(h.history) + 1 \in Nat
      BY <1>5
    <2> QED
      BY <2>1, CallNumbers
  <1> QED
    BY <1>1, <1>3, <1>4, <1>5, <1>6, <1>7 DEF CallsInOrder

-----------------------------------------------------------------------------
(* What the steps do to an execution.                                      *)

\* What a line may be told.
LEMMA EntryTypes ==
    ASSUME NEW K \in SUBSET (1 .. Len(Program)), NEW reply,
           \A k \in K : reply[k] \in Values \cup {Unknown, Error}
    PROVE  [of |-> "call", told |-> [k \in K |-> reply[k]]] \in Entry
  <1>1. [k \in K |-> reply[k]] \in [K -> Values \cup {Unknown, Error}]
    OBVIOUS
  <1>2. [k \in K |-> reply[k]] \in
            UNION {[L -> Values \cup {Unknown, Error}] : L \in SUBSET (1 .. Len(Program))}
    BY <1>1
  <1> QED
    BY <1>2 DEF Entry

LEMMA ReadingType ==
    ASSUME NEW v \in Values \cup {Unknown, Error}, NEW n \in Nat, n < Len(Program),
           NEW of \in {"read", "call"}
    PROVE  [of |-> of, told |-> <<v>>] \in Entry
  <1>1. {1} \in SUBSET (1 .. Len(Program))
    BY ProgramLine
  <1>2. <<v>> \in [{1} -> Values \cup {Unknown, Error}]
    OBVIOUS
  <1>3. <<v>> \in
            UNION {[L -> Values \cup {Unknown, Error}] : L \in SUBSET (1 .. Len(Program))}
    BY <1>1, <1>2
  <1> QED
    BY <1>3 DEF Entry

LEMMA ToldFields ==
    ASSUME NEW h \in HostState, NEW of, NEW told, [of |-> of, told |-> told] \in Entry,
           NEW g, g = Told(h, of, told)
    PROVE  /\ g \in HostState /\ g.history = Append(h.history, [of |-> of, told |-> told])
           /\ Len(g.history) = Len(h.history) + 1
           /\ g.calls = h.calls /\ g.phase = h.phase /\ g.replay = h.replay /\ g.read = h.read
           /\ g.pending = h.pending /\ g.batches = h.batches /\ g.recorded = h.recorded
           /\ g.fatal = h.fatal
  <1>1. PICK longer : longer = Append(h.history, [of |-> of, told |-> told])
    OBVIOUS
  <1>2. longer \in History /\ Len(longer) = Len(h.history) + 1
    BY <1>1, HostTypes, AppendProperties DEF History
  <1>3. g = [h EXCEPT !.history = longer]
    BY <1>1 DEF Told, HostState
  <1> QED
    BY <1>1, <1>2, <1>3 DEF HostState

\* What holds of a state with an execution.
LEMMA HostFacts ==
    ASSUME IInv
    PROVE  /\ memos \in Seq(Seq(Values)) /\ docs \in Seq(Doc)
           /\ Len(docs) \in Nat /\ DOMAIN docs = 1 .. Len(docs)
           /\ \A i \in DOMAIN docs : docs[i] \in Doc
           /\ host # Off => host \in HostState /\ HostSound(host, memos, docs)
  <1>1. memos \in Seq(Seq(Values)) /\ docs \in Seq(Doc)
    BY DEF IInv, TypeOK, Doc
  <1>2. Len(docs) \in Nat /\ DOMAIN docs = 1 .. Len(docs)
        /\ \A i \in DOMAIN docs : docs[i] \in Doc
    BY <1>1, LenProperties, ElementOfSeq
  <1>3. host # Off => host \in HostState /\ HostSound(host, memos, docs)
    BY DEF IInv, TypeOK
  <1> QED
    BY <1>1, <1>2, <1>3

\* An execution is not the lack of one.
LEMMA HostOn ==
    ASSUME NEW h \in HostState
    PROVE  h # Off
  BY DEF HostState, Off

\* A step of the execution alone.
LEMMA HostStep ==
    ASSUME IInv, outcome' = "none", start' \in Surfaces \cup {"none"},
           UNCHANGED <<memos, docs, nested, surface, crashes>>, stopping' \in BOOLEAN,
           host' \in HostState, HostSound(host', memos, docs)
    PROVE  IInv'
  <1>1. TypeOK'
    BY DEF IInv, TypeOK, Call
  <1>2. DocsSound'
    BY DEF IInv, DocsSound, Call, Recorded
  <1>3. HostSound(host, memos, docs)'
    OBVIOUS
  <1>4. CompletedAsRecorded'
    BY DEF CompletedAsRecorded
  <1> QED
    BY <1>1, <1>2, <1>3, <1>4 DEF IInv

\* A first or another execution.
LEMMA StartKeeps ==
    ASSUME IInv, outcome = "none", Start
    PROVE  IInv'
  <1>1. /\ memos \in Seq(Seq(Values)) /\ docs \in Seq(Doc) /\ Len(docs) \in Nat
        /\ start' \in Surfaces \cup {"none"}
    BY HostFacts DEF Start, IInv, TypeOK
  <1>2. PICK R : R = Recorded(memos)
    OBVIOUS
  <1>3. R \in Seq(Values) /\ R = FlattenSeq(memos) /\ Len(R) \in Nat /\ Len(memos) \in Nat
        /\ DOMAIN R = 1 .. Len(R)
    BY <1>1, <1>2, FlattenAppend, EmptySeq, LenProperties DEF Recorded
  <1>4. <<>> \in Seq(Values) /\ <<>> \in Seq(CallState) /\ <<>> \in History /\ Len(<<>>) = 0
    BY EmptySeq DEF History
  <1>5. Fresh \in HostState
    BY <1>1, <1>3, <1>4 DEF Fresh, HostState
  <1>6. /\ Fresh.history = <<>> /\ Fresh.calls = <<>> /\ Fresh.replay = R /\ Fresh.read = 0
        /\ Fresh.pending = <<>> /\ Fresh.batches = Len(memos) /\ Fresh.recorded = Len(docs)
        /\ Fresh.fatal = "no"
    BY <1>3 DEF Fresh
  <1>7. \A h \in HostState : h.calls = <<>> /\ h.history = <<>> => CallsInOrder(h)
    BY CallNumbers, <1>4 DEF CallsInOrder, Waits
  <1>8. \A h \in HostState : h.calls = <<>> /\ h.recorded = Len(docs) => CallsPlaced(h, memos, docs)
    BY <1>1 DEF CallsPlaced
  <1>9. AllReadings(Fresh, memos) = R
    BY <1>2, <1>3, <1>6, ConcatEmptySeq DEF AllReadings
  <1>10. OnRecord(<<>>, R, docs)
    <2>1. ReadNo(0) = 0 /\ Len(Program) \in Nat
      BY ReadNumbers, ProgramAssumption, LenProperties
    <2> QED
      BY <1>3, <1>4, <2>1 DEF OnRecord
  <1>11. ReadingsInOrder(Fresh, memos)
    <2>1. ReadNo(0) = 0
      BY ReadNumbers
    <2> HIDE DEF Fresh
    <2> QED
      BY <1>2, <1>3, <1>4, <1>6, <1>9, <2>1 DEF ReadingsInOrder
  <1>12. ExecutionSound(Fresh, memos, docs)
    BY <1>6, <1>9, <1>10, <1>11 DEF ExecutionSound, CallsAsRecorded
  <1>13. HostSound(Fresh, memos, docs)
    BY <1>5, <1>6, <1>7, <1>8, <1>12 DEF HostSound
  <1>14. CASE host' = Fresh
    BY <1>1, <1>5, <1>13, <1>14, HostStep DEF Start, IInv, TypeOK
  <1>15. CASE host' = [Fresh EXCEPT !.phase = "closing", !.fatal = "changed"]
    <2>1. /\ host' \in HostState /\ host'.history = <<>> /\ host'.calls = <<>>
          /\ host'.recorded = Len(docs) /\ host'.fatal = "changed"
      BY <1>5, <1>6, <1>15 DEF HostState
    <2>2. HostSound(host', memos, docs)
      BY <1>7, <1>8, <2>1 DEF HostSound
    <2> QED
      BY <1>1, <2>1, <2>2, HostStep DEF Start, IInv, TypeOK
  <1> QED
    BY <1>14, <1>15 DEF Start

\* Where calls stand depends on nothing else of the execution.
LEMMA SameCalls ==
    ASSUME NEW h \in HostState, NEW g \in HostState, g.calls = h.calls,
           g.recorded = h.recorded, NEW M, NEW D
    PROVE  /\ CallsPlaced(h, M, D) => CallsPlaced(g, M, D)
           /\ CallsAsRecorded(h, D) /\ g.phase = h.phase => CallsAsRecorded(g, D)
           /\ CallsInOrder(h) /\ g.history = h.history => CallsInOrder(g)
  BY DEF CallsPlaced, CallPlaced, CallsAsRecorded, CallAsRecorded, CallsInOrder, CallInOrder,
         Waits, Behind

\* The line the script is at.
LEMMA AtLine ==
    ASSUME IInv, host \in HostState, NEW op \in {"read", "call", "defer", "await"}, Op = op
    PROVE  /\ Len(host.history) < Len(Program) /\ Program[Len(host.history) + 1] = op
           /\ Len(host.history) \in Nat
  BY HostTypes DEF Op

\* A reading appended to the last batch is appended to all readings.
LEMMA AppendBehind ==
    ASSUME NEW R \in Seq(Values), NEW b \in Seq(Values), NEW v \in Values
    PROVE  R \o Append(b, v) = Append(R \o b, v)
  <1>1. R \o b \in Seq(Values) /\ <<v>> \in Seq(Values)
    BY ConcatProperties
  <1>2. Append(b, v) = b \o <<v>>
    BY AppendIsConcat
  <1>3. Append(R \o b, v) = (R \o b) \o <<v>>
    BY <1>1, AppendIsConcat
  <1>4. (R \o b) \o <<v>> = R \o (b \o <<v>>)
    BY <1>1, ConcatAssociative
  <1> QED
    BY <1>2, <1>3, <1>4

\* A reading from the log, or a fresh one, or none for a locked host.
LEMMA ReadKeeps ==
    ASSUME IInv, outcome = "none", Read
    PROVE  IInv'
  <1>1. /\ host \in HostState /\ HostSound(host, memos, docs) /\ Op = "read"
        /\ memos \in Seq(Seq(Values)) /\ docs \in Seq(Doc)
    BY HostFacts DEF Read, Running
  <1>2. PICK n : n = Len(host.history)
    OBVIOUS
  <1>3. n < Len(Program) /\ Program[n + 1] = "read" /\ n \in Nat
        /\ ReadNo(n + 1) = ReadNo(n) + 1 /\ ReadNo(n) \in Nat
    BY <1>1, <1>2, AtLine, ProgramLine
  <1>4. ASSUME NEW g \in HostState, NEW entry \in Entry, host' = g,
               g.history = Append(host.history, entry), g.calls = host.calls,
               g.recorded = host.recorded, g.fatal = host.fatal, g.phase = host.phase,
               host.fatal = "no" =>
                    /\ OnRecord(g.history, AllReadings(g, memos), docs)
                    /\ ReadingsInOrder(g, memos)
        PROVE  IInv'
    <2>1. CallsInOrder(g)
      BY <1>1, <1>2, <1>3, <1>4, OrderAfterRead DEF HostSound
    <2>2. CallsPlaced(g, memos, docs) /\ (host.fatal = "no" => CallsAsRecorded(g, docs))
      BY <1>1, <1>4, SameCalls DEF HostSound, ExecutionSound
    <2>3. HostSound(g, memos, docs)
      BY <1>1, <1>4, <2>1, <2>2 DEF HostSound, ExecutionSound
    <2> QED
      BY <1>4, <2>3, HostStep DEF Read, durable, IInv, TypeOK
  <1>5. PICK R : R = Recorded(memos)
    OBVIOUS
  <1>6. R \in Seq(Values) /\ Len(R) \in Nat /\ DOMAIN R = 1 .. Len(R)
    BY <1>1, <1>5, FlattenAppend, EmptySeq, LenProperties DEF Recorded
  <1>7. CASE /\ host.fatal # "no"
             /\ host' = Told(host, "call", <<Error>>)
    <2>1. [of |-> "call", told |-> <<Error>>] \in Entry
      BY <1>3, ReadingType
    <2> QED
      BY <1>1, <1>4, <1>7, <2>1, ToldFields
  <1>8. CASE /\ host.fatal = "no" /\ host.read < Len(host.replay)
             /\ host' = Told([host EXCEPT !.read = @ + 1], "read",
                             <<host.replay[host.read + 1]>>)
    <2> DEFINE h == [host EXCEPT !.read = @ + 1]
               v == host.replay[host.read + 1]
    <2>2. /\ host.read \in Nat /\ Len(host.replay) \in Nat
          /\ DOMAIN host.replay = 1 .. Len(host.replay) /\ host.replay \in Seq(Values)
      BY <1>1, HostTypes
    <2>1. /\ h \in HostState /\ h.history = host.history /\ h.calls = host.calls
          /\ h.replay = host.replay /\ h.read = host.read + 1 /\ h.pending = host.pending
          /\ h.batches = host.batches /\ h.recorded = host.recorded /\ h.fatal = host.fatal
          /\ h.phase = host.phase
      <3>1. PICK read : read = host.read + 1
        OBVIOUS
      <3>2. read \in Nat /\ h = [host EXCEPT !.read = read]
        BY <1>1, <2>2, <3>1 DEF HostState
      <3> HIDE DEF h
      <3>3. /\ h \in HostState /\ h.history = host.history /\ h.calls = host.calls
            /\ h.replay = host.replay /\ h.read = read /\ h.pending = host.pending
            /\ h.batches = host.batches /\ h.recorded = host.recorded
            /\ h.fatal = host.fatal /\ h.phase = host.phase
        BY <1>1, <3>2 DEF HostState
      <3> QED
        BY <3>1, <3>3
    <2>3. v \in Values /\ host.read + 1 \in 1 .. Len(host.replay)
      BY <1>8, <2>2, ElementOfSeq
    <2>4. /\ ReadingsInOrder(host, memos) /\ OnRecord(host.history, AllReadings(host, memos), docs)
      BY <1>1, <1>8 DEF HostSound, ExecutionSound
    <2>5. /\ host.pending = <<>> /\ Len(R) = Len(host.replay) /\ v = R[host.read + 1]
          /\ ReadNo(n) = host.read
      BY <1>2, <1>5, <1>8, <2>3, <2>4, <2>2 DEF ReadingsInOrder
    <2>6. AllReadings(host, memos) = R
      BY <1>5, <1>6, <2>5, ConcatEmptySeq DEF AllReadings
    <2> DEFINE entry == [of |-> "read", told |-> <<v>>]
    <2>7. entry \in Entry
      BY <1>3, <2>3, ReadingType
    <2>8. Foretold(entry, n + 1, R, docs)
      BY <1>3, <1>6, <2>3, <2>5 DEF Foretold
    <2>9. OnRecord(Append(host.history, entry), R, docs)
      <3>1. ReadNo(n + 1) <= Len(R)
        BY <1>3, <2>3, <2>5
      <3> HIDE DEF entry
      <3> QED
        BY <1>1, <1>2, <1>3, <1>6, <2>4, <2>6, <2>7, <2>8, <3>1, HostTypes, OnRecordAppend
    <2>10. host' = Told(h, "read", <<v>>)
      BY <1>8
    <2> HIDE DEF h, v
    <2>11. /\ host' \in HostState /\ host'.history = Append(host.history, entry)
           /\ Len(host'.history) = n + 1
           /\ host'.calls = host.calls /\ host'.phase = host.phase /\ host'.replay = host.replay
           /\ host'.read = host.read + 1 /\ host'.pending = <<>>
           /\ host'.batches = host.batches /\ host'.recorded = host.recorded
           /\ host'.fatal = host.fatal
      BY <1>2, <2>1, <2>5, <2>7, <2>10, ToldFields
    <2>12. PICK g : g = host'
      OBVIOUS
    <2>13. AllReadings(g, memos) = R
      BY <2>5, <2>6, <2>11, <2>12 DEF AllReadings
    <2>14. ReadingsInOrder(g, memos)
      <3>1. ReadNo(n + 1) = host.read + 1 /\ host.read + 1 <= Len(host.replay)
        BY <1>3, <2>2, <2>3, <2>5
      <3>2. /\ host.batches = Len(memos) /\ Len(host.replay) <= Len(R)
            /\ \A m \in DOMAIN host.replay : host.replay[m] = R[m]
        BY <1>5, <2>4 DEF ReadingsInOrder
      <3> QED
        BY <1>5, <1>6, <2>2, <2>5, <2>11, <2>12, <2>13, <3>1, <3>2 DEF ReadingsInOrder
    <2> HIDE DEF entry
    <2> QED
      BY <1>4, <2>7, <2>9, <2>11, <2>12, <2>13, <2>14
  <1>9. CASE /\ host.fatal = "no" /\ host.read = Len(host.replay)
             /\ \E v \in Values :
                    host' = Told([host EXCEPT !.pending = Append(@, v)], "read", <<v>>)
    <2>1. PICK v \in Values :
            host' = Told([host EXCEPT !.pending = Append(@, v)], "read", <<v>>)
      BY <1>9
    <2>0. PICK fresh : fresh = Append(host.pending, v)
      OBVIOUS
    <2> DEFINE h == [host EXCEPT !.pending = fresh]
    <2>2. /\ host.pending \in Seq(Values) /\ fresh \in Seq(Values)
          /\ Len(fresh) = Len(host.pending) + 1 /\ Len(host.pending) \in Nat
          /\ host.read \in Nat /\ Len(host.replay) \in Nat
      BY <1>1, <2>0, HostTypes, AppendProperties
    <2>3. /\ h \in HostState /\ h.history = host.history /\ h.calls = host.calls
          /\ h.replay = host.replay /\ h.read = host.read /\ h.pending = fresh
          /\ h.batches = host.batches /\ h.recorded = host.recorded /\ h.fatal = host.fatal
          /\ h.phase = host.phase
      BY <1>1, <2>2 DEF HostState
    <2>4. PICK all : all = AllReadings(host, memos)
      OBVIOUS
    <2>5. PICK more : more = R \o fresh
      OBVIOUS
    <2>6. /\ all \in Seq(Values) /\ more \in Seq(Values) /\ more = Append(all, v)
          /\ Len(more) = Len(all) + 1 /\ Len(all) \in Nat /\ more[Len(all) + 1] = v
          /\ DOMAIN more = 1 .. Len(more) /\ Extends(all, more)
      <3>1. all = R \o host.pending /\ all \in Seq(Values)
        BY <1>5, <1>6, <2>2, <2>4, ConcatProperties DEF AllReadings
      <3>2. more = Append(all, v)
        BY <1>6, <2>0, <2>2, <2>5, <3>1, AppendBehind
      <3>3. /\ more \in Seq(Values) /\ Len(more) = Len(all) + 1 /\ Len(all) \in Nat
            /\ more[Len(all) + 1] = v /\ \A m \in 1 .. Len(all) : more[m] = all[m]
        BY <3>1, <3>2, AppendProperties, LenProperties
      <3> QED
        BY <3>1, <3>2, <3>3, LenProperties DEF Extends
    <2>7. /\ ReadingsInOrder(host, memos) /\ OnRecord(host.history, all, docs)
      BY <1>1, <1>9, <2>4 DEF HostSound, ExecutionSound
    <2>8. ReadNo(n) = Len(all)
      BY <1>2, <1>9, <2>2, <2>4, <2>7 DEF ReadingsInOrder
    <2> DEFINE entry == [of |-> "read", told |-> <<v>>]
    <2>9. entry \in Entry
      BY <1>3, ReadingType
    <2>10. Foretold(entry, n + 1, more, docs)
      BY <1>3, <2>6, <2>8 DEF Foretold
    <2>11. OnRecord(host.history, more, docs)
      <3>1. DocsGrow(docs, docs)
        BY <1>1, LenProperties DEF DocsGrow
      <3> QED
        BY <1>1, <2>6, <2>7, <3>1, HostTypes, OnRecordGrows
    <2>12. OnRecord(Append(host.history, entry), more, docs)
      <3>1. ReadNo(n + 1) <= Len(more)
        BY <1>3, <2>6, <2>8
      <3> HIDE DEF entry
      <3> QED
        BY <1>1, <1>2, <1>3, <2>6, <2>9, <2>10, <2>11, <3>1, HostTypes, OnRecordAppend
    <2>13. host' = Told(h, "read", <<v>>)
      BY <1>1, <2>0, <2>1 DEF HostState
    <2> HIDE DEF h
    <2>14. /\ host' \in HostState /\ host'.history = Append(host.history, entry)
           /\ Len(host'.history) = n + 1
           /\ host'.calls = host.calls /\ host'.phase = host.phase /\ host'.replay = host.replay
           /\ host'.read = host.read /\ host'.pending = fresh
           /\ host'.batches = host.batches /\ host'.recorded = host.recorded
           /\ host'.fatal = host.fatal
      BY <1>2, <2>3, <2>9, <2>13, ToldFields
    <2>15. PICK g : g = host'
      OBVIOUS
    <2>16. AllReadings(g, memos) = more
      BY <1>5, <2>5, <2>14, <2>15 DEF AllReadings
    <2>17. ReadingsInOrder(g, memos)
      <3>1. ReadNo(n + 1) = Len(more)
        BY <1>3, <2>6, <2>8
      <3>2. /\ host.batches = Len(memos) /\ Len(host.replay) <= Len(R)
            /\ \A m \in DOMAIN host.replay : host.replay[m] = R[m]
        BY <1>5, <2>7 DEF ReadingsInOrder
      <3>3. /\ g.batches = host.batches /\ g.read = host.read /\ g.replay = host.replay
            /\ Len(g.history) = n + 1
        BY <2>14, <2>15
      <3>4. ~(host.read < Len(host.replay)) /\ host.read <= Len(host.replay)
        BY <1>9, <2>2
      <3> QED
        BY <1>5, <2>16, <3>1, <3>2, <3>3, <3>4 DEF ReadingsInOrder
    <2> HIDE DEF entry
    <2> QED
      BY <1>4, <2>9, <2>12, <2>14, <2>15, <2>16, <2>17
  <1> QED
    BY <1>7, <1>8, <1>9 DEF Read

\* Behind a recorded call nothing unrecorded can have been read.
LEMMA NothingUnread ==
    ASSUME IInv, host \in HostState, HostSound(host, memos, docs), host.fatal = "no",
           Len(host.history) < Len(Program), IsCall(Len(host.history) + 1), ~Waits(host),
           Len(host.calls) + 1 <= host.recorded
    PROVE  host.pending = <<>>
  <1> SUFFICES ASSUME host.pending # <<>> PROVE FALSE
    OBVIOUS
  <1>1. PICK n : n = Len(host.history)
    OBVIOUS
  <1>2. PICK k : k = Len(host.calls) + 1
    OBVIOUS
  <1>3. /\ memos \in Seq(Seq(Values)) /\ docs \in Seq(Doc)
        /\ Len(docs) \in Nat /\ DOMAIN docs = 1 .. Len(docs)
        /\ n \in Nat /\ Len(host.calls) \in Nat /\ host.recorded \in Nat
        /\ host.pending \in Seq(Values) /\ Len(host.pending) \in Nat
    BY <1>1, HostFacts, HostTypes
  <1>4. k \in Call
    BY <1>2, <1>3 DEF HostSound, CallsPlaced, Call
  <1>5. CallNo(n + 1) = k
    BY <1>1, <1>2, <1>3, ProgramLine DEF HostSound, CallsInOrder
  <1>6. PICK m : m = Len(docs[k].args)
    OBVIOUS
  <1>7. MakesCall(docs[k].args, k) /\ OnRecord(docs[k].args, Recorded(memos), docs)
    BY <1>4 DEF IInv, DocsSound
  <1>8. m \in Nat
    <2>1. docs[k] \in Doc
      BY <1>4, HostFacts DEF Call
    <2>2. docs[k].args \in Seq(Entry)
      BY <2>1 DEF Doc, History
    <2> QED
      BY <1>6, <2>2, LenProperties
  <1>9. m = n
    <2>1. m + 1 \in Nat /\ n + 1 \in Nat /\ IsCall(m + 1) /\ IsCall(n + 1)
          /\ CallNo(m + 1) = CallNo(n + 1)
      BY <1>1, <1>3, <1>5, <1>6, <1>7, <1>8 DEF MakesCall
    <2>2. m + 1 = n + 1
      BY <2>1, OneLine
    <2> QED
      BY <1>3, <1>8, <2>2
  <1>10. ReadNo(n) <= Len(Recorded(memos))
    BY <1>6, <1>7, <1>9 DEF OnRecord
  <1>11. /\ Len(AllReadings(host, memos)) = Len(Recorded(memos)) + Len(host.pending)
         /\ Len(Recorded(memos)) \in Nat
    BY <1>3, RecordedType DEF AllReadings
  <1>12. ReadNo(n) = Len(AllReadings(host, memos))
    BY <1>1 DEF HostSound, ExecutionSound, ReadingsInOrder
  <1>13. Len(host.pending) # 0
    BY <1>3, EmptySeq
  <1> QED
    BY <1>3, <1>10, <1>11, <1>12, <1>13

\* A call gets its number.
LEMMA ReserveKeeps ==
    ASSUME IInv, outcome = "none", Reserve
    PROVE  IInv'
  <1>1. /\ host \in HostState /\ HostSound(host, memos, docs) /\ Op \in {"call", "defer"}
        /\ memos \in Seq(Seq(Values)) /\ docs \in Seq(Doc) /\ Len(docs) \in Nat
        /\ host.phase = "script"
    BY HostFacts DEF Reserve, Running
  <1>2. PICK n : n = Len(host.history)
    OBVIOUS
  <1>3. /\ n < Len(Program) /\ Program[n + 1] = Op /\ n \in Nat /\ IsCall(n + 1)
        /\ ReadNo(n + 1) = ReadNo(n) /\ ReadNo(n) \in Nat
    <2>1. PICK op \in {"call", "defer"} : Op = op
      BY <1>1
    <2>2. n < Len(Program) /\ Program[n + 1] = Op /\ n \in Nat
      BY <1>1, <1>2, <2>1, AtLine
    <2>3. Program[n + 1] # "read" /\ IsCall(n + 1)
      BY <2>1, <2>2 DEF IsCall
    <2>4. ReadNo(n + 1) = ReadNo(n) /\ ReadNo(n) \in Nat
      BY <2>2, <2>3, NoReading
    <2> QED
      BY <2>2, <2>3, <2>4
  <1>4. ~Waits(host)
    BY DEF Reserve, Waits
  <1> DEFINE call == [args |-> host.history, deferred |-> Op = "defer",
                      at |-> "reserved", reply |-> "none"]
             calls == Append(host.calls, call)
             h == [host EXCEPT !.calls = calls]
             more == Len(calls) <= host.recorded /\ host.pending # <<>>
             told == IF Op = "defer" THEN Told(h, "call", <<>>) ELSE h
  <1>5. call \in CallState
    BY <1>1, HostTypes DEF CallState
  <1>6. calls \in Seq(CallState) /\ Len(calls) = Len(host.calls) + 1
        /\ Len(host.calls) \in Nat /\ DOMAIN calls = 1 .. Len(calls)
        /\ calls[Len(host.calls) + 1] = call
        /\ \A k \in 1 .. Len(host.calls) : calls[k] = host.calls[k]
    BY <1>1, <1>5, HostTypes, AppendProperties, LenProperties
  <1>7. /\ h \in HostState /\ h.calls = calls /\ h.history = host.history
        /\ h.phase = host.phase /\ h.replay = host.replay /\ h.read = host.read
        /\ h.pending = host.pending /\ h.batches = host.batches
        /\ h.recorded = host.recorded /\ h.fatal = host.fatal
    <2> HIDE DEF calls
    <2> QED
      BY <1>1, <1>6 DEF HostState
  <1>8. host' = IF more THEN Locked(told, "diverged") ELSE told
    BY <1>1, <1>7 DEF Reserve, HostState
  <1> DEFINE nothing == [of |-> "call", told |-> <<>>]
  <1>9. nothing \in Entry
    <2>1. [k \in {} |-> 0] = <<>>
      OBVIOUS
    <2>2. [of |-> "call", told |-> [k \in {} |-> 0]] \in Entry
      BY EntryTypes
    <2> QED
      BY <2>1, <2>2
  <1>10. PICK g : g = told
    OBVIOUS
  <1>11. /\ g \in HostState /\ g.calls = calls
         /\ g.history = IF Op = "defer" THEN Append(host.history, nothing) ELSE host.history
         /\ g.phase = host.phase /\ g.replay = host.replay /\ g.read = host.read
         /\ g.pending = host.pending /\ g.batches = host.batches
         /\ g.recorded = host.recorded /\ g.fatal = host.fatal
    <2> HIDE DEF h, calls, nothing
    <2>1. CASE Op = "defer"
      <3>1. g = Told(h, "call", <<>>)
        BY <1>10, <2>1
      <3> QED
        BY <1>7, <1>9, <2>1, <3>1, ToldFields DEF nothing
    <2>2. CASE Op # "defer"
      BY <1>7, <1>10, <2>2
    <2> QED
      BY <2>1, <2>2
  <1>12. CallsInOrder(g)
    <2>1. call.args = host.history /\ call.at = "reserved" /\ (call.deferred <=> Op = "defer")
      OBVIOUS
    <2>2. g.calls = Append(host.calls, call)
      BY <1>11
    <2>3. \/ ~call.deferred /\ g.history = host.history
          \/ call.deferred /\ \E entry \in Entry : g.history = Append(host.history, entry)
      BY <1>9, <1>11
    <2>4. CallsInOrder(host)
      BY <1>1 DEF HostSound
    <2> HIDE DEF call, nothing
    <2> QED
      BY <1>1, <1>2, <1>3, <1>4, <1>5, <1>11, <2>1, <2>2, <2>3, <2>4, OrderAfterReserve
  <1>13. CallsPlaced(g, memos, docs)
    <2>1. /\ CallsPlaced(host, memos, docs) /\ DOMAIN host.calls = 1 .. Len(host.calls)
          /\ host.recorded \in Nat
      BY <1>1, HostTypes DEF HostSound
    <2>2. call.at = "reserved"
      OBVIOUS
    <2>3. ASSUME NEW k \in DOMAIN g.calls PROVE CallPlaced(g, k, memos, docs)
      <3>1. CASE k \in DOMAIN host.calls
        <4>1. CallPlaced(host, k, memos, docs) /\ g.calls[k] = host.calls[k]
          BY <1>6, <1>11, <2>1, <3>1 DEF CallsPlaced
        <4> QED
          BY <1>11, <4>1 DEF CallPlaced
      <3>2. CASE k = Len(host.calls) + 1
        <4>1. g.calls[k].at = "reserved"
          BY <1>6, <1>11, <2>2, <3>2
        <4>2. k > host.recorded => k > Len(docs)
          BY <1>1, <1>6, <2>1, <3>2 DEF CallsPlaced
        <4> QED
          BY <1>11, <4>1, <4>2 DEF CallPlaced
      <3> QED
        BY <1>6, <1>11, <2>1, <3>1, <3>2
    <2>4. Len(g.calls) = Len(host.calls) + 1
      BY <1>6, <1>11
    <2> QED
      BY <1>1, <1>6, <1>11, <2>1, <2>3, <2>4 DEF CallsPlaced
  <1>14. host.fatal = "no" => ExecutionSound(g, memos, docs)
    <2> SUFFICES ASSUME host.fatal = "no" PROVE ExecutionSound(g, memos, docs)
      OBVIOUS
    <2>1. ExecutionSound(host, memos, docs)
      BY <1>1 DEF HostSound
    <2>2. PICK all : all = AllReadings(host, memos)
      OBVIOUS
    <2>3. all \in Seq(Values) /\ AllReadings(g, memos) = all
      BY <1>1, <1>11, <2>2, RecordedType, HostTypes DEF AllReadings
    <2>4. OnRecord(host.history, all, docs) /\ ReadNo(n) <= Len(all)
      BY <1>2, <2>1, <2>2 DEF ExecutionSound, OnRecord
    <2>5. OnRecord(g.history, all, docs)
      <3>1. CASE Op = "defer"
        <4>1. Awaited(n + 1) = {} /\ Program[n + 1] # "read"
          BY <1>3, <3>1 DEF Awaited
        <4>2. [k \in {} |-> 0] = <<>> /\ [k \in {} |-> docs[k].result] = <<>>
          OBVIOUS
        <4>3. Foretold(nothing, n + 1, all, docs)
          BY <4>1, <4>2 DEF Foretold
        <4>4. ReadNo(n + 1) <= Len(all)
          BY <1>3, <2>4
        <4> HIDE DEF nothing
        <4> QED
          BY <1>1, <1>2, <1>3, <1>9, <1>11, <2>3, <2>4, <3>1, <4>3, <4>4,
             HostTypes, OnRecordAppend
      <3>2. CASE Op # "defer"
        BY <1>11, <2>4, <3>2
      <3> QED
        BY <3>1, <3>2
    <2>6. ReadNo(Len(g.history)) = ReadNo(n)
      <3>1. Len(g.history) = IF Op = "defer" THEN n + 1 ELSE n
        <4> HIDE DEF nothing
        <4> QED
          BY <1>1, <1>2, <1>9, <1>11, HostTypes, AppendProperties
      <3> QED
        BY <1>3, <3>1
    <2>7. ReadingsInOrder(g, memos)
      BY <1>2, <1>11, <2>1, <2>2, <2>3, <2>6 DEF ExecutionSound, ReadingsInOrder
    <2>8. ASSUME NEW k \in DOMAIN g.calls PROVE CallAsRecorded(g, k, docs)
      <3>1. g.phase = "script"
        BY <1>1, <1>11
      <3>2. CASE k \in DOMAIN host.calls
        <4>1. CallAsRecorded(host, k, docs) /\ g.calls[k] = host.calls[k]
          BY <1>1, <1>6, <1>11, <2>1, <3>2, HostTypes DEF ExecutionSound, CallsAsRecorded
        <4> QED
          BY <3>1, <4>1 DEF CallAsRecorded
      <3>3. CASE k = Len(host.calls) + 1
        <4>1. g.calls[k].at = "reserved"
          BY <1>6, <1>11, <3>3
        <4> QED
          BY <3>1, <4>1 DEF CallAsRecorded
      <3>4. /\ DOMAIN g.calls = 1 .. Len(host.calls) + 1
            /\ DOMAIN host.calls = 1 .. Len(host.calls) /\ Len(host.calls) \in Nat
        BY <1>1, <1>6, <1>11, HostTypes
      <3> QED
        BY <3>2, <3>3, <3>4
    <2> QED
      BY <2>3, <2>5, <2>7, <2>8 DEF ExecutionSound, CallsAsRecorded
  <1>15. HostSound(g, memos, docs)
    BY <1>1, <1>11, <1>12, <1>13, <1>14 DEF HostSound
  <1>16. more => host.fatal # "no"
    BY <1>1, <1>2, <1>3, <1>4, <1>6, NothingUnread
  <1>17. host' \in HostState /\ HostSound(host', memos, docs)
    <2> HIDE DEF more, told, h, calls
    <2>1. CASE ~more
      BY <1>8, <1>10, <1>11, <1>15, <2>1
    <2>2. CASE more
      <3>1. host' = Locked(g, "diverged") /\ g.fatal # "no"
        BY <1>8, <1>10, <1>11, <1>16, <2>2
      <3>2. host' = g
        BY <1>11, <3>1 DEF Locked, HostState
      <3> QED
        BY <1>11, <1>15, <3>2
    <2> QED
      BY <2>1, <2>2
  <1> QED
    BY <1>17, HostStep DEF Reserve, durable, IInv, TypeOK

\* The calls of `these' are delivered.
Delivered(h, these) ==
    [k \in DOMAIN h.calls |->
        IF k \in these THEN [h.calls[k] EXCEPT !.at = "delivered"] ELSE h.calls[k]]

LEMMA DeliverFields ==
    ASSUME NEW h \in HostState, NEW these \in SUBSET DOMAIN h.calls,
           NEW calls, calls = Delivered(h, these),
           NEW g, g = [h EXCEPT !.calls = calls]
    PROVE  /\ g \in HostState /\ g.calls = calls /\ Len(calls) = Len(h.calls)
           /\ \A k \in DOMAIN h.calls :
                /\ calls[k].args = h.calls[k].args /\ calls[k].deferred = h.calls[k].deferred
                /\ calls[k].reply = h.calls[k].reply
                /\ calls[k].at = IF k \in these THEN "delivered" ELSE h.calls[k].at
           /\ g.history = h.history /\ g.phase = h.phase /\ g.replay = h.replay
           /\ g.read = h.read /\ g.pending = h.pending /\ g.batches = h.batches
           /\ g.recorded = h.recorded /\ g.fatal = h.fatal
  <1>1. /\ DOMAIN h.calls = 1 .. Len(h.calls) /\ Len(h.calls) \in Nat
        /\ \A k \in DOMAIN h.calls : h.calls[k] \in CallState
    BY HostTypes
  <1>2. ASSUME NEW k \in DOMAIN h.calls
        PROVE  /\ calls[k] \in CallState
               /\ calls[k].args = h.calls[k].args /\ calls[k].deferred = h.calls[k].deferred
               /\ calls[k].reply = h.calls[k].reply
               /\ calls[k].at = IF k \in these THEN "delivered" ELSE h.calls[k].at
    <2>1. h.calls[k] \in CallState
      BY <1>1
    <2>2. CASE k \in these
      <3>1. calls[k] = [h.calls[k] EXCEPT !.at = "delivered"]
        BY <2>2 DEF Delivered
      <3> QED
        BY <2>1, <2>2, <3>1 DEF CallState
    <2>3. CASE k \notin these
      <3>1. calls[k] = h.calls[k]
        BY <2>3 DEF Delivered
      <3> QED
        BY <2>1, <2>3, <3>1
    <2> QED
      BY <2>2, <2>3
  <1>3. calls \in [1 .. Len(h.calls) -> CallState] /\ DOMAIN calls = 1 .. Len(h.calls)
    BY <1>1, <1>2 DEF Delivered
  <1>4. calls \in Seq(CallState)
    BY <1>1, <1>3, SeqDef
  <1>5. Len(calls) = Len(h.calls)
    BY <1>1, <1>3, <1>4, LenProperties
  <1> QED
    BY <1>2, <1>4, <1>5 DEF HostState

\* Calls are answered to the line that waits for them.
LEMMA DeliverKeeps ==
    ASSUME IInv, outcome = "none", Deliver
    PROVE  IInv'
  <1>1. /\ host \in HostState /\ HostSound(host, memos, docs)
        /\ memos \in Seq(Seq(Values)) /\ docs \in Seq(Doc) /\ Len(docs) \in Nat
        /\ host.phase = "script"
    BY HostFacts DEF Deliver, Running
  <1>2. PICK n : n = Len(host.history)
    OBVIOUS
  <1>3. PICK op \in {"call", "await"} : op = Op
    BY DEF Deliver
  <1>4. /\ n < Len(Program) /\ Program[n + 1] = op /\ n \in Nat
        /\ ReadNo(n + 1) = ReadNo(n) /\ ReadNo(n) \in Nat
    <2>1. n < Len(Program) /\ Program[n + 1] = op /\ n \in Nat
      BY <1>1, <1>2, <1>3, AtLine
    <2>2. Program[n + 1] # "read"
      BY <2>1
    <2>3. ReadNo(n + 1) = ReadNo(n) /\ ReadNo(n) \in Nat
      BY <2>1, <2>2, NoReading
    <2> QED
      BY <2>1, <2>3
  <1>5. PICK these : these = {k \in Undelivered : Op = "await" \/ ~host.calls[k].deferred}
    OBVIOUS
  <1>6. these = Due(host, op) /\ these \subseteq DOMAIN host.calls
    BY <1>3, <1>5 DEF Undelivered, Due
  <1>7. op = "call" => these # {}
    BY <1>3, <1>5 DEF Deliver
  <1>8. /\ \A k \in these : host.calls[k].at = "answered"
        /\ host' = Told([host EXCEPT !.calls =
                            [k \in DOMAIN @ |-> IF k \in these
                                THEN [@[k] EXCEPT !.at = "delivered"] ELSE @[k]]],
                        "call", [k \in these |-> host.calls[k].reply])
    BY <1>5 DEF Deliver
  <1>9. these = Awaited(n + 1)
    <2>1. host \in HostState /\ CallsInOrder(host)
      BY <1>1 DEF HostSound
    <2>2. Len(host.history) < Len(Program) /\ op = Program[Len(host.history) + 1]
      BY <1>2, <1>4
    <2>3. these = Awaited(Len(host.history) + 1)
      BY <1>6, <1>7, <2>1, <2>2, DeliveredAwaited
    <2> QED
      BY <1>2, <2>3
  <1>10. PICK calls : calls = Delivered(host, these)
    OBVIOUS
  <1>11. PICK h : h = [host EXCEPT !.calls = calls]
    OBVIOUS
  <1>12. /\ h \in HostState /\ h.calls = calls /\ Len(calls) = Len(host.calls)
         /\ \A k \in DOMAIN host.calls :
                /\ calls[k].args = host.calls[k].args
                /\ calls[k].deferred = host.calls[k].deferred
                /\ calls[k].reply = host.calls[k].reply
                /\ calls[k].at = IF k \in these THEN "delivered" ELSE host.calls[k].at
         /\ h.history = host.history /\ h.phase = host.phase /\ h.replay = host.replay
         /\ h.read = host.read /\ h.pending = host.pending /\ h.batches = host.batches
         /\ h.recorded = host.recorded /\ h.fatal = host.fatal
    <2>1. these \in SUBSET DOMAIN host.calls
      BY <1>6
    <2>2. host \in HostState
      BY <1>1
    <2> QED
      BY <1>10, <1>11, <2>1, <2>2, DeliverFields
  <1>13. PICK told : told = [k \in these |-> host.calls[k].reply]
    OBVIOUS
  <1>14. PICK entry : entry = [of |-> "call", told |-> told]
    OBVIOUS
  <1>15. entry \in Entry
    <2> DEFINE reply == [k \in DOMAIN host.calls |-> host.calls[k].reply]
    <2>1. these \in SUBSET (1 .. Len(Program)) /\ these \subseteq DOMAIN host.calls
      BY <1>1, <1>6, CallBounds DEF HostSound
    <2>2. ASSUME NEW k \in these PROVE reply[k] \in Values \cup {Unknown, Error}
      <3>1. k \in DOMAIN host.calls /\ reply[k] = host.calls[k].reply
        BY <2>1
      <3>2. host.calls[k].reply # "none"
        BY <1>1, <1>8, <3>1 DEF HostSound, CallsPlaced, CallPlaced
      <3>3. host.calls[k] \in CallState
        BY <1>1, <3>1, HostTypes
      <3> QED
        BY <3>1, <3>2, <3>3 DEF CallState
    <2>3. told = [k \in these |-> reply[k]]
      BY <1>13, <2>1
    <2> HIDE DEF reply
    <2>4. [of |-> "call", told |-> [k \in these |-> reply[k]]] \in Entry
      BY <2>1, <2>2, EntryTypes
    <2> QED
      BY <1>14, <2>3, <2>4
  <1>16. host' = Told(h, "call", told)
    BY <1>1, <1>8, <1>10, <1>11, <1>13 DEF HostState, Delivered
  <1>17. PICK g : g = host'
    OBVIOUS
  <1>18. /\ g \in HostState /\ g.history = Append(host.history, entry)
         /\ Len(g.history) = n + 1
         /\ g.calls = calls /\ g.phase = host.phase /\ g.replay = host.replay
         /\ g.read = host.read /\ g.pending = host.pending /\ g.batches = host.batches
         /\ g.recorded = host.recorded /\ g.fatal = host.fatal
    <2>1. [of |-> "call", told |-> told] \in Entry /\ g = Told(h, "call", told)
      BY <1>14, <1>15, <1>16, <1>17
    <2>2. /\ g \in HostState
          /\ g.history = Append(h.history, [of |-> "call", told |-> told])
          /\ Len(g.history) = Len(h.history) + 1
          /\ g.calls = h.calls /\ g.phase = h.phase /\ g.replay = h.replay /\ g.read = h.read
          /\ g.pending = h.pending /\ g.batches = h.batches /\ g.recorded = h.recorded
          /\ g.fatal = h.fatal
      BY <1>12, <2>1, ToldFields
    <2> QED
      BY <1>2, <1>12, <1>14, <2>2
  <1>19. CallsInOrder(g)
    <2>1. CallsInOrder(host)
      BY <1>1 DEF HostSound
    <2> QED
      <3>1. Len(host.history) < Len(Program) /\ op = Program[Len(host.history) + 1]
        BY <1>2, <1>4
      <3>2. host \in HostState
        BY <1>1
      <3>3. DeliveredOnly(host, g, these)
        BY <1>12, <1>18 DEF DeliveredOnly
      <3>4. g \in HostState /\ g.history = Append(host.history, entry)
        BY <1>18
      <3> QED
        BY <1>6, <1>7, <1>15, <2>1, <3>1, <3>2, <3>3, <3>4, OrderAfterDeliver
  <1>20. DOMAIN calls = DOMAIN host.calls /\ DOMAIN g.calls = DOMAIN host.calls
    BY <1>10, <1>18 DEF Delivered
  <1>21. CallsPlaced(g, memos, docs)
    <2>1. ASSUME NEW k \in DOMAIN g.calls PROVE CallPlaced(g, k, memos, docs)
      <3>1. CallPlaced(host, k, memos, docs)
        BY <1>1, <1>20 DEF HostSound, CallsPlaced
      <3>2. /\ g.calls[k].args = host.calls[k].args /\ g.calls[k].reply = host.calls[k].reply
            /\ g.calls[k].at = "delivered" \/ g.calls[k].at = host.calls[k].at
        BY <1>12, <1>18, <1>20
      <3> QED
        BY <1>18, <3>1, <3>2 DEF CallPlaced
    <2> QED
      BY <1>1, <1>12, <1>18, <2>1 DEF HostSound, CallsPlaced
  <1>22. host.fatal = "no" => ExecutionSound(g, memos, docs)
    <2> SUFFICES ASSUME host.fatal = "no" PROVE ExecutionSound(g, memos, docs)
      OBVIOUS
    <2>1. ExecutionSound(host, memos, docs)
      BY <1>1 DEF HostSound
    <2>2. PICK all : all = AllReadings(host, memos)
      OBVIOUS
    <2>3. all \in Seq(Values) /\ AllReadings(g, memos) = all
      BY <1>1, <1>18, <2>2, RecordedType, HostTypes DEF AllReadings
    <2>4. OnRecord(host.history, all, docs) /\ ReadNo(n) <= Len(all)
      BY <1>2, <2>1, <2>2 DEF ExecutionSound, OnRecord
    <2>5. Foretold(entry, n + 1, all, docs)
      <3> DEFINE reply == [k \in DOMAIN host.calls |-> host.calls[k].reply]
      <3>1. these \subseteq DOMAIN host.calls
        BY <1>6
      <3>2. ASSUME NEW k \in these
            PROVE  k \in DOMAIN docs /\ docs[k].result \in Values /\ reply[k] = docs[k].result
        <4>1. CallAsRecorded(host, k, docs) /\ host.calls[k].at = "answered"
          BY <1>8, <2>1, <3>1 DEF ExecutionSound, CallsAsRecorded
        <4>2. reply[k] = host.calls[k].reply
          BY <3>1
        <4> HIDE DEF reply
        <4> QED
          BY <4>1, <4>2 DEF CallAsRecorded
      <3>3. told = [k \in these |-> reply[k]]
        BY <1>13, <3>1
      <3> HIDE DEF reply
      <3>4. Program[n + 1] # "read"
        BY <1>4
      <3>5. Foretold([of |-> "call", told |-> [k \in these |-> reply[k]]], n + 1, all, docs)
        BY <1>9, <3>2, <3>4, RepliesForetold
      <3> QED
        BY <1>14, <3>3, <3>5
    <2>6. OnRecord(g.history, all, docs)
      <3>1. ReadNo(n + 1) <= Len(all)
        BY <1>4, <2>4
      <3> QED
        BY <1>1, <1>2, <1>4, <1>15, <1>18, <2>3, <2>4, <2>5, <3>1, HostTypes, OnRecordAppend
    <2>7. ReadingsInOrder(g, memos)
      BY <1>2, <1>4, <1>18, <2>1, <2>2, <2>3 DEF ExecutionSound, ReadingsInOrder
    <2>8. ASSUME NEW k \in DOMAIN g.calls PROVE CallAsRecorded(g, k, docs)
      <3>1. CallAsRecorded(host, k, docs)
        BY <1>20, <2>1 DEF ExecutionSound, CallsAsRecorded
      <3>2. /\ g.calls[k].args = host.calls[k].args /\ g.calls[k].reply = host.calls[k].reply
            /\ g.calls[k].at = IF k \in these THEN "delivered" ELSE host.calls[k].at
        BY <1>12, <1>18, <1>20
      <3> QED
        BY <1>1, <1>8, <1>18, <3>1, <3>2 DEF CallAsRecorded
    <2> QED
      BY <2>3, <2>6, <2>7, <2>8 DEF ExecutionSound, CallsAsRecorded
  <1>23. HostSound(g, memos, docs)
    BY <1>1, <1>18, <1>19, <1>21, <1>22 DEF HostSound
  <1> QED
    BY <1>17, <1>18, <1>23, HostStep DEF Deliver, durable, IInv, TypeOK

\* The script is done, or it is stopped.
LEMMA PhaseKeeps ==
    ASSUME IInv, outcome = "none", Done \/ StopWorker
    PROVE  IInv'
  <1>1. /\ host \in HostState /\ HostSound(host, memos, docs)
        /\ host.phase = "script"
    BY HostFacts DEF Done, StopWorker, Running
  <1>2. PICK g : g = host'
    OBVIOUS
  <1>3. PICK phase \in {"closing", "failing"} : g = [host EXCEPT !.phase = phase]
    BY <1>2 DEF Done, StopWorker
  <1>4. /\ g \in HostState /\ g.phase = phase /\ g.history = host.history
        /\ g.calls = host.calls /\ g.replay = host.replay /\ g.read = host.read
        /\ g.pending = host.pending /\ g.batches = host.batches
        /\ g.recorded = host.recorded /\ g.fatal = host.fatal
    BY <1>1, <1>3 DEF HostState
  <1>5. phase = "closing" =>
            \A k \in DOMAIN host.calls : host.calls[k].at \in {"answered", "delivered"}
    <2>1. CASE Done
      BY <2>1 DEF Done
    <2>2. CASE StopWorker
      <3>1. g.phase = "failing"
        BY <1>1, <1>2, <2>2 DEF StopWorker, HostState
      <3> QED
        BY <1>4, <3>1
    <2> QED
      BY <2>1, <2>2
  <1>6. CallsInOrder(g) /\ CallsPlaced(g, memos, docs)
    BY <1>1, <1>4, SameCalls DEF HostSound
  <1>7. host.fatal = "no" => ExecutionSound(g, memos, docs)
    <2> SUFFICES ASSUME host.fatal = "no" PROVE ExecutionSound(g, memos, docs)
      OBVIOUS
    <2>1. ExecutionSound(host, memos, docs)
      BY <1>1 DEF HostSound
    <2>2. AllReadings(g, memos) = AllReadings(host, memos)
      BY <1>4 DEF AllReadings
    <2>3. OnRecord(g.history, AllReadings(g, memos), docs) /\ ReadingsInOrder(g, memos)
      BY <1>4, <2>1, <2>2 DEF ExecutionSound, ReadingsInOrder
    <2>4. ASSUME NEW k \in DOMAIN g.calls PROVE CallAsRecorded(g, k, docs)
      <3>1. CallAsRecorded(host, k, docs)
        BY <1>4, <2>1 DEF ExecutionSound, CallsAsRecorded
      <3> QED
        BY <1>4, <1>5, <3>1 DEF CallAsRecorded
    <2> QED
      BY <2>3, <2>4 DEF ExecutionSound, CallsAsRecorded
  <1>8. HostSound(g, memos, docs)
    BY <1>1, <1>4, <1>6, <1>7 DEF HostSound
  <1> QED
    BY <1>2, <1>4, <1>8, HostStep DEF Done, StopWorker, durable, IInv, TypeOK

\* A call that is not delivered yet goes on.
LEMMA CallStep ==
    ASSUME IInv, outcome = "none", host \in HostState, HostSound(host, memos, docs),
           NEW k \in DOMAIN host.calls, host.calls[k].at # "delivered",
           NEW g \in HostState, OnlyCall(host, g, k), g.calls[k].at # "delivered",
           CallPlaced(g, k, memos, docs), g.fatal # "diverged",
           g.fatal = "no" =>
                /\ host.fatal = "no" /\ g.pending = host.pending /\ g.batches = host.batches
                /\ CallAsRecorded(g, k, docs),
           host' = g, UNCHANGED <<durable, stopping, surface, crashes>>
    PROVE  IInv'
  <1>1. memos \in Seq(Seq(Values)) /\ docs \in Seq(Doc)
    BY HostFacts
  <1>2. CallsInOrder(g)
    BY OrderStays DEF HostSound
  <1>3. CallsPlaced(g, memos, docs)
    <2>1. CallsPlaced(host, memos, docs)
      BY DEF HostSound
    <2>2. Extends(Recorded(memos), Recorded(memos))
      BY <1>1, FlattenAppend, EmptySeq, LenProperties DEF Extends, Recorded
    <2> QED
      BY <1>1, <2>1, <2>2, PlacesStay
  <1>4. g.fatal = "no" => ExecutionSound(g, memos, docs)
    BY ExecutionStays DEF HostSound
  <1>5. HostSound(g, memos, docs)
    BY <1>2, <1>3, <1>4 DEF HostSound
  <1>6. start \in Surfaces \cup {"none"} /\ stopping \in BOOLEAN
    BY DEF IInv, TypeOK
  <1> QED
    BY <1>5, <1>6, HostStep DEF durable

\* A recorded call is that of the record; a locked host admits none.
LEMMA MatchKeeps ==
    ASSUME IInv, outcome = "none", NEW k, Match(k)
    PROVE  IInv'
  <1>1. /\ host \in HostState /\ HostSound(host, memos, docs) /\ k \in DOMAIN host.calls
        /\ memos \in Seq(Seq(Values)) /\ docs \in Seq(Doc) /\ Len(docs) \in Nat
        /\ host.phase = "script" /\ host.calls[k].at = "reserved"
        /\ DOMAIN docs = 1 .. Len(docs)
    BY HostFacts DEF Match, Turn
  <1>2. k \in Nat /\ k > 0 /\ host.recorded \in Nat
    BY <1>1, HostTypes
  <1>3. PICK g : g = host'
    OBVIOUS
  <1>4. CASE host.fatal # "no"
    <2>1. g = Answered(host, k, Error)
      BY <1>3, <1>4 DEF Match
    <2>2. /\ g \in HostState /\ OnlyCall(host, g, k) /\ g.fatal = host.fatal
          /\ g.calls[k].at = "answered" /\ g.calls[k].reply = Error
      BY <1>1, <2>1, AnsweredFields
    <2>3. CallPlaced(g, k, memos, docs)
      BY <2>2 DEF CallPlaced, Error
    <2>4. g.fatal # "diverged"
      BY <1>1, <2>2 DEF HostSound
    <2>5. UNCHANGED <<durable, stopping, surface, crashes>>
      BY DEF Match
    <2> QED
      BY <1>1, <1>3, <1>4, <2>2, <2>3, <2>4, <2>5, CallStep
  <1>5. CASE host.fatal = "no"
    <2>1. k <= Len(docs) /\ k \in DOMAIN docs
      <3>1. host.recorded <= Len(docs) /\ k <= host.recorded
        BY <1>1, <1>5 DEF Match, HostSound, CallsPlaced
      <3> QED
        BY <1>1, <1>2, <3>1
    <2>2. docs[k].args = host.calls[k].args
      <3>1. MakesCall(docs[k].args, k) /\ OnRecord(docs[k].args, Recorded(memos), docs)
        BY <2>1 DEF IInv, DocsSound, Call
      <3>2. CallsInOrder(host) /\ OnRecord(host.history, AllReadings(host, memos), docs)
        BY <1>1, <1>5 DEF HostSound, ExecutionSound
      <3> QED
        BY <1>1, <2>1, <3>1, <3>2, RecordedCall
    <2>3. g = At(host, k, "admitted")
      BY <1>3, <1>5, <2>2 DEF Match
    <2>4. /\ g \in HostState /\ OnlyCall(host, g, k) /\ g.fatal = host.fatal
          /\ g.pending = host.pending /\ g.batches = host.batches
          /\ g.calls[k].at = "admitted"
      BY <1>1, <2>3, AtFields DEF AtStates
    <2>5. CallPlaced(g, k, memos, docs)
      BY <2>1, <2>4 DEF CallPlaced
    <2>6. CallAsRecorded(g, k, docs)
      <3>1. g.calls[k].args = host.calls[k].args /\ g.phase = "script"
        BY <1>1, <2>4 DEF OnlyCall
      <3> QED
        BY <2>1, <2>2, <2>4, <3>1 DEF CallAsRecorded
    <2>7. UNCHANGED <<durable, stopping, surface, crashes>>
      BY DEF Match
    <2> QED
      BY <1>1, <1>3, <1>5, <2>4, <2>5, <2>6, <2>7, CallStep
  <1> QED
    BY <1>4, <1>5

\* A nested task is over.
LEMMA WaitNestedKeeps ==
    ASSUME IInv, outcome = "none", NEW k, WaitNested(k)
    PROVE  IInv'
  <1>1. /\ host \in HostState /\ HostSound(host, memos, docs) /\ k \in DOMAIN host.calls
        /\ docs \in Seq(Doc) /\ Len(docs) \in Nat
        /\ host.phase = "script" /\ host.calls[k].at = "admitted"
        /\ DOMAIN docs = 1 .. Len(docs)
    BY HostFacts DEF WaitNested
  <1>2. k \in DOMAIN docs /\ docs[k] \in Doc
    <2>1. k <= Len(docs)
      BY <1>1 DEF HostSound, CallsPlaced, CallPlaced
    <2>2. k \in DOMAIN docs
      BY <1>1, <2>1, HostTypes
    <2> QED
      BY <2>2, HostFacts
  <1>3. PICK g : g = host'
    OBVIOUS
  <1>4. UNCHANGED <<durable, stopping, surface, crashes>>
    BY DEF WaitNested
  <1>5. CASE docs[k].result \in {Unknown, "none"}
    <2>1. PICK h : h = Locked(host, "unknown")
      OBVIOUS
    <2>2. g = Answered(h, k, Unknown)
      BY <1>3, <1>5, <2>1 DEF WaitNested
    <2>3. /\ h \in HostState /\ OnlyCall(host, h, 0) /\ h.calls = host.calls
          /\ h.fatal # "no" /\ h.fatal # "diverged"
      <3>1. h \in HostState /\ OnlyCall(host, h, 0) /\ h.calls = host.calls
            /\ h.fatal = IF host.fatal = "no" THEN "unknown" ELSE host.fatal
        BY <1>1, <2>1, LockedFields
      <3>2. host.fatal # "diverged"
        BY <1>1 DEF HostSound
      <3> QED
        BY <3>1, <3>2
    <2>4. /\ g \in HostState /\ OnlyCall(h, g, k) /\ g.fatal = h.fatal
          /\ g.calls[k].at = "answered" /\ g.calls[k].reply = Unknown
      BY <1>1, <2>2, <2>3, AnsweredFields
    <2>5. OnlyCall(host, g, k)
      BY <2>3, <2>4 DEF OnlyCall
    <2>6. CallPlaced(g, k, memos, docs)
      BY <2>4 DEF CallPlaced, Unknown
    <2> QED
      BY <1>1, <1>3, <1>4, <2>3, <2>4, <2>5, <2>6, CallStep
  <1>6. CASE docs[k].result \notin {Unknown, "none"}
    <2>1. g = Answered(host, k, docs[k].result) /\ docs[k].result \in Values
      BY <1>2, <1>3, <1>6 DEF WaitNested, Doc
    <2>2. /\ g \in HostState /\ OnlyCall(host, g, k) /\ g.fatal = host.fatal
          /\ g.pending = host.pending /\ g.batches = host.batches
          /\ g.calls[k].at = "answered" /\ g.calls[k].reply = docs[k].result
      BY <1>1, <2>1, AnsweredFields
    <2>3. CallPlaced(g, k, memos, docs)
      BY <2>1, <2>2, ValuesAssumption DEF CallPlaced
    <2>4. g.fatal = "no" => CallAsRecorded(g, k, docs)
      <3> SUFFICES ASSUME g.fatal = "no" PROVE CallAsRecorded(g, k, docs)
        OBVIOUS
      <3>1. CallAsRecorded(host, k, docs)
        BY <1>1, <2>2 DEF HostSound, ExecutionSound, CallsAsRecorded
      <3>2. g.calls[k].args = host.calls[k].args /\ g.phase = "script"
        BY <1>1, <2>2 DEF OnlyCall
      <3> QED
        BY <1>1, <1>2, <2>1, <2>2, <3>1, <3>2 DEF CallAsRecorded
    <2>5. g.fatal # "diverged"
      BY <1>1, <2>2 DEF HostSound
    <2> QED
      BY <1>1, <1>3, <1>4, <2>2, <2>3, <2>4, <2>5, CallStep
  <1> QED
    BY <1>5, <1>6

\* A step that puts readings on record.
LEMMA MemosStep ==
    ASSUME IInv, outcome' = "none", memos' \in Seq(Seq(Values)),
           Extends(Recorded(memos), Recorded(memos')),
           UNCHANGED <<start, docs, nested, stopping, surface, crashes>>,
           host' \in HostState, HostSound(host', memos', docs)
    PROVE  IInv'
  <1>1. TypeOK'
    BY DEF IInv, TypeOK, Call
  <1>2. ASSUME NEW i \in Call PROVE OnRecord(docs[i].args, Recorded(memos'), docs)
    <2>1. PICK N : N = memos'
      OBVIOUS
    <2>2. /\ memos \in Seq(Seq(Values)) /\ docs \in Seq(Doc) /\ docs[i] \in Doc
          /\ N \in Seq(Seq(Values)) /\ Extends(Recorded(memos), Recorded(N))
      BY <1>2, <2>1, HostFacts DEF Call
    <2>3. Recorded(memos) \in Seq(Values) /\ Recorded(N) \in Seq(Values)
      BY <2>2, FlattenAppend, EmptySeq DEF Recorded
    <2>4. OnRecord(docs[i].args, Recorded(memos), docs) /\ docs[i].args \in History
      BY <1>2, <2>2 DEF IInv, DocsSound, Doc
    <2>5. DocsGrow(docs, docs)
      BY <2>2, LenProperties DEF DocsGrow
    <2>6. OnRecord(docs[i].args, Recorded(N), docs)
      BY <2>2, <2>3, <2>4, <2>5, OnRecordGrows
    <2> QED
      BY <2>1, <2>6
  <1>3. DocsSound'
    BY <1>2 DEF IInv, DocsSound, Call
  <1>4. CompletedAsRecorded'
    BY DEF CompletedAsRecorded
  <1> QED
    BY <1>1, <1>3, <1>4 DEF IInv

\* What was read is put on record: no memo of that name is there.
LEMMA FlushFacts ==
    ASSUME host \in HostState, memos \in Seq(Seq(Values)), ReadingsInOrder(host, memos),
           NEW f, f = Flushed(host), NEW N, N = MemosAfter(host)
    PROVE  /\ f \in HostState /\ OnlyCall(host, f, 0) /\ f.calls = host.calls
           /\ f.fatal = host.fatal /\ N \in Seq(Seq(Values))
           /\ Recorded(N) = AllReadings(host, memos)
           /\ AllReadings(f, N) = AllReadings(host, memos)
           /\ Extends(Recorded(memos), Recorded(N))
           /\ ReadingsInOrder(f, N)
  <1>1. /\ host.pending \in Seq(Values) /\ host.batches = Len(memos) /\ Len(memos) \in Nat
        /\ host.replay \in Seq(Values) /\ DOMAIN host.replay = 1 .. Len(host.replay)
        /\ Len(host.replay) \in Nat /\ host.read \in Nat /\ host.batches \in Nat
    BY HostTypes, LenProperties DEF ReadingsInOrder
  <1>2. PICK R : R = Recorded(memos)
    OBVIOUS
  <1>3. PICK all : all = AllReadings(host, memos)
    OBVIOUS
  <1>4. /\ R \in Seq(Values) /\ all \in Seq(Values) /\ all = R \o host.pending
        /\ Extends(R, all) /\ Len(R) \in Nat /\ Len(all) \in Nat
        /\ Recorded(Append(memos, host.pending)) = all
        /\ Append(memos, host.pending) \in Seq(Seq(Values))
        /\ Len(Append(memos, host.pending)) = Len(memos) + 1
    BY <1>1, <1>2, <1>3, RecordedType, LenProperties DEF AllReadings
  <1>5. CASE host.pending = <<>>
    <2>1. f = host /\ N = memos
      BY <1>5 DEF Flushed, MemosAfter
    <2>2. all = R
      BY <1>4, <1>5, ConcatEmptySeq
    <2>3. OnlyCall(host, host, 0)
      BY DEF OnlyCall
    <2> QED
      BY <1>2, <1>3, <1>4, <2>1, <2>2, <2>3
  <1>6. CASE host.pending # <<>>
    <2>1. ~(host.batches + 1 <= Len(memos))
      BY <1>1
    <2>2. f = [host EXCEPT !.pending = <<>>, !.batches = @ + 1]
          /\ N = Append(memos, host.pending)
      BY <1>6, <2>1 DEF Flushed, MemosAfter
    <2>3. PICK batches : batches = host.batches + 1
      OBVIOUS
    <2>4. <<>> \in Seq(Values) /\ batches \in Nat
      BY <1>1, <2>3, EmptySeq
    <2>5. f = [host EXCEPT !.pending = <<>>, !.batches = batches]
      BY <2>2, <2>3 DEF HostState
    <2>6. /\ f \in HostState /\ f.phase = host.phase /\ f.history = host.history
          /\ f.calls = host.calls /\ f.replay = host.replay /\ f.read = host.read
          /\ f.pending = <<>> /\ f.batches = batches /\ f.recorded = host.recorded
          /\ f.fatal = host.fatal
      BY <2>4, <2>5 DEF HostState
    <2>7. OnlyCall(host, f, 0)
      BY <2>6 DEF OnlyCall
    <2>8. Recorded(N) = all /\ AllReadings(f, N) = all
      BY <1>4, <2>2, <2>6, ConcatEmptySeq DEF AllReadings
    <2>9. ReadingsInOrder(f, N)
      <3>1. ~(host.read < Len(host.replay)) /\ host.read <= Len(host.replay)
        BY <1>6 DEF ReadingsInOrder
      <3>2. ReadNo(Len(host.history)) = Len(all)
        BY <1>3, <3>1 DEF ReadingsInOrder
      <3>3. Len(host.replay) <= Len(all) /\ \A m \in DOMAIN host.replay : host.replay[m] = all[m]
        <4>1. Len(host.replay) <= Len(R) /\ \A m \in DOMAIN host.replay : host.replay[m] = R[m]
          BY <1>2 DEF ReadingsInOrder
        <4> QED
          BY <1>1, <1>4, <4>1 DEF Extends
      <3>4. f.batches = Len(N)
        BY <1>1, <1>4, <2>2, <2>3, <2>6
      <3> QED
        BY <2>6, <2>8, <3>1, <3>2, <3>3, <3>4 DEF ReadingsInOrder
    <2>10. N \in Seq(Seq(Values)) /\ Extends(R, Recorded(N))
      BY <1>4, <2>2, <2>8
    <2> QED
      BY <1>2, <1>3, <2>6, <2>7, <2>8, <2>9, <2>10
  <1> QED
    BY <1>5, <1>6

\* And an execution is sound behind it.
LEMMA FlushSound ==
    ASSUME host \in HostState, memos \in Seq(Seq(Values)), docs \in Seq(Doc),
           HostSound(host, memos, docs), host.fatal = "no",
           NEW f, f = Flushed(host), NEW N, N = MemosAfter(host)
    PROVE  HostSound(f, N, docs)
  <1>1. ReadingsInOrder(host, memos) /\ ExecutionSound(host, memos, docs)
    BY DEF HostSound, ExecutionSound
  <1>2. /\ f \in HostState /\ OnlyCall(host, f, 0) /\ f.calls = host.calls
        /\ f.fatal = host.fatal /\ N \in Seq(Seq(Values))
        /\ AllReadings(f, N) = AllReadings(host, memos)
        /\ Extends(Recorded(memos), Recorded(N))
        /\ ReadingsInOrder(f, N)
    BY <1>1, FlushFacts
  <1>3. 0 \notin DOMAIN host.calls
    BY HostTypes
  <1>4. CallsInOrder(f)
    BY <1>2, <1>3, OrderStays DEF HostSound
  <1>5. CallsPlaced(f, N, docs)
    BY <1>2, <1>3, PlacesStay DEF HostSound
  <1>6. OnRecord(f.history, AllReadings(f, N), docs)
    BY <1>1, <1>2 DEF ExecutionSound, OnlyCall
  <1>7. CallsAsRecorded(f, docs)
    BY <1>1, <1>2, SameCalls DEF ExecutionSound, OnlyCall
  <1> QED
    BY <1>2, <1>4, <1>5, <1>6, <1>7 DEF HostSound, ExecutionSound

\* A new call: what was read goes on record first.
LEMMA FlushKeeps ==
    ASSUME IInv, outcome = "none", NEW k, Flush(k)
    PROVE  IInv'
  <1>1. /\ host \in HostState /\ HostSound(host, memos, docs) /\ k \in DOMAIN host.calls
        /\ memos \in Seq(Seq(Values)) /\ docs \in Seq(Doc) /\ Len(docs) \in Nat
        /\ host.phase = "script" /\ host.calls[k].at = "reserved" /\ host.fatal = "no"
        /\ DOMAIN docs = 1 .. Len(docs) /\ k > host.recorded
    BY HostFacts DEF Flush, Turn
  <1>2. k \in Nat /\ k > 0 /\ DOMAIN host.calls = 1 .. Len(host.calls) /\ Len(host.calls) \in Nat
    BY <1>1, HostTypes
  <1>3. PICK f : f = Flushed(host)
    OBVIOUS
  <1>4. PICK N : N = MemosAfter(host)
    OBVIOUS
  <1>5. /\ f \in HostState /\ OnlyCall(host, f, 0) /\ f.calls = host.calls
        /\ f.fatal = host.fatal /\ N \in Seq(Seq(Values))
        /\ Recorded(N) = AllReadings(host, memos)
        /\ Extends(Recorded(memos), Recorded(N))
    BY <1>1, <1>3, <1>4, FlushFacts DEF HostSound, ExecutionSound
  <1>6. HostSound(f, N, docs)
    BY <1>1, <1>3, <1>4, FlushSound
  <1>7. PICK g : g = At(f, k, "flushed")
    OBVIOUS
  <1>8. /\ g \in HostState /\ OnlyCall(f, g, k) /\ g.fatal = f.fatal
        /\ g.pending = f.pending /\ g.batches = f.batches
        /\ g.calls[k].at = "flushed"
    BY <1>1, <1>5, <1>7, AtFields DEF AtStates
  <1>9. k = Len(docs) + 1
    <2>1. k > Len(docs)
      BY <1>1 DEF HostSound, CallsPlaced, CallPlaced
    <2>2. ASSUME k # 1 PROVE k - 1 <= Len(docs)
      <3>1. k - 1 \in 1 .. k - 1 /\ k - 1 \in DOMAIN host.calls
        BY <1>1, <1>2, <2>2
      <3>2. host.calls[k - 1].at \in {"admitted", "answered", "delivered"}
        BY <3>1 DEF Flush, Turn
      <3>3. CallAsRecorded(host, k - 1, docs)
        BY <1>1, <3>1 DEF HostSound, ExecutionSound, CallsAsRecorded
      <3>4. k - 1 \in DOMAIN docs
        BY <3>2, <3>3 DEF CallAsRecorded
      <3> QED
        BY <1>1, <3>4
    <2> QED
      BY <1>1, <1>2, <2>1, <2>2
  <1>10. g.calls[k].args = host.calls[k].args /\ g.phase = "script"
    <2>1. k \in DOMAIN f.calls
      BY <1>1, <1>5
    <2>2. g.calls[k].args = f.calls[k].args /\ g.phase = f.phase /\ f.phase = host.phase
      BY <1>5, <1>8, <2>1 DEF OnlyCall
    <2> QED
      BY <1>1, <1>5, <2>2
  <1>11. OnRecord(g.calls[k].args, Recorded(N), docs)
    <2>1. CallInOrder(host, k) /\ OnRecord(host.history, AllReadings(host, memos), docs)
      BY <1>1 DEF HostSound, CallsInOrder, ExecutionSound
    <2>2. IsPart(host.calls[k].args, host.history)
      BY <1>1, <2>1, HostTypes DEF CallInOrder, IsPart, Behind
    <2>3. AllReadings(host, memos) \in Seq(Values)
      BY <1>1, RecordedType, HostTypes DEF AllReadings
    <2>4. OnRecord(host.calls[k].args, AllReadings(host, memos), docs)
      BY <1>1, <2>1, <2>2, <2>3, PartOnRecord, HostTypes
    <2> QED
      BY <1>5, <1>10, <2>4
  <1>12. CallPlaced(g, k, N, docs)
    BY <1>8, <1>9, <1>11 DEF CallPlaced
  <1>13. CallAsRecorded(g, k, docs)
    BY <1>8, <1>10 DEF CallAsRecorded
  <1>14. HostSound(g, N, docs)
    <2>1. CallsInOrder(g)
      BY <1>1, <1>5, <1>6, <1>8, OrderStays DEF HostSound
    <2>2. CallsPlaced(g, N, docs)
      <3>1. Extends(Recorded(N), Recorded(N))
        BY <1>5, FlattenAppend, EmptySeq, LenProperties DEF Extends, Recorded
      <3> QED
        BY <1>1, <1>5, <1>6, <1>8, <1>12, <3>1, PlacesStay DEF HostSound
    <2>3. ExecutionSound(g, N, docs)
      BY <1>1, <1>5, <1>6, <1>8, <1>13, ExecutionStays DEF HostSound
    <2> QED
      BY <1>1, <1>5, <1>8, <2>1, <2>2, <2>3 DEF HostSound
  <1>15. host' = g /\ memos' = N
    BY <1>3, <1>4, <1>7 DEF Flush
  <1> QED
    BY <1>5, <1>8, <1>14, <1>15, MemosStep DEF Flush

\* The last readings.
LEMMA FlushEndKeeps ==
    ASSUME IInv, outcome = "none", FlushEnd
    PROVE  IInv'
  <1>1. /\ host \in HostState /\ HostSound(host, memos, docs)
        /\ memos \in Seq(Seq(Values)) /\ docs \in Seq(Doc) /\ host.fatal = "no"
    BY HostFacts DEF FlushEnd, Closed, CheckEnd
  <1>2. PICK f : f = Flushed(host)
    OBVIOUS
  <1>3. PICK N : N = MemosAfter(host)
    OBVIOUS
  <1>4. /\ f \in HostState /\ N \in Seq(Seq(Values))
        /\ Extends(Recorded(memos), Recorded(N))
    BY <1>1, <1>2, <1>3, FlushFacts DEF HostSound, ExecutionSound
  <1>5. HostSound(f, N, docs)
    BY <1>1, <1>2, <1>3, FlushSound
  <1>6. host' = f /\ memos' = N
    BY <1>2, <1>3 DEF FlushEnd
  <1> QED
    BY <1>4, <1>5, <1>6, MemosStep DEF FlushEnd

\* Documents with the histories of others that foretell the same.
LEMMA DocsStaySound ==
    ASSUME IInv, NEW E \in Seq(Doc), DocsGrow(docs, E), NEW i \in Call
    PROVE  /\ E[i].args = docs[i].args /\ MakesCall(E[i].args, i)
           /\ OnRecord(E[i].args, Recorded(memos), E)
  <1>1. /\ memos \in Seq(Seq(Values)) /\ docs \in Seq(Doc) /\ docs[i] \in Doc
        /\ DOMAIN docs = 1 .. Len(docs)
    BY HostFacts DEF Call
  <1>2. E[i].args = docs[i].args
    BY <1>1 DEF DocsGrow, Call
  <1>3. Recorded(memos) \in Seq(Values) /\ Extends(Recorded(memos), Recorded(memos))
    BY <1>1, FlattenAppend, EmptySeq, LenProperties DEF Recorded, Extends
  <1>4. /\ MakesCall(docs[i].args, i) /\ OnRecord(docs[i].args, Recorded(memos), docs)
        /\ docs[i].args \in History
    BY <1>1 DEF IInv, DocsSound, Doc
  <1>5. OnRecord(docs[i].args, Recorded(memos), E)
    BY <1>1, <1>3, <1>4, OnRecordGrows
  <1> QED
    BY <1>2, <1>4, <1>5

\* A flushed call is on record whatever the documents become.
LEMMA FlushedStays ==
    ASSUME NEW h \in HostState, NEW k \in DOMAIN h.calls, NEW M \in Seq(Seq(Values)),
           NEW D \in Seq(Doc), NEW E \in Seq(Doc), DocsGrow(D, E),
           OnRecord(h.calls[k].args, Recorded(M), D)
    PROVE  OnRecord(h.calls[k].args, Recorded(M), E)
  <1>1. Recorded(M) \in Seq(Values) /\ Extends(Recorded(M), Recorded(M))
    BY FlattenAppend, EmptySeq, LenProperties DEF Recorded, Extends
  <1>2. h.calls[k].args \in History
    BY HostTypes
  <1> QED
    BY <1>1, <1>2, OnRecordGrows

\* The nested task and its document are committed.
LEMMA AdmitKeeps ==
    ASSUME IInv, outcome = "none", NEW k, Admit(k)
    PROVE  IInv'
  <1>1. /\ host \in HostState /\ HostSound(host, memos, docs) /\ k \in DOMAIN host.calls
        /\ memos \in Seq(Seq(Values)) /\ docs \in Seq(Doc) /\ Len(docs) \in Nat
        /\ DOMAIN docs = 1 .. Len(docs)
        /\ host.phase = "script" /\ host.calls[k].at = "flushed"
    BY HostFacts DEF Admit, Turn
  <1>2. /\ k = Len(docs) + 1 /\ OnRecord(host.calls[k].args, Recorded(memos), docs)
    BY <1>1 DEF HostSound, CallsPlaced, CallPlaced
  <1>3. PICK new : new = [args |-> host.calls[k].args, result |-> "none"]
    OBVIOUS
  <1>4. new \in Doc /\ new.args = host.calls[k].args /\ new.result = "none"
    BY <1>1, <1>3, HostTypes DEF Doc
  <1>5. PICK E : E = docs'
    OBVIOUS
  <1>6. E = Append(docs, new) /\ nested' = Append(nested, "call")
    BY <1>3, <1>5 DEF Admit
  <1>7. /\ E \in Seq(Doc) /\ Len(E) = k /\ DOMAIN E = 1 .. k /\ E[k] = new
        /\ \A i \in 1 .. Len(docs) : E[i] = docs[i]
    BY <1>1, <1>2, <1>4, <1>6, AppendProperties
  <1>8. DocsGrow(docs, E)
    BY <1>1, <1>2, <1>7 DEF DocsGrow
  <1>9. /\ nested \in [1 .. Len(docs) -> {"call", "begun", "lost", "over"}]
        /\ nested \in Seq({"call", "begun", "lost", "over"}) /\ Len(nested) = Len(docs)
    <2>1. nested \in [1 .. Len(docs) -> {"call", "begun", "lost", "over"}]
      BY <1>1 DEF IInv, TypeOK, Call
    <2> QED
      BY <1>1, <2>1, FunctionSeq
  <1>10. /\ nested' \in [1 .. k -> {"call", "begun", "lost", "over"}]
         /\ \A i \in 1 .. Len(docs) : nested'[i] = nested[i]
    <2>1. PICK after : after = Append(nested, "call")
      OBVIOUS
    <2>2. /\ after \in Seq({"call", "begun", "lost", "over"}) /\ Len(after) = k
          /\ \A i \in 1 .. Len(docs) : after[i] = nested[i]
      BY <1>2, <1>9, <2>1, AppendProperties
    <2>3. after \in [1 .. k -> {"call", "begun", "lost", "over"}]
      BY <2>2, LenProperties
    <2> QED
      BY <1>6, <2>1, <2>2, <2>3
  <1>11. PICK g : g = At(host, k, "admitted")
    OBVIOUS
  <1>12. /\ g \in HostState /\ OnlyCall(host, g, k) /\ g.fatal = host.fatal
         /\ g.pending = host.pending /\ g.batches = host.batches
         /\ g.calls[k].at = "admitted"
    BY <1>1, <1>11, AtFields DEF AtStates
  <1>13. host' = g
    BY <1>11 DEF Admit
  <1>14. TypeOK'
    <2>1. E \in Seq([args : History, result : Values \cup {Unknown, "none"}])
      BY <1>7 DEF Doc
    <2>2. Call' = 1 .. k
      BY <1>5, <1>7 DEF Call
    <2> QED
      BY <1>5, <1>10, <1>12, <1>13, <2>1, <2>2 DEF Admit, IInv, TypeOK
  <1>15. DocsSound'
    <2> SUFFICES ASSUME NEW i \in 1 .. k
                 PROVE  /\ MakesCall(E[i].args, i)
                        /\ OnRecord(E[i].args, Recorded(memos), E)
                        /\ E[i].result # "none" => nested'[i] = "over"
      <3>1. Call' = 1 .. k /\ UNCHANGED memos
        BY <1>5, <1>7 DEF Call, Admit
      <3> QED
        BY <1>5, <3>1 DEF DocsSound
    <2>1. CASE i = k
      <3>1. MakesCall(new.args, k)
        BY <1>1, <1>4 DEF HostSound, CallsInOrder, CallInOrder
      <3>2. OnRecord(new.args, Recorded(memos), E)
        BY <1>1, <1>2, <1>4, <1>7, <1>8, FlushedStays
      <3> QED
        BY <1>4, <1>7, <2>1, <3>1, <3>2
    <2>2. CASE i # k
      <3>1. i \in Call /\ i \in 1 .. Len(docs)
        BY <1>1, <1>2, <2>2 DEF Call
      <3>2. MakesCall(E[i].args, i) /\ OnRecord(E[i].args, Recorded(memos), E)
        BY <1>7, <1>8, <3>1, DocsStaySound
      <3>3. docs[i].result # "none" => nested[i] = "over"
        BY <3>1 DEF IInv, DocsSound
      <3> QED
        BY <1>7, <1>10, <3>1, <3>2, <3>3
    <2> QED
      BY <2>1, <2>2
  <1>16. HostSound(g, memos, E)
    <2>1. CallsInOrder(g)
      BY <1>1, <1>12, OrderStays DEF HostSound
    <2>2. CallsPlaced(g, memos, E)
      <3>1. /\ DOMAIN g.calls = DOMAIN host.calls /\ Len(g.calls) = Len(host.calls)
            /\ g.recorded = host.recorded /\ host.recorded \in Nat
            /\ DOMAIN host.calls = 1 .. Len(host.calls) /\ Len(host.calls) \in Nat
        BY <1>1, <1>12, HostTypes DEF OnlyCall
      <3>2. /\ host.recorded <= Len(docs)
            /\ \A j \in DOMAIN host.calls : CallPlaced(host, j, memos, docs)
        BY <1>1 DEF HostSound, CallsPlaced
      <3>3. ASSUME NEW j \in DOMAIN g.calls PROVE CallPlaced(g, j, memos, E)
        <4>1. CASE j = k
          BY <1>7, <1>12, <4>1, <3>1 DEF CallPlaced
        <4>2. CASE j # k
          <5>1. g.calls[j] = host.calls[j] /\ CallPlaced(host, j, memos, docs)
            BY <1>12, <3>1, <3>2, <4>2 DEF OnlyCall
          <5>2. j \in Nat /\ Len(E) = Len(docs) + 1
            BY <1>2, <1>7, <3>1
          <5> QED
            BY <1>1, <1>2, <3>1, <4>2, <5>1, <5>2 DEF CallPlaced
        <4> QED
          BY <4>1, <4>2
      <3> QED
        BY <1>1, <1>2, <1>7, <3>1, <3>2, <3>3 DEF CallsPlaced
    <2>3. CallAsRecorded(g, k, E)
      <3>1. g.calls[k].args = host.calls[k].args /\ g.phase = "script"
        BY <1>1, <1>12 DEF OnlyCall
      <3>2. k \in DOMAIN E /\ E[k].args = g.calls[k].args
        BY <1>1, <1>2, <1>4, <1>7, <3>1
      <3> QED
        BY <1>12, <3>1, <3>2 DEF CallAsRecorded
    <2>4. g.fatal = "no" => ExecutionSound(g, memos, E)
      BY <1>1, <1>7, <1>8, <1>12, <2>3, GrownDocs, ExecutionStays DEF HostSound
    <2>5. g.fatal # "diverged"
      BY <1>1, <1>12 DEF HostSound
    <2> QED
      BY <2>1, <2>2, <2>4, <2>5 DEF HostSound
  <1>17. HostSound(host, memos, docs)'
    BY <1>5, <1>13, <1>16 DEF Admit
  <1>18. CompletedAsRecorded'
    BY DEF Admit, CompletedAsRecorded
  <1> QED
    BY <1>14, <1>15, <1>17, <1>18 DEF IInv

\* A nested task is over.
LEMMA OverKeeps ==
    ASSUME IInv, outcome = "none", NEW i \in Call, Live(i),
           NEW r \in Values \cup {Unknown, "none"}, Over(i, r)
    PROVE  IInv'
  <1>1. /\ memos \in Seq(Seq(Values)) /\ docs \in Seq(Doc) /\ Len(docs) \in Nat
        /\ DOMAIN docs = 1 .. Len(docs) /\ docs[i] \in Doc
        /\ host # Off => host \in HostState /\ HostSound(host, memos, docs)
    BY HostFacts DEF Call
  <1>2. docs[i].result = "none"
    BY DEF IInv, DocsSound, Live
  <1>3. PICK E : E = docs'
    OBVIOUS
  <1>4. PICK new : new = [docs[i] EXCEPT !.result = r]
    OBVIOUS
  <1>5. new \in Doc /\ new.args = docs[i].args /\ new.result = r
    BY <1>1, <1>4 DEF Doc
  <1>6. E = [docs EXCEPT ![i] = new]
    BY <1>3, <1>4 DEF Over
  <1>7. /\ E \in Seq(Doc) /\ Len(E) = Len(docs) /\ E[i] = new /\ DOMAIN E = DOMAIN docs
        /\ \A j \in DOMAIN docs : j # i => E[j] = docs[j]
    BY <1>1, <1>5, <1>6, ExceptSeq DEF Call
  <1>8. DocsGrow(docs, E)
    <2>1. "none" \notin Values
      BY ValuesAssumption
    <2> QED
      BY <1>1, <1>2, <1>5, <1>7, <2>1 DEF DocsGrow
  <1>9. /\ nested' \in [DOMAIN docs -> {"call", "begun", "lost", "over"}]
        /\ nested'[i] = "over"
        /\ \A j \in DOMAIN docs : j # i => nested'[j] = nested[j]
    BY DEF Over, IInv, TypeOK, Call
  <1>10. TypeOK'
    <2>1. E \in Seq([args : History, result : Values \cup {Unknown, "none"}])
      BY <1>7 DEF Doc
    <2>2. Call' = DOMAIN docs
      BY <1>3, <1>7 DEF Call
    <2> QED
      BY <1>3, <1>9, <2>1, <2>2 DEF Over, IInv, TypeOK
  <1>11. DocsSound'
    <2> SUFFICES ASSUME NEW j \in Call
                 PROVE  /\ MakesCall(E[j].args, j)
                        /\ OnRecord(E[j].args, Recorded(memos), E)
                        /\ E[j].result # "none" => nested'[j] = "over"
      <3>1. Call' = Call /\ UNCHANGED memos
        BY <1>3, <1>7 DEF Call, Over
      <3> QED
        BY <1>3, <3>1 DEF DocsSound
    <2>1. MakesCall(E[j].args, j) /\ OnRecord(E[j].args, Recorded(memos), E)
      BY <1>7, <1>8, DocsStaySound
    <2>2. docs[j].result # "none" => nested[j] = "over"
      BY DEF IInv, DocsSound
    <2> QED
      BY <1>7, <1>9, <2>1, <2>2 DEF Call
  <1>12. host # Off => HostSound(host, memos, E)
    <2> SUFFICES ASSUME host # Off PROVE HostSound(host, memos, E)
      OBVIOUS
    <2>1. CallsPlaced(host, memos, E)
      <3>1. ASSUME NEW k \in DOMAIN host.calls PROVE CallPlaced(host, k, memos, E)
        <4>1. CallPlaced(host, k, memos, docs)
          BY <1>1 DEF HostSound, CallsPlaced
        <4>2. OnRecord(host.calls[k].args, Recorded(memos), docs)
                => OnRecord(host.calls[k].args, Recorded(memos), E)
          BY <1>1, <1>7, <1>8, FlushedStays
        <4> QED
          BY <1>7, <4>1, <4>2 DEF CallPlaced
      <3> QED
        BY <1>1, <1>7, <3>1 DEF HostSound, CallsPlaced
    <2>2. host.fatal = "no" => ExecutionSound(host, memos, E)
      BY <1>1, <1>7, <1>8, GrownDocs DEF HostSound
    <2> QED
      BY <1>1, <2>1, <2>2 DEF HostSound
  <1>13. (host # Off => HostSound(host, memos, docs))'
    BY <1>3, <1>12 DEF Over
  <1>14. CompletedAsRecorded'
    BY DEF Over, CompletedAsRecorded
  <1> QED
    BY <1>10, <1>11, <1>13, <1>14 DEF IInv

\* An intent is committed, or the process restarts: no result is written.
LEMMA TasksStep ==
    ASSUME IInv, outcome' = "none", UNCHANGED <<start, memos, docs, stopping>>,
           surface' \in Surfaces, crashes' \in 0 .. MaxCrashes,
           nested' \in [Call -> {"call", "begun", "lost", "over"}],
           \A i \in Call : nested[i] = "over" => nested'[i] = "over",
           host' \in {host, Off}
    PROVE  IInv'
  <1>1. TypeOK'
    BY DEF IInv, TypeOK, Call
  <1>2. DocsSound'
    <2>1. ASSUME NEW i \in Call
          PROVE  /\ MakesCall(docs[i].args, i)
                 /\ OnRecord(docs[i].args, Recorded(memos), docs)
                 /\ docs[i].result # "none" => nested'[i] = "over"
      BY DEF IInv, DocsSound
    <2> QED
      BY <2>1 DEF DocsSound, Call
  <1>3. (host # Off => HostSound(host, memos, docs))'
    BY DEF IInv
  <1>4. CompletedAsRecorded'
    BY DEF CompletedAsRecorded
  <1> QED
    BY <1>1, <1>2, <1>3, <1>4 DEF IInv

LEMMA NestedBeginKeeps ==
    ASSUME IInv, outcome = "none", NEW i \in Call, NestedBegin(i)
    PROVE  IInv'
  <1>1. nested \in [Call -> {"call", "begun", "lost", "over"}] /\ nested[i] # "over"
    BY DEF IInv, TypeOK, NestedBegin
  <1>2. /\ nested' \in [Call -> {"call", "begun", "lost", "over"}]
        /\ \A j \in Call : nested[j] = "over" => nested'[j] = "over"
    BY <1>1 DEF NestedBegin
  <1> QED
    BY <1>2, TasksStep DEF NestedBegin, IInv, TypeOK

LEMMA CrashKeeps ==
    ASSUME IInv, Crash
    PROVE  IInv'
  <1>1. nested \in [Call -> {"call", "begun", "lost", "over"}]
    BY DEF IInv, TypeOK
  <1>2. /\ nested' \in [Call -> {"call", "begun", "lost", "over"}]
        /\ \A j \in Call : nested[j] = "over" => nested'[j] = "over"
    BY <1>1 DEF Crash
  <1>3. crashes' \in 0 .. MaxCrashes
    BY CrashesAssumption DEF Crash, IInv, TypeOK
  <1> QED
    BY <1>2, <1>3, TasksStep DEF Crash

LEMMA AbortKeeps ==
    ASSUME IInv, Abort
    PROVE  IInv'
  <1>1. TypeOK'
    BY DEF Abort, durable, IInv, TypeOK, Call
  <1>2. DocsSound'
    BY DEF Abort, durable, IInv, DocsSound, Call
  <1>3. (host # Off => HostSound(host, memos, docs))'
    BY DEF Abort, durable, IInv
  <1>4. CompletedAsRecorded'
    BY DEF Abort, durable, CompletedAsRecorded
  <1> QED
    BY <1>1, <1>2, <1>3, <1>4 DEF IInv

\* A script that completes has one document for every call.
LEMMA CompletedRecorded ==
    ASSUME IInv, host # Off, host.phase = "closing", CheckEnd
    PROVE  /\ Len(docs) = Len(host.calls)
           /\ \A k \in Call : /\ docs[k].args = host.calls[k].args
                              /\ docs[k].result = host.calls[k].reply
  <1>1. /\ host \in HostState /\ HostSound(host, memos, docs) /\ host.fatal = "no"
        /\ Len(docs) \in Nat /\ DOMAIN docs = 1 .. Len(docs)
        /\ Len(host.calls) >= host.recorded
    BY HostFacts DEF CheckEnd
  <1>2. /\ Len(host.calls) \in Nat /\ DOMAIN host.calls = 1 .. Len(host.calls)
        /\ host.recorded \in Nat
    BY <1>1, HostTypes
  <1>3. Len(docs) <= Len(host.calls)
    <2>1. Len(docs) <= host.recorded \/ Len(docs) <= Len(host.calls)
      BY <1>1 DEF HostSound, CallsPlaced
    <2> QED
      BY <1>1, <1>2, <2>1
  <1>4. ASSUME NEW k \in DOMAIN host.calls
        PROVE  k \in DOMAIN docs /\ docs[k].args = host.calls[k].args
               /\ docs[k].result = host.calls[k].reply
    <2>1. CallAsRecorded(host, k, docs)
      BY <1>1 DEF HostSound, ExecutionSound, CallsAsRecorded
    <2> QED
      BY <2>1 DEF CallAsRecorded
  <1>5. Len(host.calls) <= Len(docs)
    <2>1. CASE Len(host.calls) = 0
      BY <1>1, <2>1
    <2>2. CASE Len(host.calls) # 0
      <3>1. Len(host.calls) \in DOMAIN host.calls
        BY <1>2, <2>2
      <3>2. Len(host.calls) \in DOMAIN docs
        BY <1>4, <3>1
      <3> QED
        BY <1>1, <3>2
    <2> QED
      BY <2>1, <2>2
  <1>6. Len(docs) = Len(host.calls) /\ Call = DOMAIN host.calls
    BY <1>1, <1>2, <1>3, <1>5 DEF Call
  <1> QED
    BY <1>4, <1>6

\* The execution is judged, or the outer call is aborted.
LEMMA EndKeeps ==
    ASSUME IInv, Finish \/ Aborted
    PROVE  IInv'
  <1>1. /\ UNCHANGED <<start, memos, docs, nested, stopping, surface, crashes, host>>
        /\ outcome' \in {"none", "completed", "failed", "uncertain", "aborted"}
        /\ \A i \in Call : ~Live(i)
    BY DEF Finish, Aborted, Closed
  <1>2. TypeOK'
    BY <1>1 DEF IInv, TypeOK, Call
  <1>3. DocsSound'
    BY <1>1 DEF IInv, DocsSound, Call
  <1>4. (host # Off => HostSound(host, memos, docs))'
    BY <1>1 DEF IInv
  <1>5. CompletedAsRecorded'
    <2>1. (\A i \in Call : ~Live(i))'
      BY <1>1 DEF Call, Live
    <2>2. outcome' = "completed" =>
            /\ Len(docs) = Len(host.calls)
            /\ \A k \in Call : /\ docs[k].args = host.calls[k].args
                               /\ docs[k].result = host.calls[k].reply
      <3> SUFFICES ASSUME outcome' = "completed"
                   PROVE  host # Off /\ host.phase = "closing" /\ CheckEnd
        BY CompletedRecorded
      <3> QED
        BY DEF Finish, Aborted, Closed
    <2> QED
      BY <1>1, <2>1, <2>2 DEF CompletedAsRecorded, Call
  <1> QED
    BY <1>2, <1>3, <1>4, <1>5 DEF IInv

\* A result of a nested task, or the lack of one.
LEMMA NestedKeeps ==
    ASSUME IInv, outcome = "none", NEW i \in Call,
           Nested(i) \/ NestedRefuse(i) \/ NestedFault(i)
    PROVE  IInv'
  <1>1. CASE NestedBegin(i)
    BY <1>1, NestedBeginKeeps
  <1>2. ASSUME NEW r \in Values \cup {Unknown, "none"}, Over(i, r), Live(i)
        PROVE  IInv'
    BY <1>2, OverKeeps
  <1>3. CASE NestedEnd(i)
    BY <1>2, <1>3 DEF NestedEnd, Live
  <1>4. CASE NestedUnknown(i)
    BY <1>2, <1>4 DEF NestedUnknown, Live
  <1>5. CASE NestedAbort(i)
    BY <1>2, <1>5 DEF NestedAbort
  <1>6. CASE NestedRefuse(i)
    BY <1>2, <1>6 DEF NestedRefuse, Live
  <1>7. CASE NestedFault(i)
    BY <1>2, <1>7 DEF NestedFault
  <1> QED
    BY <1>1, <1>3, <1>4, <1>5, <1>6, <1>7 DEF Nested

-----------------------------------------------------------------------------
(* The theorems.                                                           *)

LEMMA InitIInv == Init => IInv
  <1> SUFFICES ASSUME Init PROVE IInv
    OBVIOUS
  <1>1. /\ memos \in Seq(Seq(Values)) /\ <<>> \in [{} -> {"call", "begun", "lost", "over"}]
        /\ docs \in Seq([args : History, result : Values \cup {Unknown, "none"}])
    BY EmptySeq DEF Init
  <1>2. Call = {}
    BY DEF Init, Call
  <1>3. TypeOK
    <2>1. nested \in [Call -> {"call", "begun", "lost", "over"}]
      BY <1>1, <1>2 DEF Init
    <2>2. crashes \in 0 .. MaxCrashes
      BY CrashesAssumption DEF Init
    <2> QED
      BY <1>1, <2>1, <2>2 DEF Init, TypeOK
  <1>4. DocsSound /\ CompletedAsRecorded
    BY <1>2 DEF Init, DocsSound, CompletedAsRecorded
  <1> QED
    BY <1>3, <1>4 DEF Init, IInv

\* Every step keeps the invariant.
LEMMA NextIInv == IInv /\ [Next]_vars => IInv'
  <1> SUFFICES ASSUME IInv, [Next]_vars PROVE IInv'
    OBVIOUS
  <1>1. CASE outcome = "none" /\ Worker
    <2>1. CASE Start
      BY <1>1, <2>1, StartKeeps
    <2>2. CASE Read
      BY <1>1, <2>2, ReadKeeps
    <2>3. CASE Reserve
      BY <1>1, <2>3, ReserveKeeps
    <2>4. CASE Deliver
      BY <1>1, <2>4, DeliverKeeps
    <2>5. CASE Done
      BY <1>1, <2>5, PhaseKeeps
    <2>6. CASE FlushEnd
      BY <1>1, <2>6, FlushEndKeeps
    <2>7. CASE Finish \/ Aborted
      BY <2>7, EndKeeps
    <2> QED
      BY <1>1, <2>1, <2>2, <2>3, <2>4, <2>5, <2>6, <2>7 DEF Worker
  <1>2. CASE outcome = "none" /\ \E k \in 1 .. Len(Program) : Host(k)
    <2>1. PICK k \in 1 .. Len(Program) : Host(k)
      BY <1>2
    <2>2. CASE Match(k)
      BY <1>2, <2>2, MatchKeeps
    <2>3. CASE Flush(k)
      BY <1>2, <2>3, FlushKeeps
    <2>4. CASE Admit(k)
      BY <1>2, <2>4, AdmitKeeps
    <2>5. CASE WaitNested(k)
      BY <1>2, <2>5, WaitNestedKeeps
    <2> QED
      BY <2>1, <2>2, <2>3, <2>4, <2>5 DEF Host
  <1>3. CASE /\ outcome = "none"
             /\ \E i \in Call : Nested(i) \/ NestedRefuse(i) \/ NestedFault(i)
    BY <1>3, NestedKeeps
  <1>4. CASE outcome = "none" /\ StopWorker
    BY <1>4, PhaseKeeps
  <1>5. CASE Abort
    BY <1>5, AbortKeeps
  <1>6. CASE Crash
    BY <1>6, CrashKeeps
  <1>7. CASE UNCHANGED vars
    <2>1. TypeOK'
      BY <1>7 DEF vars, IInv, TypeOK, Call
    <2>2. DocsSound'
      BY <1>7 DEF vars, IInv, DocsSound, Call
    <2>3. (host # Off => HostSound(host, memos, docs))'
      BY <1>7 DEF vars, IInv
    <2>4. CompletedAsRecorded'
      BY <1>7 DEF vars, IInv, CompletedAsRecorded, Call, Live
    <2> QED
      BY <2>1, <2>2, <2>3, <2>4 DEF IInv
  <1> QED
    BY <1>1, <1>2, <1>3, <1>4, <1>5, <1>6, <1>7 DEF Next

THEOREM ScriptInvariant == Spec => []IInv
  BY InitIInv, NextIInv, PTL DEF Spec

\* The type invariant of ScriptReplay.
THEOREM ScriptTypeCorrect == Spec => []TypeOK
  <1>1. IInv => TypeOK
    BY DEF IInv
  <1> QED
    BY <1>1, ScriptInvariant, PTL

\* The readings that a history on record was told are counted by the program.
LEMMA ReadingsCounted ==
    ASSUME NEW R \in Seq(Values), NEW D, NEW history \in History, OnRecord(history, R, D),
           NEW p \in DOMAIN history, NEW n, IsReading(history, p, n)
    PROVE  n <= Len(R) /\ history[p].told = <<R[n]>>
  <1>1. /\ DOMAIN history = 1 .. Len(history) /\ Len(history) \in Nat /\ p \in Nat
        /\ DOMAIN R = 1 .. Len(R) /\ Len(R) \in Nat
    BY LenProperties DEF History
  <1>2. ASSUME NEW q \in 1 .. p PROVE history[q].of = "read" <=> Program[q] = "read"
    <2>1. Foretold(history[q], q, R, D)
      BY <1>1 DEF OnRecord
    <2>2. CASE Program[q] = "read"
      BY <2>1, <2>2 DEF Foretold
    <2>3. CASE Program[q] # "read"
      BY <2>1, <2>3 DEF Foretold
    <2> QED
      BY <2>2, <2>3
  <1>3. {q \in 1 .. p : history[q].of = "read"} = {q \in 1 .. p : Program[q] = "read"}
    BY <1>2
  <1>4. n = ReadNo(p) /\ history[p].of = "read"
    BY <1>3 DEF IsReading, ReadNo
  <1>5. Program[p] = "read" /\ Foretold(history[p], p, R, D)
    BY <1>1, <1>2, <1>4 DEF OnRecord
  <1>6. n \in DOMAIN R /\ history[p] = [of |-> "read", told |-> <<R[n]>>]
    BY <1>4, <1>5 DEF Foretold
  <1> QED
    BY <1>1, <1>6

\* With the same tools a replay never diverges, and what a committed call may
\* know of the clock or of randomness is on record (codemode.rs, reserve and
\* flush_nondet), for every script and any number of restarts.
THEOREM ReplayNeverDiverges == Spec => []NeverDiverges
  <1>1. ASSUME IInv PROVE NeverDiverges
    <2>1. host # Off => host.fatal # "diverged"
      BY <1>1, HostFacts DEF HostSound
    <2>2. ASSUME NEW i \in Call, NEW p \in DOMAIN docs[i].args, NEW n \in DOMAIN docs[i].args,
                 IsReading(docs[i].args, p, n)
          PROVE  /\ n <= Len(FlattenSeq(memos))
                 /\ docs[i].args[p].told = <<FlattenSeq(memos)[n]>>
      <3>1. docs[i].args \in History /\ memos \in Seq(Seq(Values))
        BY <1>1, HostFacts DEF Doc, Call
      <3>2. OnRecord(docs[i].args, Recorded(memos), docs)
        BY <1>1 DEF IInv, DocsSound
      <3>3. Recorded(memos) \in Seq(Values)
        BY <3>1, FlattenAppend, EmptySeq DEF Recorded
      <3>4. /\ n <= Len(Recorded(memos))
            /\ docs[i].args[p].told = <<Recorded(memos)[n]>>
        BY <2>2, <3>1, <3>2, <3>3, ReadingsCounted
      <3> QED
        BY <3>4 DEF Recorded
    <2> QED
      BY <2>1, <2>2 DEF NeverDiverges
  <1> QED
    BY <1>1, ScriptInvariant, PTL

\* A completed script was told what is on record, call by call, and nothing it
\* owns outlives it (codemode.rs, check_end; nested.rs).
THEOREM EndsAsRecorded == Spec => []CompletedAsRecorded
  <1>1. IInv => CompletedAsRecorded
    BY DEF IInv
  <1> QED
    BY <1>1, ScriptInvariant, PTL

\* No committed call knows of an uncertain result or of a locked host, in
\* whatever execution it was made (codemode.rs, lock and await_result).
THEOREM UnknownStops == Spec => []UnknownStopsScript
  <1>1. ASSUME IInv PROVE UnknownStopsScript
    <2> SUFFICES ASSUME NEW i \in Call, NEW p \in DOMAIN docs[i].args,
                        NEW k \in DOMAIN docs[i].args[p].told
                 PROVE  docs[i].args[p].told[k] \notin {Unknown, Error}
      BY DEF UnknownStopsScript
    <2>1. OnRecord(docs[i].args, Recorded(memos), docs)
      BY <1>1 DEF IInv, DocsSound
    <2>2. Foretold(docs[i].args[p], p, Recorded(memos), docs)
      BY <2>1 DEF OnRecord
    <2>3. Recorded(memos) \in Seq(Values)
      BY <1>1, HostFacts, FlattenAppend, EmptySeq DEF Recorded
    <2>4. docs[i].args[p].told[k] \in Values
      <3>1. CASE Program[p] = "read"
        <4>1. PICK n : n \in DOMAIN Recorded(memos)
                       /\ docs[i].args[p] = [of |-> "read", told |-> <<Recorded(memos)[n]>>]
          BY <2>2, <3>1 DEF Foretold
        <4>2. Recorded(memos)[n] \in Values
          BY <2>3, <4>1, LenProperties, ElementOfSeq
        <4>3. docs[i].args[p].told = <<Recorded(memos)[n]>>
          BY <4>1
        <4>4. k = 1
          BY <4>3
        <4> QED
          BY <4>2, <4>3, <4>4
      <3>2. CASE Program[p] # "read"
        <4>1. /\ \A j \in Awaited(p) : docs[j].result \in Values
              /\ docs[i].args[p].told = [j \in Awaited(p) |-> docs[j].result]
          BY <2>2, <3>2 DEF Foretold
        <4> QED
          BY <4>1
      <3> QED
        BY <3>1, <3>2
    <2> QED
      BY <2>4, ValuesAssumption
  <1> QED
    BY <1>1, ScriptInvariant, PTL

=============================================================================
