------------------------ MODULE ConversationsSafety -------------------------
(***************************************************************************)
(* Why nothing is lost between the inbox of a conversation and its runs,   *)
(* for any conversations, submissions, callers and bounds.  IInv speaks of *)
(* a database `s' that a commit has built so far, conversation by          *)
(* conversation: a commit that ends a run passes through states in which   *)
(* inputs are placed and in no run yet, a run is over that is not handed   *)
(* back yet, and the generation that ends is still alive.                  *)
(***************************************************************************)
EXTENDS ConversationsImplements, SequenceTheorems, FiniteSetTheorems, WellFoundedInduction, TLAPS

-----------------------------------------------------------------------------
(* The inductive invariant. *)

Ascending(q) == \A m, n \in DOMAIN q : m < n => q[m] < q[n]

OfIn(s, c) == {i \in DOMAIN s.sub : s.sub[i].conversation = c}
InState(s, c, status) == {i \in OfIn(s, c) : s.sub[i].status = status}
Inputs(s, c) == ToSet(s.run[c].inputs)
First(s, c) == Head(s.run[c].inputs)
Born(s, c) == Parent[c] = NoConversation \/ s.doc[c].born

WellFormed(s) ==
    /\ s \in Database
    /\ \A c \in Conversation :
         s.head[c] <= s.entries /\ s.doc[c].contracts \subseteq DOMAIN s.sub
    /\ \A i \in DOMAIN s.sub : s.sub[i].entry <= s.entries /\ s.sub[i].target <= s.entries

\* What is queued waits, in the order it came in, and has nothing yet.
InboxSound(s, c) ==
    /\ Ascending(s.inbox[c])
    /\ ToSet(s.inbox[c]) = InState(s, c, "queued")
    /\ \A i \in InState(s, c, "queued") :
         /\ s.sub[i].entry = NoEntry /\ s.sub[i].run = NoSubmission
         /\ s.sub[i].draft.from.what # "continue"

\* What is placed is an input of the live run, or one of `users' that are to start
\* or join one.
RunSound(s, c, users) ==
    /\ IsInjective(s.run[c].inputs)
    /\ Inputs(s, c) \cap users = {}
    /\ Inputs(s, c) \cup users = InState(s, c, "placed")
    /\ s.run[c].inputs = <<>> <=> s.run[c] = NoRun
    /\ \A i \in Inputs(s, c) : s.sub[i].run = First(s, c)
    /\ \A i \in users : s.sub[i].run = NoSubmission
    /\ \A i \in InState(s, c, "placed") : ~IsWrite(s, i)

\* The live run has one generation, and no other is alive but `ending'.
GenSound(s, c, ending) ==
    /\ \A g \in DOMAIN s.gen :
         s.gen[g].conversation = c /\ Alive(s, g) /\ g # ending => s.run[c].task = g
    /\ Busy(s, c) =>
         /\ s.run[c].task \in DOMAIN s.gen
         /\ s.gen[s.run[c].task].conversation = c
         /\ Alive(s, s.run[c].task)

\* A reset that is queued holds back what came after it, one that has landed lies
\* before what came after it.
ResetSound(s, c) ==
    \A r \in OfIn(s, c) : IsReset(s, r) =>
        /\ s.sub[r].status \in {"queued", "done"}
        /\ s.sub[r].target = NoEntry
        /\ \A j \in OfIn(s, c) :
             j > r /\ s.sub[j].entry # NoEntry =>
                 s.sub[r].status = "done" /\ s.sub[r].entry < s.sub[j].entry

\* No landed reset lies behind one of the inputs.
CutOff(s, c, inputs) ==
    \A r \in OfIn(s, c), i \in inputs :
        IsReset(s, r) /\ s.sub[r].status = "done" => s.sub[r].entry < s.sub[i].entry

\* A result or a continuation names the run it follows.
Named(s) ==
    \A j \in DOMAIN s.sub : s.sub[j].draft.from.what \in {"result", "continue"} =>
        LET from == s.sub[j].draft.from
        IN  /\ from.of \in Conversation /\ from.nth \in DOMAIN s.sub
            /\ s.sub[from.nth].run = from.nth
            /\ s.sub[from.nth].conversation = from.of
            /\ s.sub[j].conversation =
                 IF from.what = "result" THEN Parent[from.of] ELSE from.of

\* The runs of a background task, each by its first input, and what followed one.
RunsIn(s, c) == {i \in OfIn(s, c) : s.sub[i].run = i}
Source(what, c, first) == [what |-> what, of |-> c, nth |-> first]
FromIn(s, what, c, first) ==
    {j \in DOMAIN s.sub : s.sub[j].draft.from = Source(what, c, first)}
After(s, c, first) == FromIn(s, "result", c, first) \cup FromIn(s, "continue", c, first)

\* All runs of a background task but the `open' ones are handed back or continued.
HandedBack(s, c, open) ==
    /\ \A first \in RunsIn(s, c) :
         /\ first \in open => After(s, c, first) = {}
         /\ first \notin open =>
              \/ \E j \in After(s, c, first) : After(s, c, first) = {j}
              \/ After(s, c, first) = {} /\ s.lifecycle[Parent[c]] # "active"
         /\ s.sub[first].draft.from.what = "continue" =>
              FromIn(s, "continue", c, first) = {}
    /\ \A i \in InState(s, c, "placed") :
         s.sub[i].draft.from.what = "continue" => s.doc[c].continued = i
Handed(s, c, open) == Parent[c] # NoConversation => HandedBack(s, c, open)

\* A request key is used once.
Keyed(draft) == draft.from.nth # 0 /\ draft.from.what # "continue"
KeysOnce(s, c) ==
    \A i, j \in OfIn(s, c) :
        Keyed(s.sub[i].draft) /\ s.sub[i].draft.from = s.sub[j].draft.from => i = j

\* What was served has an entry, and a run if it is an input; what was withdrawn has none.
ServedWell(x) ==
    /\ x.status = "withdrawn" =>
         x.draft.kind # "write" /\ x.entry = NoEntry /\ x.run = NoSubmission
    /\ x.status \in {"placed", "done"} => x.entry # NoEntry
    /\ x.draft.kind # "write" /\ x.entry # NoEntry /\ x.status # "placed" =>
         x.run # NoSubmission

\* Within a class the first is served first.
SameClass(s, i, j) == ClassOf(s.sub[i].draft) = ClassOf(s.sub[j].draft)
InTurn(s, c) ==
    \A i, j \in OfIn(s, c) :
        i < j /\ SameClass(s, i, j) /\ s.sub[j].entry # NoEntry =>
            s.sub[i].status # "queued" /\ s.sub[i].entry < s.sub[j].entry

\* A write that is for display only waits for nothing but a reset.
DisplayHeld(s, c) ==
    \A i \in InState(s, c, "queued") :
        ClassOf(s.sub[i].draft) = "display" => QueuedReset(s, c)

Served(s, c) ==
    /\ KeysOnce(s, c)
    /\ \A i \in OfIn(s, c) : ServedWell(s.sub[i])
    /\ InTurn(s, c)
    /\ DisplayHeld(s, c)

\* Conversation c within a commit, and as it is between two commits.
Sound(s, c, users, ending) ==
    /\ OfIn(s, c) # {} => Born(s, c)
    /\ InboxSound(s, c)
    /\ RunSound(s, c, users)
    /\ GenSound(s, c, ending)
    /\ ResetSound(s, c)
    /\ Served(s, c)
Resting(s, c, ending) ==
    /\ Sound(s, c, {}, ending)
    /\ CutOff(s, c, Inputs(s, c))
    /\ Handed(s, c, Inputs(s, c))
    /\ ~Busy(s, c) => s.inbox[c] = <<>>
AtRest(s, c) == Resting(s, c, NoTask)
AllRest(s) == WellFormed(s) /\ Named(s) /\ \A c \in Conversation : AtRest(s, c)

\* A session that is being deleted takes nothing in, and has no run in the end.  (The
\* task tool sends its follow-ups to a background task whatever its session's state.)
DeletionSound ==
    \A d \in Deletable : Parent[d] = NoConversation =>
        /\ deleter[d].stage # "idle" => db.lifecycle[d] # "active"
        /\ db.lifecycle[d] = "deleted" \/ deleter[d].stage = "deleted" =>
             db.lifecycle[d] # "active" /\ ~Busy(db, d)

\* Who cancels has a conversation; what is withdrawn is an input.
CallersSound ==
    /\ canceller.stage # "idle" => canceller.conversation \in Conversation
    /\ canceller.stage = "withdraw" =>
         canceller.of \in DOMAIN db.sub /\ ~IsWrite(db, canceller.of)
    /\ \A d \in Deletable :
         ToSet(deleter[d].items) \subseteq {i \in DOMAIN db.sub : ~IsWrite(db, i)}

IInv ==
    /\ TypeOK
    /\ AllRest(db)
    /\ DeletionSound
    /\ CallersSound

-----------------------------------------------------------------------------
(* Sequences of numbers, and parts of them. *)

\* A set of natural numbers that is not empty has a least element.
LEMMA Least ==
    ASSUME NEW S \in SUBSET Nat, S # {}
    PROVE  \E m \in S : \A n \in S : m <= n
  <1> DEFINE Less == {pair \in Nat \X Nat : pair[1] < pair[2]}
  <1>1. IsWellFoundedOn(Less, Nat)
    BY NatLessThanWellFounded DEF OpToRel
  <1>2. PICK m \in S : \A n \in S : ~(<<n, m>> \in Less)
    <2> HIDE DEF Less
    <2> QED
      BY <1>1, WFMin
  <1>3. ASSUME NEW n \in S PROVE m <= n
    <2>1. <<n, m>> \in Nat \X Nat /\ <<n, m>>[1] = n /\ <<n, m>>[2] = m
      OBVIOUS
    <2>2. ~(n < m)
      BY <1>2, <2>1
    <2> QED
      BY <2>2
  <1> QED
    BY <1>3

\* A set with 0 and, below a limit, with every successor has all numbers up to it.
LEMMA UpTo ==
    ASSUME NEW S, NEW limit \in Nat, 0 \in S,
           \A n \in 0 .. limit - 1 : n \in S => n + 1 \in S
    PROVE  \A n \in 0 .. limit : n \in S
  <1> DEFINE Bad == {n \in 0 .. limit : n \notin S}
  <1> SUFFICES ASSUME Bad # {} PROVE FALSE
    OBVIOUS
  <1>1. PICK m \in Bad : \A n \in Bad : m <= n
    <2>1. Bad \in SUBSET Nat
      OBVIOUS
    <2> HIDE DEF Bad
    <2> QED
      BY <2>1, Least
  <1>2. m \in 0 .. limit /\ m \notin S /\ m # 0
    OBVIOUS
  <1>3. m - 1 \in 0 .. limit - 1 /\ ~(m <= m - 1) /\ (m - 1) + 1 = m
    BY <1>2
  <1>4. m - 1 \in S
    BY <1>1, <1>3
  <1> QED
    BY <1>2, <1>3, <1>4

\* A function on 0..n that says its first value and how each next one is made.
MadeBy(f, start, make, limit) ==
    \A n \in 0 .. limit : f[n] = IF n = 0 THEN start ELSE make[n][f[n - 1]]

\* A start and a way to make each next value make a function on 0..limit.
LEMMA Stepwise ==
    ASSUME NEW T, NEW start \in T, NEW limit \in Nat, NEW make \in [1 .. limit -> [T -> T]]
    PROVE  \E f \in [0 .. limit -> T] : MadeBy(f, start, make, limit)
  <1> DEFINE Is(f, m) == \A n \in 0 .. m : f[n] = IF n = 0 THEN start ELSE make[n][f[n - 1]]
             Good == {m \in 0 .. limit : \E f \in [0 .. m -> T] : Is(f, m)}
  <1>1. 0 \in Good
    <2>1. PICK f : f = [n \in 0 .. 0 |-> start]
      OBVIOUS
    <2>2. f \in [0 .. 0 -> T] /\ f[0] = start
      BY <2>1
    <2>3. Is(f, 0)
      BY <2>2
    <2> HIDE DEF Is
    <2> QED
      BY <2>2, <2>3
  <1>2. ASSUME NEW m \in 0 .. limit - 1, m \in Good PROVE m + 1 \in Good
    <2>1. PICK f \in [0 .. m -> T] : Is(f, m)
      BY <1>2
    <2>2. PICK last \in T : last = make[m + 1][f[m]]
      OBVIOUS
    <2> DEFINE g == [n \in 0 .. m + 1 |-> IF n = m + 1 THEN last ELSE f[n]]
    <2>3. g \in [0 .. m + 1 -> T]
      OBVIOUS
    <2>4. ASSUME NEW n \in 0 .. m + 1
          PROVE  g[n] = IF n = 0 THEN start ELSE make[n][g[n - 1]]
      <3>1. CASE n = m + 1
        <4>1. g[n] = last /\ g[n - 1] = f[m] /\ n # 0
          BY <3>1
        <4> QED
          BY <2>2, <3>1, <4>1
      <3>2. CASE n # m + 1
        <4>1. n \in 0 .. m /\ g[n] = f[n] /\ (n # 0 => g[n - 1] = f[n - 1])
          BY <3>2
        <4> QED
          BY <2>1, <4>1
      <3> QED
        BY <3>1, <3>2
    <2> HIDE DEF g
    <2>5. Is(g, m + 1)
      BY <2>4
    <2>6. m + 1 \in 0 .. limit
      OBVIOUS
    <2> HIDE DEF Is
    <2> QED
      BY <2>3, <2>5, <2>6
  <1>3. limit \in Good
    <2> HIDE DEF Good
    <2>1. \A n \in 0 .. limit : n \in Good
      BY <1>1, <1>2, UpTo
    <2> QED
      BY <2>1
  <1>4. PICK f \in [0 .. limit -> T] : Is(f, limit)
    <2> HIDE DEF Is
    <2> QED
      BY <1>3
  <1>5. MadeBy(f, start, make, limit)
    BY <1>4 DEF MadeBy
  <1> QED
    BY <1>5

\* How Only is computed.
OnlyStep(f, q, S, n) ==
    IF n = 0 THEN <<>> ELSE IF q[n] \in S THEN Append(f[n - 1], q[n]) ELSE f[n - 1]

\* Only, the elements of q that are in S, is computed one element of q at a time.
LEMMA OnlyByStep ==
    ASSUME NEW q \in Seq(Nat), NEW S
    PROVE  \E f : /\ Only(q, S) = f[Len(q)]
                  /\ \A n \in 0 .. Len(q) : f[n] = OnlyStep(f, q, S, n)
  <1> DEFINE T == Seq(Nat)
             make == [n \in 1 .. Len(q) |->
                        [v \in T |-> IF q[n] \in S THEN Append(v, q[n]) ELSE v]]
             IsF(f) == f = [n \in 0 .. Len(q) |->
                              IF n = 0 THEN <<>>
                              ELSE IF q[n] \in S THEN Append(f[n - 1], q[n]) ELSE f[n - 1]]
             h == CHOOSE f : IsF(f)
  <1>1. Only(q, S) = h[Len(q)]
    BY DEF Only
  <1>2. Len(q) \in Nat /\ <<>> \in T
    BY EmptySeq, LenProperties
  <1>3. make \in [1 .. Len(q) -> [T -> T]]
    <2>1. ASSUME NEW n \in 1 .. Len(q), NEW v \in T
          PROVE  (IF q[n] \in S THEN Append(v, q[n]) ELSE v) \in T
      <3>1. q[n] \in Nat
        BY ElementOfSeq
      <3> QED
        BY <3>1, AppendProperties
    <2> HIDE DEF T
    <2> QED
      BY <2>1
  <1>4. \E f \in [0 .. Len(q) -> T] : MadeBy(f, <<>>, make, Len(q))
    <2> HIDE DEF make, T
    <2> QED
      BY <1>2, <1>3, Stepwise
  <1>5. PICK f \in [0 .. Len(q) -> T] :
            \A n \in 0 .. Len(q) : f[n] = IF n = 0 THEN <<>> ELSE make[n][f[n - 1]]
    <2> HIDE DEF make, T
    <2> QED
      BY <1>4 DEF MadeBy
  <1>6. ASSUME NEW n \in 0 .. Len(q)
        PROVE  f[n] = IF n = 0 THEN <<>>
                      ELSE IF q[n] \in S THEN Append(f[n - 1], q[n]) ELSE f[n - 1]
    <2>1. f[n] = IF n = 0 THEN <<>> ELSE make[n][f[n - 1]]
      <3> HIDE DEF make
      <3> QED
        BY <1>5
    <2>2. n # 0 => n \in 1 .. Len(q) /\ n - 1 \in 0 .. Len(q)
      BY <1>2
    <2>3. n # 0 => f[n - 1] \in T
      <3> HIDE DEF T
      <3> QED
        BY <1>5, <2>2
    <2>4. n # 0 => make[n][f[n - 1]] =
                   IF q[n] \in S THEN Append(f[n - 1], q[n]) ELSE f[n - 1]
      <3> HIDE DEF T
      <3> QED
        BY <2>2, <2>3
    <2> HIDE DEF make
    <2> QED
      BY <2>1, <2>4
  <1>7. IsF(f)
    <2> HIDE DEF T
    <2>1. f = [n \in 0 .. Len(q) |-> f[n]]
      BY <1>5
    <2> HIDE DEF make
    <2> QED
      BY <1>6, <2>1, Zenon
  <1>8. IsF(h)
    <2> HIDE DEF IsF
    <2> QED
      BY <1>7
  <1>9. ASSUME NEW n \in 0 .. Len(q) PROVE h[n] = OnlyStep(h, q, S, n)
    <2> HIDE DEF h
    <2>1. h[n] = IF n = 0 THEN <<>>
                 ELSE IF q[n] \in S THEN Append(h[n - 1], q[n]) ELSE h[n - 1]
      BY <1>8
    <2> QED
      BY <2>1 DEF OnlyStep
  <1> HIDE DEF h
  <1> QED
    BY <1>1, <1>9

\* One more element behind the others.
LEMMA Appended ==
    ASSUME NEW q \in Seq(Nat), NEW x \in Nat
    PROVE  /\ Append(q, x) \in Seq(Nat)
           /\ ToSet(Append(q, x)) = ToSet(q) \cup {x}
           /\ Ascending(q) /\ (\A y \in ToSet(q) : y < x) => Ascending(Append(q, x))
           /\ IsInjective(q) /\ x \notin ToSet(q) => IsInjective(Append(q, x))
  <1>1. PICK t : t = Append(q, x)
    OBVIOUS
  <1>2. /\ t \in Seq(Nat) /\ Len(t) = Len(q) + 1 /\ t[Len(q) + 1] = x
        /\ \A n \in 1 .. Len(q) : t[n] = q[n]
    BY <1>1, AppendProperties
  <1>3. DOMAIN q = 1 .. Len(q) /\ DOMAIN t = 1 .. Len(q) + 1 /\ Len(q) \in Nat
    BY <1>2, LenProperties
  <1>4. ToSet(t) = ToSet(q) \cup {x}
    BY <1>2, <1>3 DEF ToSet
  <1>5. ASSUME Ascending(q), \A y \in ToSet(q) : y < x PROVE Ascending(t)
    <2> SUFFICES ASSUME NEW m \in DOMAIN t, NEW n \in DOMAIN t, m < n PROVE t[m] < t[n]
      BY DEF Ascending
    <2>1. m \in 1 .. Len(q) /\ t[m] = q[m] /\ q[m] \in ToSet(q)
      BY <1>2, <1>3 DEF ToSet
    <2>2. CASE n = Len(q) + 1
      BY <1>2, <1>5, <2>1, <2>2
    <2>3. CASE n # Len(q) + 1
      <3>1. n \in 1 .. Len(q) /\ t[n] = q[n]
        BY <1>2, <1>3, <2>3
      <3> QED
        BY <1>3, <1>5, <2>1, <3>1 DEF Ascending
    <2> QED
      BY <2>2, <2>3
  <1>6. ASSUME IsInjective(q), x \notin ToSet(q) PROVE IsInjective(t)
    <2>1. \A n \in 1 .. Len(q) : q[n] \in ToSet(q)
      BY <1>3 DEF ToSet
    <2> SUFFICES ASSUME NEW m \in DOMAIN t, NEW n \in DOMAIN t, t[m] = t[n] PROVE m = n
      BY DEF IsInjective
    <2>2. CASE m \in 1 .. Len(q) /\ n \in 1 .. Len(q)
      BY <1>2, <1>3, <1>6, <2>2 DEF IsInjective
    <2>3. CASE m = Len(q) + 1 /\ n \in 1 .. Len(q)
      <3>1. t[m] = x /\ t[n] \in ToSet(q)
        BY <1>2, <2>1, <2>3
      <3> QED
        BY <1>6, <3>1
    <2>4. CASE n = Len(q) + 1 /\ m \in 1 .. Len(q)
      <3>1. t[n] = x /\ t[m] \in ToSet(q)
        BY <1>2, <2>1, <2>4
      <3> QED
        BY <1>6, <3>1
    <2> QED
      BY <1>3, <2>2, <2>3, <2>4
  <1> QED
    BY <1>1, <1>2, <1>4, <1>5, <1>6

\* What Only keeps, and in which order.
LEMMA OnlyKeeps ==
    ASSUME NEW q \in Seq(Nat), NEW S
    PROVE  /\ Only(q, S) \in Seq(Nat)
           /\ ToSet(Only(q, S)) = ToSet(q) \cap S
           /\ Ascending(q) => Ascending(Only(q, S))
  <1>1. PICK f : /\ Only(q, S) = f[Len(q)]
                 /\ \A n \in 0 .. Len(q) : f[n] = OnlyStep(f, q, S, n)
    BY OnlyByStep
  <1>2. Len(q) \in Nat /\ DOMAIN q = 1 .. Len(q)
    BY LenProperties
  <1> DEFINE Before(n) == {q[m] : m \in 1 .. n}
             Good == {n \in 0 .. Len(q) :
                        /\ f[n] \in Seq(Nat) /\ ToSet(f[n]) = Before(n) \cap S
                        /\ Ascending(q) => Ascending(f[n])}
  <1>3. 0 \in Good
    <2>1. f[0] = <<>>
      BY <1>1, <1>2 DEF OnlyStep
    <2>2. <<>> \in Seq(Nat) /\ ToSet(<<>>) = {} /\ Ascending(<<>>)
      BY EmptySeq DEF ToSet, Ascending
    <2>3. Before(0) = {} /\ 0 \in 0 .. Len(q)
      BY <1>2
    <2> HIDE DEF Before
    <2> QED
      BY <2>1, <2>2, <2>3
  <1>4. ASSUME NEW n \in 0 .. Len(q) - 1, n \in Good PROVE n + 1 \in Good
    <2>1. n + 1 \in 1 .. Len(q) /\ n + 1 \in 0 .. Len(q) /\ n + 1 # 0 /\ (n + 1) - 1 = n
      BY <1>2
    <2>2. q[n + 1] \in Nat
      BY <2>1, ElementOfSeq
    <2>3. f[n + 1] = IF q[n + 1] \in S THEN Append(f[n], q[n + 1]) ELSE f[n]
      <3>1. f[n + 1] = OnlyStep(f, q, S, n + 1)
        BY <1>1, <2>1
      <3> QED
        BY <2>1, <3>1 DEF OnlyStep
    <2>4. Before(n + 1) = Before(n) \cup {q[n + 1]}
      <3>1. 1 .. n + 1 = (1 .. n) \cup {n + 1}
        BY <1>2
      <3> QED
        BY <3>1
    <2>5. f[n] \in Seq(Nat) /\ ToSet(f[n]) = Before(n) \cap S
          /\ (Ascending(q) => Ascending(f[n]))
      BY <1>4
    <2>6. Ascending(q) => \A y \in Before(n) : y < q[n + 1]
      BY <1>2, <2>1 DEF Ascending
    <2> HIDE DEF Before
    <2>7. CASE q[n + 1] \in S
      <3>1. f[n + 1] = Append(f[n], q[n + 1])
        BY <2>3, <2>7
      <3>2. /\ Append(f[n], q[n + 1]) \in Seq(Nat)
            /\ ToSet(Append(f[n], q[n + 1])) = ToSet(f[n]) \cup {q[n + 1]}
            /\ Ascending(f[n]) /\ (\A y \in ToSet(f[n]) : y < q[n + 1]) =>
                   Ascending(Append(f[n], q[n + 1]))
        BY <2>2, <2>5, Appended
      <3>3. Ascending(q) => Ascending(Append(f[n], q[n + 1]))
        BY <2>5, <2>6, <3>2
      <3>4. ToSet(f[n + 1]) = Before(n + 1) \cap S
        BY <2>4, <2>5, <2>7, <3>1, <3>2
      <3> QED
        BY <2>1, <3>1, <3>2, <3>3, <3>4
    <2>8. CASE q[n + 1] \notin S
      BY <2>1, <2>3, <2>4, <2>5, <2>8
    <2> QED
      BY <2>7, <2>8
  <1>5. Len(q) \in Good
    <2> HIDE DEF Good
    <2>1. \A n \in 0 .. Len(q) : n \in Good
      BY <1>2, <1>3, <1>4, UpTo
    <2> QED
      BY <1>2, <2>1
  <1>6. Before(Len(q)) = ToSet(q)
    BY <1>2 DEF ToSet
  <1> QED
    BY <1>1, <1>5, <1>6

\* An ascending sequence has no element twice.
LEMMA AscendingOnce ==
    ASSUME NEW q \in Seq(Nat), Ascending(q)
    PROVE  IsInjective(q)
  <1>1. DOMAIN q = 1 .. Len(q) /\ Len(q) \in Nat
    BY LenProperties
  <1>2. \A n \in DOMAIN q : q[n] \in Nat
    BY <1>1, ElementOfSeq
  <1>3. \A m, n \in DOMAIN q : m # n => m < n \/ n < m
    BY <1>1
  <1> QED
    BY <1>2, <1>3 DEF Ascending, IsInjective

\* Which is what Distinct says by counting.
LEMMA CountsOnce ==
    ASSUME NEW q \in Seq(Nat), IsInjective(q)
    PROVE  Distinct(q)
  <1>1. DOMAIN q = 1 .. Len(q) /\ Len(q) \in Nat
    BY LenProperties
  <1>2. q \in [1 .. Len(q) -> ToSet(q)]
    BY <1>1 DEF ToSet
  <1>3. q \in Bijection(1 .. Len(q), ToSet(q))
    BY <1>1, <1>2 DEF Bijection, Injection, Surjection, IsInjective, ToSet
  <1>4. ExistsBijection(1 .. Len(q), ToSet(q))
    BY <1>3 DEF ExistsBijection
  <1> QED
    BY <1>1, <1>4, FS_CountingElements DEF Distinct

\* An empty sequence is one without elements.
LEMMA NoElements ==
    ASSUME NEW q \in Seq(Nat)
    PROVE  /\ q = <<>> <=> ToSet(q) = {}
           /\ q # <<>> => Head(q) \in ToSet(q) /\ Head(q) = q[1] /\ 1 \in DOMAIN q
           /\ Len(q) \in Nat /\ DOMAIN q = 1 .. Len(q)
           /\ ToSet(q) \subseteq Nat
  <1>1. DOMAIN q = 1 .. Len(q) /\ Len(q) \in Nat
    BY LenProperties
  <1>2. q = <<>> <=> Len(q) = 0
    BY EmptySeq
  <1>3. \A n \in 1 .. Len(q) : q[n] \in Nat
    BY ElementOfSeq
  <1>4. ToSet(q) = {q[n] : n \in 1 .. Len(q)}
    BY <1>1 DEF ToSet
  <1>5. ToSet(q) \subseteq Nat
    BY <1>3, <1>4
  <1>6. CASE Len(q) = 0
    <2>1. ToSet(q) = {}
      BY <1>4, <1>6
    <2> QED
      BY <1>1, <1>2, <1>5, <1>6, <2>1
  <1>7. CASE Len(q) # 0
    <2>1. 1 \in 1 .. Len(q) /\ q # <<>> /\ Head(q) = q[1]
      BY <1>1, <1>2, <1>7
    <2>2. q[1] \in ToSet(q)
      BY <1>4, <2>1
    <2> QED
      BY <1>1, <1>5, <2>1, <2>2
  <1> QED
    BY <1>6, <1>7

\* Behind one sequence another one with other elements.
LEMMA Joined ==
    ASSUME NEW p \in Seq(Nat), NEW q \in Seq(Nat), IsInjective(p), IsInjective(q),
           ToSet(p) \cap ToSet(q) = {}
    PROVE  /\ p \o q \in Seq(Nat)
           /\ ToSet(p \o q) = ToSet(p) \cup ToSet(q)
           /\ IsInjective(p \o q)
           /\ p # <<>> => p \o q # <<>> /\ Head(p \o q) = Head(p)
  <1>1. PICK t : t = p \o q
    OBVIOUS
  <1>2. /\ t \in Seq(Nat) /\ Len(t) = Len(p) + Len(q)
        /\ \A n \in 1 .. Len(p) : t[n] = p[n]
        /\ \A n \in Len(p) + 1 .. Len(p) + Len(q) : t[n] = q[n - Len(p)]
    BY <1>1, ConcatProperties
  <1>3. /\ DOMAIN p = 1 .. Len(p) /\ DOMAIN q = 1 .. Len(q)
        /\ DOMAIN t = 1 .. Len(p) + Len(q) /\ Len(p) \in Nat /\ Len(q) \in Nat
    BY <1>2, LenProperties
  <1>4. ASSUME NEW n \in DOMAIN t
        PROVE  \/ n \in DOMAIN p /\ t[n] = p[n]
               \/ n - Len(p) \in DOMAIN q /\ t[n] = q[n - Len(p)]
    <2>1. CASE n <= Len(p)
      <3>1. n \in 1 .. Len(p)
        BY <1>3, <2>1
      <3> QED
        BY <1>2, <1>3, <3>1
    <2>2. CASE ~(n <= Len(p))
      <3>1. n \in Len(p) + 1 .. Len(p) + Len(q) /\ n - Len(p) \in 1 .. Len(q)
        BY <1>3, <2>2
      <3> QED
        BY <1>2, <1>3, <3>1
    <2> QED
      BY <2>1, <2>2
  <1>5. ToSet(t) = ToSet(p) \cup ToSet(q)
    <2>1. ToSet(t) \subseteq ToSet(p) \cup ToSet(q)
      BY <1>4 DEF ToSet
    <2>2. ToSet(p) \subseteq ToSet(t)
      BY <1>2, <1>3 DEF ToSet
    <2>3. ASSUME NEW n \in DOMAIN q PROVE q[n] \in ToSet(t)
      <3>1. /\ n + Len(p) \in Len(p) + 1 .. Len(p) + Len(q)
            /\ n + Len(p) \in DOMAIN t /\ (n + Len(p)) - Len(p) = n
        BY <1>3
      <3>2. t[n + Len(p)] = q[n]
        BY <1>2, <3>1
      <3> QED
        BY <3>1, <3>2 DEF ToSet
    <2>4. ToSet(q) \subseteq ToSet(t)
      BY <2>3 DEF ToSet
    <2> QED
      BY <2>1, <2>2, <2>4
  <1>6. IsInjective(t)
    <2>1. \A n \in DOMAIN p : p[n] \in ToSet(p)
      BY DEF ToSet
    <2>2. \A n \in DOMAIN q : q[n] \in ToSet(q)
      BY DEF ToSet
    <2> SUFFICES ASSUME NEW m \in DOMAIN t, NEW n \in DOMAIN t, t[m] = t[n] PROVE m = n
      BY DEF IsInjective
    <2>3. CASE m \in DOMAIN p /\ t[m] = p[m] /\ n \in DOMAIN p /\ t[n] = p[n]
      BY <2>3 DEF IsInjective
    <2>4. CASE /\ m - Len(p) \in DOMAIN q /\ t[m] = q[m - Len(p)]
               /\ n - Len(p) \in DOMAIN q /\ t[n] = q[n - Len(p)]
      <3>1. m - Len(p) = n - Len(p)
        BY <2>4 DEF IsInjective
      <3> QED
        BY <1>3, <3>1
    <2> QED
      BY <1>4, <2>1, <2>2, <2>3, <2>4
  <1>7. p # <<>> => Len(p) # 0 /\ Head(p) = p[1]
    BY EmptySeq
  <1>8. t # <<>> => Head(t) = t[1]
    BY <1>2
  <1>9. ASSUME p # <<>> PROVE t # <<>> /\ Head(t) = Head(p)
    <2>1. Len(p) # 0 /\ 1 \in 1 .. Len(p) /\ Len(t) # 0
      BY <1>2, <1>3, <1>7, <1>9
    <2>2. t # <<>>
      BY <1>2, <2>1, EmptySeq
    <2> QED
      BY <1>2, <1>7, <1>8, <1>9, <2>1, <2>2
  <1> QED
    BY <1>1, <1>2, <1>5, <1>6, <1>9

\* A function on 1..n with values of a set is a sequence.
LEMMA SeqOfAll ==
    ASSUME NEW T, NEW n \in Nat, NEW f, f = [i \in 1 .. n |-> f[i]],
           \A i \in 1 .. n : f[i] \in T
    PROVE  f \in Seq(T) /\ Len(f) = n
  <1>1. f \in [1 .. n -> T]
    OBVIOUS
  <1>2. f \in Seq(T)
    BY <1>1, SeqDef
  <1> QED
    BY <1>1, <1>2, LenProperties

-----------------------------------------------------------------------------
(* The database, field by field. *)

\* A database has its eight fields.
LEMMA Fields ==
    ASSUME NEW s \in Database
    PROVE  /\ s.sub \in Seq(SubmissionRecord) /\ s.gen \in Seq(GenerationRecord)
           /\ s.inbox \in [Conversation -> Seq(Nat)] /\ s.run \in [Conversation -> RunRecord]
           /\ s.head \in [Conversation -> Nat] /\ s.entries \in Nat
           /\ s.doc \in [Conversation -> TaskDoc]
           /\ s.lifecycle \in [Conversation -> {"active", "closing", "deleted"}]
           /\ DOMAIN s.sub = 1 .. Len(s.sub) /\ Len(s.sub) \in Nat
           /\ DOMAIN s.gen = 1 .. Len(s.gen) /\ Len(s.gen) \in Nat
           /\ \A i \in DOMAIN s.sub : s.sub[i] \in SubmissionRecord
           /\ \A g \in DOMAIN s.gen : s.gen[g] \in GenerationRecord
           /\ \A c \in Conversation :
                /\ s.inbox[c] \in Seq(Nat) /\ s.run[c] \in RunRecord
                /\ s.run[c].inputs \in Seq(Nat) /\ s.run[c].task \in Nat
                /\ s.run[c].rounds \in 0 .. MaxRounds
                /\ s.head[c] \in Nat /\ s.doc[c] \in TaskDoc
                /\ s.doc[c].contracts \in SUBSET Nat
  <1>1. /\ s.sub \in Seq(SubmissionRecord) /\ s.gen \in Seq(GenerationRecord)
        /\ s.inbox \in [Conversation -> Seq(Nat)] /\ s.run \in [Conversation -> RunRecord]
        /\ s.head \in [Conversation -> Nat] /\ s.entries \in Nat
        /\ s.doc \in [Conversation -> TaskDoc]
        /\ s.lifecycle \in [Conversation -> {"active", "closing", "deleted"}]
    BY DEF Database
  <1>2. /\ DOMAIN s.sub = 1 .. Len(s.sub) /\ Len(s.sub) \in Nat
        /\ DOMAIN s.gen = 1 .. Len(s.gen) /\ Len(s.gen) \in Nat
    BY <1>1, LenProperties
  <1>3. /\ \A i \in DOMAIN s.sub : s.sub[i] \in SubmissionRecord
        /\ \A g \in DOMAIN s.gen : s.gen[g] \in GenerationRecord
    BY <1>1, <1>2, ElementOfSeq
  <1>4. ASSUME NEW c \in Conversation
        PROVE  /\ s.inbox[c] \in Seq(Nat) /\ s.run[c] \in RunRecord
               /\ s.run[c].inputs \in Seq(Nat) /\ s.run[c].task \in Nat
               /\ s.run[c].rounds \in 0 .. MaxRounds
               /\ s.head[c] \in Nat /\ s.doc[c] \in TaskDoc
               /\ s.doc[c].contracts \in SUBSET Nat
    <2>1. s.inbox[c] \in Seq(Nat) /\ s.run[c] \in RunRecord
          /\ s.head[c] \in Nat /\ s.doc[c] \in TaskDoc
      BY <1>1
    <2> QED
      BY <2>1 DEF RunRecord, TaskDoc
  <1> QED
    BY <1>1, <1>2, <1>3, <1>4

\* What a database is made of.
Base(sub, gen, inbox, run, head, entries, doc, lifecycle) ==
    [sub |-> sub, gen |-> gen, inbox |-> inbox, run |-> run, head |-> head,
     entries |-> entries, doc |-> doc, lifecycle |-> lifecycle]

-----------------------------------------------------------------------------
(* What a step within a commit leaves alone. *)

\* Conversation e is in t what it is in s.
Same(s, t, e) ==
    /\ t.inbox[e] = s.inbox[e] /\ t.run[e] = s.run[e]
    /\ t.doc[e].born = s.doc[e].born /\ t.doc[e].continued = s.doc[e].continued
    /\ OfIn(t, e) = OfIn(s, e)
    /\ \A i \in OfIn(s, e) : t.sub[i] = s.sub[i]
    /\ \A g \in DOMAIN t.gen : t.gen[g].conversation = e =>
         /\ g \in DOMAIN s.gen /\ s.gen[g].conversation = e
         /\ s.gen[g].phase = t.gen[g].phase
    /\ \A g \in DOMAIN s.gen : s.gen[g].conversation = e =>
         /\ g \in DOMAIN t.gen /\ t.gen[g].conversation = e
         /\ t.gen[g].phase = s.gen[g].phase
Others(s, t, c) == \A e \in Conversation \ {c} : Same(s, t, e)

\* What followed the runs of e is in t what it is in s.
SameAfter(s, t, e) ==
    /\ t.lifecycle = s.lifecycle
    /\ \A what \in {"result", "continue"}, first \in DOMAIN s.sub :
         FromIn(t, what, e, first) = FromIn(s, what, e, first)

\* What becomes of a submission: what it was given it keeps, and over is over.
Advances(x, y) ==
    /\ y.conversation = x.conversation /\ y.draft = x.draft
    /\ x.entry # NoEntry => y.entry = x.entry
    /\ x.run # NoSubmission => y.run = x.run
    /\ x.status = "placed" => y.status \in {"placed", "done", "unanswered"}
    /\ x.status \in {"done", "unanswered", "withdrawn"} => y = x

\* Two inputs of one live run.
OfOneRun(x, y) ==
    /\ x.conversation = y.conversation /\ x.run = y.run /\ x.run # NoSubmission
    /\ x.status = "placed" /\ y.status = "placed"

\* The inputs of a run end together.
Goes(s, t) ==
    /\ \A i \in DOMAIN s.sub : Advances(s.sub[i], t.sub[i])
    /\ \A i, j \in DOMAIN s.sub :
         OfOneRun(s.sub[i], s.sub[j]) => t.sub[i].status = t.sub[j].status

\* The submissions stay, and what makes them what they are.
KeepsSub(s, t) ==
    /\ DOMAIN t.sub = DOMAIN s.sub
    /\ \A i \in DOMAIN s.sub :
         /\ t.sub[i].conversation = s.sub[i].conversation
         /\ t.sub[i].draft = s.sub[i].draft
         /\ t.sub[i].target = s.sub[i].target
         /\ s.sub[i].run # NoSubmission => t.sub[i].run = s.sub[i].run
    /\ Goes(s, t)

\* Submissions come in, and stay what they are.
Grows(s, t) ==
    /\ DOMAIN s.sub \subseteq DOMAIN t.sub
    /\ \A i \in DOMAIN s.sub : t.sub[i].draft = s.sub[i].draft
    /\ Goes(s, t)

\* What goes on stays the same, and goes on from step to step.
LEMMA GoesTwice ==
    ASSUME NEW s, NEW t, NEW u, Goes(s, t), Goes(t, u), DOMAIN s.sub \subseteq DOMAIN t.sub
    PROVE  Goes(s, u)
  <1>1. ASSUME NEW i \in DOMAIN s.sub PROVE Advances(s.sub[i], u.sub[i])
    BY DEF Goes, Advances
  <1>2. ASSUME NEW i \in DOMAIN s.sub, NEW j \in DOMAIN s.sub, OfOneRun(s.sub[i], s.sub[j])
        PROVE  u.sub[i].status = u.sub[j].status
    BY <1>2 DEF Goes, Advances, OfOneRun
  <1> QED
    BY <1>1, <1>2 DEF Goes

\* What comes in and what goes on does so from step to step.
LEMMA GrowsTwice ==
    ASSUME NEW s, NEW t, NEW u, Grows(s, t), Grows(t, u)
    PROVE  Grows(s, u)
  <1>1. Goes(s, u)
    BY GoesTwice DEF Grows
  <1> QED
    BY <1>1 DEF Grows

\* Submissions that stay as they are go on.
LEMMA GoesStill ==
    ASSUME NEW s, NEW t, \A i \in DOMAIN s.sub : t.sub[i] = s.sub[i]
    PROVE  Goes(s, t)
  BY DEF Goes, Advances, OfOneRun

\* A step that ends no run goes on if each submission does.
LEMMA GoesOn ==
    ASSUME NEW s, NEW t, \A i \in DOMAIN s.sub : Advances(s.sub[i], t.sub[i]),
           \A i \in DOMAIN s.sub : s.sub[i].status = "placed" => t.sub[i].status = "placed"
    PROVE  Goes(s, t)
  BY DEF Goes, OfOneRun

\* What was served well stays so while the order of a conversation stays what it is.
LEMMA ServedStays ==
    ASSUME NEW s, NEW t, NEW e, Served(s, e), OfIn(t, e) = OfIn(s, e),
           t.inbox[e] = s.inbox[e], ToSet(s.inbox[e]) \subseteq OfIn(s, e),
           \A i \in OfIn(s, e) :
               /\ t.sub[i].draft = s.sub[i].draft /\ t.sub[i].entry = s.sub[i].entry
               /\ t.sub[i].status = "queued" <=> s.sub[i].status = "queued"
               /\ ServedWell(t.sub[i])
    PROVE  Served(t, e)
  <1>1. KeysOnce(t, e)
    BY DEF Served, KeysOnce
  <1>2. InTurn(t, e)
    BY DEF Served, InTurn, SameClass
  <1>3. DisplayHeld(t, e)
    <2>1. QueuedReset(s, e) => QueuedReset(t, e)
      BY DEF QueuedReset, IsReset, IsWrite
    <2>2. /\ InState(t, e, "queued") = InState(s, e, "queued")
          /\ InState(s, e, "queued") \subseteq OfIn(s, e)
      BY DEF InState
    <2> QED
      BY <2>1, <2>2 DEF Served, DisplayHeld
  <1> QED
    BY <1>1, <1>2, <1>3 DEF Served

\* An idle conversation has no inputs.
LEMMA NothingIn ==
    ASSUME NEW s, NEW c, s.run[c] = NoRun
    PROVE  s.run[c].inputs = <<>> /\ s.run[c].task = 0 /\ Inputs(s, c) = {}
  <1>1. NoRun.inputs = <<>> /\ NoRun.task = 0
    BY DEF NoRun, NoTask
  <1>2. ToSet(<<>>) = {}
    BY EmptySeq, NoElements
  <1> QED
    BY <1>1, <1>2 DEF Inputs

\* Sameness goes on from step to step.
LEMMA SameTwice ==
    ASSUME NEW s, NEW t, NEW u, NEW e, Same(s, t, e), Same(t, u, e)
    PROVE  Same(s, u, e)
  BY DEF Same

\* The state of a submission or of a conversation that stays the same.
LEMMA SameState ==
    ASSUME NEW s, NEW t, NEW e, Same(s, t, e)
    PROVE  /\ \A status : InState(t, e, status) = InState(s, e, status)
           /\ Inputs(t, e) = Inputs(s, e) /\ First(t, e) = First(s, e)
           /\ Busy(t, e) <=> Busy(s, e)
           /\ Born(t, e) <=> Born(s, e)
           /\ RunsIn(t, e) = RunsIn(s, e)
           /\ \A i \in OfIn(s, e) :
                (IsWrite(t, i) <=> IsWrite(s, i)) /\ (IsReset(t, i) <=> IsReset(s, i))
  BY DEF Same, InState, Inputs, First, Busy, Born, RunsIn, IsWrite, IsReset

\* What is sound stays sound where nothing changes.
LEMMA SameSound ==
    ASSUME NEW s, NEW t, NEW e, Same(s, t, e), NEW users, NEW ending, Sound(s, e, users, ending),
           users \subseteq OfIn(s, e), Inputs(s, e) \subseteq OfIn(s, e)
    PROVE  Sound(t, e, users, ending)
  <1>1. InboxSound(t, e)
    <2>1. InState(s, e, "queued") \subseteq OfIn(s, e)
      BY DEF InState
    <2> QED
      BY <2>1, SameState DEF Same, Sound, InboxSound
  <1>2. RunSound(t, e, users)
    <2>1. InState(s, e, "placed") \subseteq OfIn(s, e)
      BY DEF InState
    <2> QED
      BY <2>1, SameState DEF Same, Sound, RunSound
  <1>3. GenSound(t, e, ending)
    BY SameState DEF Same, Sound, GenSound, Alive
  <1>4. ResetSound(t, e)
    BY SameState DEF Same, Sound, ResetSound
  <1>5. OfIn(t, e) # {} => Born(t, e)
    BY SameState DEF Same, Sound
  <1>6. Served(t, e)
    <2>1. Served(s, e) /\ ToSet(s.inbox[e]) \subseteq OfIn(s, e)
      BY DEF Sound, InboxSound, InState
    <2>2. OfIn(t, e) = OfIn(s, e) /\ t.inbox[e] = s.inbox[e]
          /\ \A i \in OfIn(s, e) : t.sub[i] = s.sub[i]
      BY DEF Same
    <2>3. \A i \in OfIn(s, e) : ServedWell(t.sub[i])
      BY <2>1, <2>2 DEF Served
    <2> QED
      BY <2>1, <2>2, <2>3, ServedStays
  <1> QED
    BY <1>1, <1>2, <1>3, <1>4, <1>5, <1>6 DEF Sound

\* The inputs a reset cut off stay cut off while their conversation stays as it is.
LEMMA SameCutOff ==
    ASSUME NEW s, NEW t, NEW e, Same(s, t, e), NEW cut, cut \subseteq OfIn(s, e),
           CutOff(s, e, cut)
    PROVE  CutOff(t, e, cut)
  BY SameState DEF Same, CutOff

\* The runs a task handed back stay handed back while the task stays as it is.
LEMMA SameHanded ==
    ASSUME NEW s, NEW t, NEW e, Same(s, t, e), SameAfter(s, t, e), NEW open, Handed(s, e, open)
    PROVE  Handed(t, e, open)
  <1> SUFFICES ASSUME Parent[e] # NoConversation PROVE HandedBack(t, e, open)
    BY DEF Handed
  <1>1. HandedBack(s, e, open)
    BY DEF Handed
  <1>2. RunsIn(t, e) = RunsIn(s, e) /\ RunsIn(s, e) \subseteq OfIn(s, e)
        /\ OfIn(s, e) \subseteq DOMAIN s.sub
    BY SameState DEF RunsIn, OfIn
  <1>3. ASSUME NEW first \in RunsIn(t, e)
        PROVE  /\ After(t, e, first) = After(s, e, first)
               /\ t.sub[first] = s.sub[first]
    <2>1. FromIn(t, "result", e, first) = FromIn(s, "result", e, first)
          /\ FromIn(t, "continue", e, first) = FromIn(s, "continue", e, first)
      BY <1>2 DEF SameAfter
    <2> QED
      BY <1>2, <2>1 DEF After, Same
  <1>4. ASSUME NEW first \in RunsIn(t, e)
        PROVE  FromIn(t, "continue", e, first) = FromIn(s, "continue", e, first)
    BY <1>2 DEF SameAfter
  <1>5. InState(t, e, "placed") = InState(s, e, "placed")
        /\ \A i \in InState(s, e, "placed") : t.sub[i] = s.sub[i]
    BY SameState DEF InState, Same
  <1> QED
    BY <1>1, <1>2, <1>3, <1>4, <1>5 DEF HandedBack, SameAfter, Same

\* What names a run still names it.
LEMMA KeptNamed ==
    ASSUME NEW s \in Database, NEW t, KeepsSub(s, t), Named(s)
    PROVE  Named(t)
  <1>1. DOMAIN s.sub = 1 .. Len(s.sub) /\ Len(s.sub) \in Nat
    BY Fields
  <1> SUFFICES ASSUME NEW j \in DOMAIN t.sub,
                      t.sub[j].draft.from.what \in {"result", "continue"},
                      NEW from, from = t.sub[j].draft.from
               PROVE  /\ from.of \in Conversation /\ from.nth \in DOMAIN t.sub
                      /\ t.sub[from.nth].run = from.nth
                      /\ t.sub[from.nth].conversation = from.of
                      /\ t.sub[j].conversation =
                           IF from.what = "result" THEN Parent[from.of] ELSE from.of
    BY DEF Named
  <1>2. j \in DOMAIN s.sub /\ from = s.sub[j].draft.from
        /\ t.sub[j].conversation = s.sub[j].conversation
    BY DEF KeepsSub
  <1>3. /\ from.of \in Conversation /\ from.nth \in DOMAIN s.sub
        /\ s.sub[from.nth].run = from.nth
        /\ s.sub[from.nth].conversation = from.of
        /\ s.sub[j].conversation = IF from.what = "result" THEN Parent[from.of] ELSE from.of
    BY <1>2, SMTT(30) DEF Named
  <1>4. from.nth # NoSubmission
    BY <1>1, <1>3, SMTT(30) DEF NoSubmission
  <1> QED
    BY <1>2, <1>3, <1>4 DEF KeepsSub

\* What followed a run is still what followed it.
LEMMA KeptAfter ==
    ASSUME NEW s, NEW t, KeepsSub(s, t), t.lifecycle = s.lifecycle
    PROVE  \A e \in Conversation : SameAfter(s, t, e)
  BY DEF KeepsSub, SameAfter, FromIn

\* A run that starts has nothing behind it.
LEMMA KeptHanded ==
    ASSUME NEW s \in Database, NEW t, KeepsSub(s, t), t.lifecycle = s.lifecycle, Named(s),
           NEW c \in Conversation, NEW open, NEW opened, Handed(s, c, open),
           \A first \in RunsIn(t, c) :
               IF first \in RunsIn(s, c) THEN first \in opened <=> first \in open
               ELSE first \in opened,
           \A i \in InState(t, c, "placed") :
               t.sub[i].draft.from.what = "continue" => t.doc[c].continued = i
    PROVE  Handed(t, c, opened)
  <1> SUFFICES ASSUME Parent[c] # NoConversation PROVE HandedBack(t, c, opened)
    BY DEF Handed
  <1>1. HandedBack(s, c, open)
    BY DEF Handed
  <1>2. OfIn(t, c) = OfIn(s, c) /\ OfIn(s, c) \subseteq DOMAIN s.sub
    BY DEF OfIn, KeepsSub
  <1>3. ASSUME NEW first \in RunsIn(t, c)
        PROVE  /\ first \in DOMAIN s.sub
               /\ t.sub[first].draft = s.sub[first].draft
               /\ FromIn(t, "result", c, first) = FromIn(s, "result", c, first)
               /\ FromIn(t, "continue", c, first) = FromIn(s, "continue", c, first)
               /\ After(t, c, first) = After(s, c, first)
    <2>1. first \in DOMAIN s.sub
      BY <1>2 DEF RunsIn
    <2>2. /\ FromIn(t, "result", c, first) = FromIn(s, "result", c, first)
          /\ FromIn(t, "continue", c, first) = FromIn(s, "continue", c, first)
      BY <2>1, KeptAfter DEF SameAfter
    <2> QED
      BY <2>1, <2>2 DEF KeepsSub, After
  <1>4. ASSUME NEW first \in RunsIn(t, c), first \notin RunsIn(s, c)
        PROVE  After(s, c, first) = {}
    <2>1. first \in OfIn(s, c) /\ s.sub[first].run # first
      BY <1>2, <1>4 DEF RunsIn
    <2>2. ASSUME NEW j \in DOMAIN s.sub, NEW what \in {"result", "continue"},
                 s.sub[j].draft.from = [what |-> what, of |-> c, nth |-> first]
          PROVE  FALSE
      BY <2>1, <2>2, SMTT(30) DEF Named
    <2> QED
      BY <2>2 DEF After, FromIn, Source
  <1>5. ASSUME NEW first \in RunsIn(t, c)
        PROVE  /\ first \in opened => After(t, c, first) = {}
               /\ first \notin opened =>
                    \/ \E j \in After(t, c, first) : After(t, c, first) = {j}
                    \/ After(t, c, first) = {} /\ t.lifecycle[Parent[c]] # "active"
               /\ t.sub[first].draft.from.what = "continue" =>
                    FromIn(t, "continue", c, first) = {}
    <2>1. CASE first \in RunsIn(s, c)
      <3>1. first \in opened <=> first \in open
        BY <2>1
      <3> QED
        BY <1>1, <1>3, <2>1, <3>1 DEF HandedBack
    <2>2. CASE first \notin RunsIn(s, c)
      <3>1. After(t, c, first) = {}
        BY <1>3, <1>4, <2>2
      <3>2. first \in opened
        BY <2>2
      <3> QED
        BY <3>1, <3>2 DEF After
    <2> QED
      BY <2>1, <2>2
  <1> QED
    BY <1>5 DEF HandedBack

-----------------------------------------------------------------------------
(* A run starts. *)

\* What a run that starts with some inputs makes of the database.
RunStarts(s, t, c, inputs) ==
    /\ Others(s, t, c) /\ KeepsSub(s, t)
    /\ t.lifecycle = s.lifecycle /\ t.doc = s.doc
    /\ t.head = s.head /\ t.inbox = s.inbox /\ t.entries = s.entries
    /\ t.run[c] = [task |-> Len(s.gen) + 1, inputs |-> inputs, rounds |-> 0]
    /\ DOMAIN t.gen = 1 .. Len(s.gen) + 1
    /\ \A g \in DOMAIN s.gen : t.gen[g] = s.gen[g]
    /\ t.gen[Len(s.gen) + 1] =
         [conversation |-> c, run |-> Head(inputs), phase |-> "request", marked |-> FALSE]
    /\ \A i \in DOMAIN s.sub :
         t.sub[i] = IF i \in ToSet(inputs) THEN [s.sub[i] EXCEPT !.run = Head(inputs)]
                    ELSE s.sub[i]

\* Starting a run gives its inputs the run and creates the generation that drives it.
LEMMA StartRunDoes ==
    ASSUME NEW s, WellFormed(s), NEW c \in Conversation,
           NEW inputs \in Seq(Nat), inputs # <<>>,
           ToSet(inputs) \subseteq OfIn(s, c),
           \A i \in ToSet(inputs) : s.sub[i].run = NoSubmission /\ s.sub[i].status = "placed"
    PROVE  LET t == StartRun(s, c, inputs)
           IN  WellFormed(t) /\ RunStarts(s, t, c, inputs)
  <1>1. s \in Database
    BY DEF WellFormed
  <1>2. PICK t : t = StartRun(s, c, inputs)
    OBVIOUS
  <1>3. /\ t.sub = [i \in DOMAIN s.sub |->
                     IF i \in ToSet(inputs) THEN [s.sub[i] EXCEPT !.run = Head(inputs)]
                     ELSE s.sub[i]]
        /\ t.gen = Append(s.gen, [conversation |-> c, run |-> Head(inputs),
                                  phase |-> "request", marked |-> FALSE])
        /\ t.inbox = s.inbox
        /\ t.run = [s.run EXCEPT ![c] =
                     [task |-> Len(s.gen) + 1, inputs |-> inputs, rounds |-> 0]]
        /\ t.head = s.head /\ t.entries = s.entries /\ t.doc = s.doc
        /\ t.lifecycle = s.lifecycle
    BY <1>1, <1>2 DEF StartRun, CreateGeneration, Database
  <1>4. t = Base(t.sub, t.gen, t.inbox, t.run, t.head, t.entries, t.doc, t.lifecycle)
    BY <1>1, <1>2 DEF StartRun, CreateGeneration, Database, Base
  <1>5. Head(inputs) \in ToSet(inputs) /\ Head(inputs) \in Nat
    <2>1. Head(inputs) \in ToSet(inputs) /\ ToSet(inputs) \subseteq Nat
      BY NoElements
    <2> QED
      BY <2>1
  <1>6. ASSUME NEW i \in DOMAIN s.sub
        PROVE  /\ t.sub[i] \in SubmissionRecord
               /\ t.sub[i] = IF i \in ToSet(inputs) THEN [s.sub[i] EXCEPT !.run = Head(inputs)]
                             ELSE s.sub[i]
               /\ t.sub[i].conversation = s.sub[i].conversation
               /\ t.sub[i].draft = s.sub[i].draft /\ t.sub[i].target = s.sub[i].target
               /\ t.sub[i].entry = s.sub[i].entry /\ t.sub[i].status = s.sub[i].status
               /\ i \notin ToSet(inputs) => t.sub[i] = s.sub[i]
    <2>1. t.sub[i] = IF i \in ToSet(inputs) THEN [s.sub[i] EXCEPT !.run = Head(inputs)]
                     ELSE s.sub[i]
      BY <1>3
    <2>2. s.sub[i] \in SubmissionRecord
      BY <1>1, Fields
    <2>3. CASE i \in ToSet(inputs)
      BY <1>5, <2>1, <2>2, <2>3 DEF SubmissionRecord
    <2>4. CASE i \notin ToSet(inputs)
      BY <2>1, <2>2, <2>4
    <2> QED
      BY <2>1, <2>3, <2>4
  <1>7. t.sub \in Seq(SubmissionRecord) /\ DOMAIN t.sub = DOMAIN s.sub
    <2>1. DOMAIN t.sub = 1 .. Len(s.sub) /\ Len(s.sub) \in Nat
      BY <1>1, <1>3, Fields
    <2>2. t.sub = [i \in 1 .. Len(s.sub) |-> t.sub[i]]
      BY <1>1, <1>3, Fields
    <2>3. \A i \in 1 .. Len(s.sub) : t.sub[i] \in SubmissionRecord
      BY <1>1, <1>6, Fields
    <2>4. t.sub \in Seq(SubmissionRecord)
      BY <2>1, <2>2, <2>3, SeqOfAll
    <2> QED
      BY <1>1, <2>1, <2>4, Fields
  <1>8. /\ t.gen \in Seq(GenerationRecord) /\ Len(t.gen) = Len(s.gen) + 1
        /\ DOMAIN t.gen = 1 .. Len(s.gen) + 1
        /\ \A g \in DOMAIN s.gen : t.gen[g] = s.gen[g]
        /\ t.gen[Len(s.gen) + 1] = [conversation |-> c, run |-> Head(inputs),
                                    phase |-> "request", marked |-> FALSE]
    <2>1. [conversation |-> c, run |-> Head(inputs), phase |-> "request", marked |-> FALSE]
            \in GenerationRecord
      BY <1>5 DEF GenerationRecord
    <2> QED
      BY <1>1, <1>3, <2>1, Fields, AppendProperties, LenProperties
  <1>9. t.run \in [Conversation -> RunRecord]
        /\ t.run[c] = [task |-> Len(s.gen) + 1, inputs |-> inputs, rounds |-> 0]
    <2>1. [task |-> Len(s.gen) + 1, inputs |-> inputs, rounds |-> 0] \in RunRecord
      BY <1>1, Fields, BoundsAssumption DEF RunRecord
    <2> QED
      BY <1>1, <1>3, <2>1, Fields
  <1>10. t \in Database
    BY <1>1, <1>3, <1>4, <1>7, <1>8, <1>9, Fields DEF Base, Database
  <1>11. WellFormed(t)
    <2>1. \A i \in DOMAIN s.sub :
             t.sub[i].entry = s.sub[i].entry /\ t.sub[i].target = s.sub[i].target
      BY <1>6
    <2>2. \A i \in DOMAIN t.sub : t.sub[i].entry <= t.entries /\ t.sub[i].target <= t.entries
      BY <1>3, <1>7, <2>1 DEF WellFormed
    <2>3. \A e \in Conversation :
            t.head[e] <= t.entries /\ t.doc[e].contracts \subseteq DOMAIN t.sub
      BY <1>3, <1>7 DEF WellFormed
    <2> QED
      BY <1>10, <2>2, <2>3 DEF WellFormed
  <1>12. KeepsSub(s, t)
    <2>1. ASSUME NEW i \in DOMAIN s.sub
          PROVE  /\ s.sub[i].run # NoSubmission => t.sub[i].run = s.sub[i].run
                 /\ s.sub[i].status = "placed" => t.sub[i].status = "placed"
                 /\ Advances(s.sub[i], t.sub[i])
      <3>1. CASE i \notin ToSet(inputs)
        BY <1>3, <3>1 DEF Advances
      <3>2. CASE i \in ToSet(inputs)
        BY <1>6, <3>2 DEF Advances
      <3> QED
        BY <3>1, <3>2
    <2>2. Goes(s, t)
      BY <2>1, GoesOn
    <2> QED
      BY <1>6, <1>7, <2>1, <2>2 DEF KeepsSub
  <1>13. Others(s, t, c)
    <2> SUFFICES ASSUME NEW e \in Conversation \ {c} PROVE Same(s, t, e)
      BY DEF Others
    <2>1. OfIn(t, e) = OfIn(s, e)
      BY <1>12 DEF OfIn, KeepsSub
    <2>2. \A i \in OfIn(s, e) : t.sub[i] = s.sub[i]
      BY <1>3 DEF OfIn
    <2>3. \A g \in DOMAIN t.gen : t.gen[g].conversation = e => g \in DOMAIN s.gen
      BY <1>1, <1>8, Fields
    <2>4. t.inbox[e] = s.inbox[e] /\ t.run[e] = s.run[e] /\ t.doc[e] = s.doc[e]
      BY <1>1, <1>3, Fields
    <2>5. \A g \in DOMAIN s.gen : g \in DOMAIN t.gen /\ t.gen[g] = s.gen[g]
      BY <1>1, <1>8, Fields
    <2> QED
      BY <2>1, <2>2, <2>3, <2>4, <2>5 DEF Same
  <1> QED
    BY <1>2, <1>3, <1>6, <1>8, <1>9, <1>11, <1>12, <1>13 DEF RunStarts

\* A run that starts with all that is placed leaves the conversation with a live run.
LEMMA RunStartsSound ==
    ASSUME NEW s \in Database, NEW t, NEW c \in Conversation, NEW inputs \in Seq(Nat),
           inputs # <<>>, IsInjective(inputs), RunStarts(s, t, c, inputs), Named(s),
           NEW ending, Sound(s, c, ToSet(inputs), ending), ~Busy(s, c),
           CutOff(s, c, ToSet(inputs)), Handed(s, c, {}),
           ending \in DOMAIN s.gen \cup {NoTask}
    PROVE  /\ Named(t)
           /\ Sound(t, c, {}, ending)
           /\ CutOff(t, c, Inputs(t, c))
           /\ Handed(t, c, Inputs(t, c))
           /\ Busy(t, c) /\ t.run[c].task \notin DOMAIN s.gen \cup {NoTask}
  <1>1. /\ OfIn(t, c) = OfIn(s, c) /\ OfIn(s, c) \subseteq DOMAIN s.sub
        /\ \A i \in OfIn(s, c) : IsWrite(t, i) <=> IsWrite(s, i)
        /\ \A i \in OfIn(s, c) : IsReset(t, i) <=> IsReset(s, i)
    BY DEF RunStarts, KeepsSub, OfIn, IsWrite, IsReset
  <1>2. ASSUME NEW i \in OfIn(s, c)
        PROVE  /\ t.sub[i].status = s.sub[i].status /\ t.sub[i].entry = s.sub[i].entry
               /\ t.sub[i].target = s.sub[i].target /\ t.sub[i].draft = s.sub[i].draft
               /\ t.sub[i].run = IF i \in ToSet(inputs) THEN Head(inputs) ELSE s.sub[i].run
    <2>1. i \in DOMAIN s.sub /\ s.sub[i] \in SubmissionRecord
      BY <1>1, Fields
    <2>2. t.sub[i] = IF i \in ToSet(inputs) THEN [s.sub[i] EXCEPT !.run = Head(inputs)]
                     ELSE s.sub[i]
      BY <2>1 DEF RunStarts
    <2> QED
      BY <2>1, <2>2 DEF SubmissionRecord
  <1>3. \A status : InState(t, c, status) = InState(s, c, status)
    BY <1>1, <1>2 DEF InState
  <1>4. s.run[c] = NoRun /\ s.run[c].inputs = <<>> /\ Inputs(s, c) = {}
    <2>1. s.run[c] = NoRun
      BY DEF Busy
    <2> QED
      BY <2>1, NothingIn
  <1>5. InState(s, c, "placed") = ToSet(inputs)
    BY <1>4 DEF Sound, RunSound
  <1>6. t.run[c].inputs = inputs /\ Inputs(t, c) = ToSet(inputs) /\ First(t, c) = Head(inputs)
        /\ t.run[c].task = Len(s.gen) + 1
    BY DEF RunStarts, Inputs, First
  <1>7. t.run[c] # NoRun /\ Busy(t, c)
    BY <1>6 DEF NoRun, Busy
  <1>8. Named(t)
    BY KeptNamed DEF RunStarts
  <1>9. InboxSound(t, c)
    <2>1. t.inbox = s.inbox /\ InState(s, c, "queued") \subseteq OfIn(s, c)
          /\ InState(s, c, "queued") \cap InState(s, c, "placed") = {}
      BY DEF RunStarts, InState
    <2>2. ASSUME NEW i \in InState(s, c, "queued")
          PROVE  t.sub[i].entry = NoEntry /\ t.sub[i].run = NoSubmission
                 /\ t.sub[i].draft.from.what # "continue"
      BY <1>2, <1>5, <2>1 DEF Sound, InboxSound
    <2> QED
      BY <1>3, <2>1, <2>2 DEF Sound, InboxSound
  <1>10. RunSound(t, c, {})
    <2>1. \A i \in ToSet(inputs) : i \in OfIn(s, c) /\ t.sub[i].run = Head(inputs)
      BY <1>2, <1>5 DEF InState
    <2>2. \A i \in InState(t, c, "placed") : ~IsWrite(t, i)
      BY <1>1, <1>3, <1>5, <2>1 DEF Sound, RunSound
    <2> QED
      BY <1>3, <1>5, <1>6, <1>7, <2>1, <2>2 DEF RunSound
  <1>11. GenSound(t, c, ending)
    <2>1. Len(s.gen) \in Nat /\ DOMAIN s.gen = 1 .. Len(s.gen) /\ s.run[c].task = 0
      BY <1>4, Fields DEF NoRun, NoTask
    <2>2. ASSUME NEW g \in DOMAIN t.gen, t.gen[g].conversation = c, Alive(t, g), g # ending
          PROVE  t.run[c].task = g
      <3>1. CASE g \in DOMAIN s.gen
        <4>1. t.gen[g] = s.gen[g]
          BY <3>1 DEF RunStarts
        <4>2. s.run[c].task = g
          BY <2>2, <3>1, <4>1 DEF Sound, GenSound, Alive
        <4> QED
          BY <2>1, <3>1, <4>2
      <3>2. CASE g \notin DOMAIN s.gen
        BY <1>6, <2>1, <3>2 DEF RunStarts
      <3> QED
        BY <3>1, <3>2
    <2>3. /\ Len(s.gen) + 1 \in DOMAIN t.gen
          /\ t.gen[Len(s.gen) + 1].conversation = c /\ Alive(t, Len(s.gen) + 1)
      BY <2>1 DEF RunStarts, Alive
    <2> QED
      BY <1>6, <2>2, <2>3 DEF GenSound
  <1>12. ResetSound(t, c)
    BY <1>1, <1>2 DEF Sound, ResetSound
  <1>13. OfIn(t, c) # {} => Born(t, c)
    BY <1>1 DEF Sound, Born, RunStarts
  <1>14. CutOff(t, c, Inputs(t, c))
    <2>1. ToSet(inputs) \subseteq OfIn(s, c)
      BY <1>5 DEF InState
    <2> QED
      BY <1>1, <1>2, <1>6, <2>1 DEF CutOff
  <1>15. Handed(t, c, Inputs(t, c))
    <2>1. ASSUME NEW first \in RunsIn(t, c)
          PROVE  IF first \in RunsIn(s, c) THEN first \in Inputs(t, c) <=> first \in {}
                 ELSE first \in Inputs(t, c)
      <3>1. first \in OfIn(s, c) /\ t.sub[first].run = first
        BY <1>1 DEF RunsIn
      <3>2. CASE first \in ToSet(inputs)
        <4>1. s.sub[first].run = NoSubmission /\ first # NoSubmission
          <5>1. first \in 1 .. Len(s.sub) /\ Len(s.sub) \in Nat
            BY <1>1, <3>1, Fields
          <5> QED
            BY <3>2, <5>1 DEF Sound, RunSound, NoSubmission
        <4>2. first \notin RunsIn(s, c)
          BY <4>1 DEF RunsIn
        <4> QED
          BY <1>6, <3>2, <4>2
      <3>3. CASE first \notin ToSet(inputs)
        <4>1. first \in RunsIn(s, c)
          BY <1>2, <3>1, <3>3 DEF RunsIn
        <4> QED
          BY <1>6, <3>3, <4>1
      <3> QED
        BY <3>2, <3>3
    <2>2. ASSUME NEW i \in InState(t, c, "placed"),
                 t.sub[i].draft.from.what = "continue", Parent[c] # NoConversation
          PROVE  t.doc[c].continued = i
      <3>1. i \in InState(s, c, "placed") /\ i \in OfIn(s, c)
        BY <1>3 DEF InState
      <3>2. s.sub[i].draft.from.what = "continue"
        BY <1>2, <2>2, <3>1
      <3> QED
        BY <2>2, <3>1, <3>2 DEF Handed, HandedBack, RunStarts
    <2>3. CASE Parent[c] # NoConversation
      <3>1. KeepsSub(s, t) /\ t.lifecycle = s.lifecycle
        BY DEF RunStarts
      <3>2. \A i \in InState(t, c, "placed") :
               t.sub[i].draft.from.what = "continue" => t.doc[c].continued = i
        BY <2>2, <2>3
      <3> QED
        BY <2>1, <3>1, <3>2, KeptHanded
    <2>4. CASE Parent[c] = NoConversation
      BY <2>4 DEF Handed
    <2> QED
      BY <2>3, <2>4
  <1>16. t.run[c].task \notin DOMAIN s.gen \cup {NoTask}
    <2>1. Len(s.gen) \in Nat /\ DOMAIN s.gen = 1 .. Len(s.gen)
      BY Fields
    <2> QED
      BY <1>6, <2>1 DEF NoTask
  <1>17. Served(t, c)
    <2>1. Served(s, c) /\ ToSet(s.inbox[c]) \subseteq OfIn(s, c) /\ t.inbox[c] = s.inbox[c]
      BY DEF Sound, InboxSound, InState, RunStarts
    <2>2. ASSUME NEW i \in OfIn(s, c) PROVE ServedWell(t.sub[i])
      <3>1. i \in ToSet(inputs) => s.sub[i].status = "placed"
        BY <1>5 DEF InState
      <3>2. ServedWell(s.sub[i])
        BY <2>1 DEF Served
      <3> QED
        BY <1>2, <3>1, <3>2 DEF ServedWell
    <2> QED
      BY <1>1, <1>2, <2>1, <2>2, ServedStays
  <1> QED
    BY <1>7, <1>8, <1>9, <1>10, <1>11, <1>12, <1>13, <1>14, <1>15, <1>16, <1>17 DEF Sound

-----------------------------------------------------------------------------
(* A run ends. *)

\* What the end of the live run makes of the database.
RunEnds(s, t, c, status) ==
    /\ Others(s, t, c) /\ KeepsSub(s, t)
    /\ t.lifecycle = s.lifecycle /\ t.doc = s.doc /\ t.gen = s.gen
    /\ t.head = s.head /\ t.inbox = s.inbox /\ t.entries = s.entries
    /\ t.run[c] = NoRun
    /\ \A i \in DOMAIN s.sub :
         t.sub[i] = IF i \in Inputs(s, c) THEN [s.sub[i] EXCEPT !.status = status]
                    ELSE s.sub[i]

\* Settling the run ends every input of it with the same status.
LEMMA SettleRunDoes ==
    ASSUME NEW s, WellFormed(s), NEW c \in Conversation, NEW status \in {"done", "unanswered"},
           Inputs(s, c) \subseteq InState(s, c, "placed"),
           \A i \in InState(s, c, "placed") : i \in Inputs(s, c) <=> s.sub[i].run # NoSubmission
    PROVE  LET t == SettleRun(s, c, status)
           IN  WellFormed(t) /\ RunEnds(s, t, c, status)
  <1>1. s \in Database
    BY DEF WellFormed
  <1>2. PICK t : t = SettleRun(s, c, status)
    OBVIOUS
  <1>3. /\ t.sub = [i \in DOMAIN s.sub |->
                     IF i \in ToSet(s.run[c].inputs) THEN SettledAs(s.sub[i], status)
                     ELSE s.sub[i]]
        /\ t.gen = s.gen /\ t.inbox = s.inbox
        /\ t.run = [s.run EXCEPT ![c] = NoRun]
        /\ t.head = s.head /\ t.entries = s.entries /\ t.doc = s.doc
        /\ t.lifecycle = s.lifecycle
    BY <1>1, <1>2 DEF SettleRun, Settle, Database
  <1>4. t = Base(t.sub, t.gen, t.inbox, t.run, t.head, t.entries, t.doc, t.lifecycle)
    BY <1>1, <1>2 DEF SettleRun, Settle, Database, Base
  <1>5. ASSUME NEW i \in DOMAIN s.sub
        PROVE  /\ t.sub[i] \in SubmissionRecord
               /\ t.sub[i] = IF i \in Inputs(s, c) THEN [s.sub[i] EXCEPT !.status = status]
                             ELSE s.sub[i]
               /\ t.sub[i].conversation = s.sub[i].conversation
               /\ t.sub[i].draft = s.sub[i].draft /\ t.sub[i].target = s.sub[i].target
               /\ t.sub[i].entry = s.sub[i].entry /\ t.sub[i].run = s.sub[i].run
               /\ i \in Inputs(s, c) => t.sub[i].status = status
               /\ i \notin Inputs(s, c) => t.sub[i] = s.sub[i]
    <2>1. s.sub[i] \in SubmissionRecord
      BY <1>1, Fields
    <2>2. CASE i \in Inputs(s, c)
      <3>1. s.sub[i].status = "placed"
        BY <2>2 DEF InState
      <3>2. t.sub[i] = [s.sub[i] EXCEPT !.status = status]
        BY <1>3, <2>2, <3>1 DEF SettledAs, Inputs
      <3> QED
        BY <2>1, <2>2, <3>2 DEF SubmissionRecord
    <2>3. CASE i \notin Inputs(s, c)
      BY <1>3, <2>1, <2>3 DEF Inputs
    <2> QED
      BY <2>2, <2>3
  <1>6. t.sub \in Seq(SubmissionRecord) /\ DOMAIN t.sub = DOMAIN s.sub
    <2>1. DOMAIN t.sub = 1 .. Len(s.sub) /\ Len(s.sub) \in Nat
      BY <1>1, <1>3, Fields
    <2>2. t.sub = [i \in 1 .. Len(s.sub) |-> t.sub[i]]
      BY <1>1, <1>3, Fields
    <2>3. \A i \in 1 .. Len(s.sub) : t.sub[i] \in SubmissionRecord
      BY <1>1, <1>5, Fields
    <2>4. t.sub \in Seq(SubmissionRecord)
      BY <2>1, <2>2, <2>3, SeqOfAll
    <2> QED
      BY <1>1, <2>1, <2>4, Fields
  <1>7. t.run \in [Conversation -> RunRecord] /\ t.run[c] = NoRun
    <2>1. NoRun \in RunRecord
      BY EmptySeq, BoundsAssumption DEF NoRun, NoTask, RunRecord
    <2> QED
      BY <1>1, <1>3, <2>1, Fields
  <1>8. t \in Database
    BY <1>1, <1>3, <1>4, <1>6, <1>7, Fields DEF Base, Database
  <1>9. WellFormed(t)
    <2>1. \A i \in DOMAIN t.sub : t.sub[i].entry <= t.entries /\ t.sub[i].target <= t.entries
      BY <1>3, <1>5, <1>6 DEF WellFormed
    <2>2. \A e \in Conversation :
            t.head[e] <= t.entries /\ t.doc[e].contracts \subseteq DOMAIN t.sub
      BY <1>3, <1>6 DEF WellFormed
    <2> QED
      BY <1>8, <2>1, <2>2 DEF WellFormed
  <1>10. KeepsSub(s, t)
    <2>1. ASSUME NEW i \in DOMAIN s.sub PROVE Advances(s.sub[i], t.sub[i])
      <3>1. CASE i \in Inputs(s, c)
        <4>1. s.sub[i].status = "placed"
          BY <3>1 DEF InState
        <4> QED
          BY <1>5, <3>1, <4>1 DEF Advances
      <3>2. CASE i \notin Inputs(s, c)
        BY <1>5, <3>2 DEF Advances
      <3> QED
        BY <3>1, <3>2
    <2>2. ASSUME NEW i \in DOMAIN s.sub, NEW j \in DOMAIN s.sub, OfOneRun(s.sub[i], s.sub[j])
          PROVE  t.sub[i].status = t.sub[j].status
      <3>1. i \in Inputs(s, c) <=> j \in Inputs(s, c)
        BY <2>2 DEF OfOneRun, InState, OfIn
      <3> QED
        BY <1>5, <2>2, <3>1 DEF OfOneRun
    <2>3. Goes(s, t)
      BY <2>1, <2>2 DEF Goes
    <2> QED
      BY <1>5, <1>6, <2>3 DEF KeepsSub
  <1>11. Others(s, t, c)
    <2> SUFFICES ASSUME NEW e \in Conversation \ {c} PROVE Same(s, t, e)
      BY DEF Others
    <2>1. OfIn(t, e) = OfIn(s, e)
      BY <1>10 DEF OfIn, KeepsSub
    <2>2. \A i \in OfIn(s, e) : t.sub[i] = s.sub[i]
      BY <1>5 DEF OfIn, InState
    <2>3. t.inbox[e] = s.inbox[e] /\ t.run[e] = s.run[e] /\ t.doc[e] = s.doc[e]
      BY <1>1, <1>3, Fields
    <2> QED
      BY <1>3, <2>1, <2>2, <2>3 DEF Same
  <1> QED
    BY <1>2, <1>3, <1>5, <1>7, <1>9, <1>10, <1>11 DEF RunEnds

\* The conversation is left idle, with what was placed beside the run, and one run
\* to be handed back.
LEMMA RunEndsSound ==
    ASSUME NEW s \in Database, NEW t, NEW c \in Conversation,
           NEW status \in {"done", "unanswered"},
           RunEnds(s, t, c, status), Named(s), Busy(s, c),
           NEW users, Sound(s, c, users, s.run[c].task),
           CutOff(s, c, users), Handed(s, c, Inputs(s, c))
    PROVE  /\ Named(t)
           /\ Sound(t, c, users, s.run[c].task)
           /\ CutOff(t, c, users)
           /\ Handed(t, c, {First(s, c)})
           /\ ~Busy(t, c)
           /\ First(s, c) \in RunsIn(t, c) /\ First(s, c) \in Inputs(s, c)
  <1>1. /\ OfIn(t, c) = OfIn(s, c) /\ OfIn(s, c) \subseteq DOMAIN s.sub
        /\ \A i \in OfIn(s, c) : IsWrite(t, i) <=> IsWrite(s, i)
        /\ \A i \in OfIn(s, c) : IsReset(t, i) <=> IsReset(s, i)
    BY DEF RunEnds, KeepsSub, OfIn, IsWrite, IsReset
  <1>2. ASSUME NEW i \in OfIn(s, c)
        PROVE  /\ t.sub[i].status = IF i \in Inputs(s, c) THEN status ELSE s.sub[i].status
               /\ t.sub[i].entry = s.sub[i].entry
               /\ t.sub[i].target = s.sub[i].target /\ t.sub[i].draft = s.sub[i].draft
               /\ t.sub[i].run = s.sub[i].run
    <2>1. i \in DOMAIN s.sub /\ s.sub[i] \in SubmissionRecord
      BY <1>1, Fields
    <2>2. t.sub[i] = IF i \in Inputs(s, c) THEN [s.sub[i] EXCEPT !.status = status]
                     ELSE s.sub[i]
      BY <2>1 DEF RunEnds
    <2> QED
      BY <2>1, <2>2 DEF SubmissionRecord
  <1>3. /\ Inputs(s, c) \cup users = InState(s, c, "placed")
        /\ Inputs(s, c) \cap users = {}
        /\ InState(s, c, "placed") \subseteq OfIn(s, c)
        /\ InState(s, c, "queued") \cap InState(s, c, "placed") = {}
    BY DEF Sound, RunSound, InState
  <1>4. t.run[c] = NoRun /\ t.run[c].inputs = <<>> /\ t.run[c].task = 0 /\ Inputs(t, c) = {}
    BY NothingIn DEF RunEnds
  <1>5. InState(t, c, "placed") = users /\ InState(t, c, "queued") = InState(s, c, "queued")
    BY <1>1, <1>2, <1>3 DEF InState
  <1>6. First(s, c) \in Inputs(s, c)
    <2>1. s.run[c].inputs # <<>> /\ s.run[c].inputs \in Seq(Nat)
      BY Fields DEF Sound, RunSound, Busy
    <2> QED
      BY <2>1, NoElements DEF First, Inputs
  <1>7. RunsIn(t, c) = RunsIn(s, c)
    BY <1>1, <1>2 DEF RunsIn
  <1>8. First(s, c) \in RunsIn(s, c)
        /\ \A first \in RunsIn(s, c) : first \in Inputs(s, c) <=> first = First(s, c)
    BY <1>3, <1>6 DEF Sound, RunSound, RunsIn
  <1>9. Named(t)
    BY KeptNamed DEF RunEnds
  <1>10. InboxSound(t, c)
    BY <1>2, <1>3, <1>5 DEF Sound, InboxSound, RunEnds, InState
  <1>11. RunSound(t, c, users)
    <2>1. IsInjective(t.run[c].inputs)
      BY <1>4 DEF IsInjective
    <2>2. \A i \in users : t.sub[i].run = NoSubmission /\ ~IsWrite(t, i)
      BY <1>1, <1>2, <1>3 DEF Sound, RunSound
    <2> QED
      BY <1>4, <1>5, <2>1, <2>2 DEF RunSound
  <1>12. GenSound(t, c, s.run[c].task)
    <2>1. t.gen = s.gen /\ ~Busy(t, c)
      BY <1>4 DEF RunEnds, Busy
    <2> QED
      BY <2>1 DEF GenSound, Sound, Alive
  <1>13. ResetSound(t, c)
    <2>1. \A r \in OfIn(s, c) : IsReset(s, r) => r \notin Inputs(s, c)
      BY <1>3 DEF Sound, RunSound, IsReset
    <2> QED
      BY <1>1, <1>2, <2>1 DEF Sound, ResetSound
  <1>14. OfIn(t, c) # {} => Born(t, c)
    BY <1>1 DEF Sound, Born, RunEnds
  <1>15. CutOff(t, c, users)
    <2>1. \A r \in OfIn(s, c) : IsReset(s, r) => r \notin Inputs(s, c)
      BY <1>3 DEF Sound, RunSound, IsReset
    <2> QED
      BY <1>1, <1>2, <1>3, <2>1 DEF CutOff
  <1>16. Handed(t, c, {First(s, c)})
    <2>1. ASSUME Parent[c] # NoConversation, NEW i \in InState(t, c, "placed"),
                 t.sub[i].draft.from.what = "continue"
          PROVE  t.doc[c].continued = i
      <3>1. i \in InState(s, c, "placed") /\ s.sub[i].draft.from.what = "continue"
        BY <1>2, <1>3, <1>5, <2>1
      <3> QED
        BY <2>1, <3>1 DEF Handed, HandedBack, RunEnds
    <2>2. CASE Parent[c] # NoConversation
      <3>1. KeepsSub(s, t) /\ t.lifecycle = s.lifecycle
        BY DEF RunEnds
      <3>2. \A first \in RunsIn(t, c) :
               IF first \in RunsIn(s, c)
               THEN first \in {First(s, c)} <=> first \in Inputs(s, c)
               ELSE first \in {First(s, c)}
        BY <1>7, <1>8
      <3>3. \A i \in InState(t, c, "placed") :
               t.sub[i].draft.from.what = "continue" => t.doc[c].continued = i
        BY <2>1, <2>2
      <3> QED
        BY <3>1, <3>2, <3>3, KeptHanded
    <2>3. CASE Parent[c] = NoConversation
      BY <2>3 DEF Handed
    <2> QED
      BY <2>2, <2>3
  <1>17. ~Busy(t, c)
    BY <1>4 DEF Busy
  <1>18. Served(t, c)
    <2>1. Served(s, c) /\ ToSet(s.inbox[c]) \subseteq OfIn(s, c) /\ t.inbox[c] = s.inbox[c]
      BY DEF Sound, InboxSound, InState, RunEnds
    <2>2. ASSUME NEW i \in OfIn(s, c)
          PROVE  /\ ServedWell(t.sub[i])
                 /\ t.sub[i].status = "queued" <=> s.sub[i].status = "queued"
      <3>1. ServedWell(s.sub[i])
        BY <2>1 DEF Served
      <3>2. i \in Inputs(s, c) => s.sub[i].status = "placed" /\ s.sub[i].run # NoSubmission
        <4>1. ASSUME i \in Inputs(s, c)
              PROVE  s.sub[i].run = First(s, c) /\ s.sub[i].status = "placed"
          BY <1>3, <4>1 DEF Sound, RunSound, InState
        <4>2. First(s, c) # NoSubmission
          <5>1. First(s, c) \in 1 .. Len(s.sub) /\ Len(s.sub) \in Nat
            BY <1>1, <1>3, <1>6, Fields
          <5> QED
            BY <5>1 DEF NoSubmission
        <4> QED
          BY <4>1, <4>2
      <3> QED
        BY <1>2, <3>1, <3>2 DEF ServedWell
    <2> QED
      BY <1>1, <1>2, <2>1, <2>2, ServedStays
  <1> QED
    BY <1>6, <1>7, <1>8, <1>9, <1>10, <1>11, <1>12, <1>13, <1>14, <1>15, <1>16, <1>17, <1>18
       DEF Sound

-----------------------------------------------------------------------------
(* A boundary places what waits. *)

Pos(q, i) == CHOOSE n \in DOMAIN q : q[n] = i

\* In an ascending sequence every element has its position, in the order of the elements.
LEMMA PosIs ==
    ASSUME NEW q \in Seq(Nat), Ascending(q)
    PROVE  /\ \A i \in ToSet(q) : Pos(q, i) \in 1 .. Len(q) /\ q[Pos(q, i)] = i
           /\ \A i, j \in ToSet(q) : i < j => Pos(q, i) < Pos(q, j)
  <1>1. DOMAIN q = 1 .. Len(q) /\ Len(q) \in Nat /\ ToSet(q) \subseteq Nat
    BY NoElements
  <1>2. ASSUME NEW i \in ToSet(q) PROVE Pos(q, i) \in 1 .. Len(q) /\ q[Pos(q, i)] = i
    <2>1. \E n \in DOMAIN q : q[n] = i
      BY DEF ToSet
    <2> QED
      BY <1>1, <2>1 DEF Pos
  <1>3. ASSUME NEW i \in ToSet(q), NEW j \in ToSet(q), i < j
        PROVE  Pos(q, i) < Pos(q, j)
    <2>1. PICK m, n : m = Pos(q, i) /\ n = Pos(q, j)
      OBVIOUS
    <2>2. m \in 1 .. Len(q) /\ n \in 1 .. Len(q) /\ q[m] = i /\ q[n] = j
      BY <1>2, <2>1
    <2>3. i \in Nat /\ j \in Nat
      BY <1>1
    <2>4. n < m => q[n] < q[m]
      BY <1>1, <2>2 DEF Ascending
    <2>5. m # n /\ ~(n < m)
      BY <1>3, <2>2, <2>3, <2>4
    <2> QED
      BY <1>1, <2>1, <2>2, <2>5
  <1> QED
    BY <1>2, <1>3

\* Of the numbers in a set, some are taken before the others.
FirstOf(set, taken) == \A j \in taken, i \in set : i < j => i \in taken

\* What a placement takes of the waiting inputs is the first of them, one at least if there
\* are any.
LEMMA TakenIs ==
    ASSUME NEW q \in Seq(Nat), NEW mode
    PROVE  /\ Taken(q, mode) \in Seq(Nat)
           /\ ToSet(Taken(q, mode)) \subseteq ToSet(q)
           /\ ToSet(q) # {} => ToSet(Taken(q, mode)) # {}
           /\ Ascending(q) => FirstOf(ToSet(q), ToSet(Taken(q, mode)))
  <1>1. CASE mode = "oneAtATime" /\ q # <<>>
    <2>1. Head(q) \in ToSet(q) /\ Head(q) \in Nat
      <3>1. Head(q) \in ToSet(q) /\ ToSet(q) \subseteq Nat
        BY <1>1, NoElements
      <3> QED
        BY <3>1
    <2>2. Taken(q, mode) = <<Head(q)>>
      BY <1>1 DEF Taken
    <2>3. <<Head(q)>> \in Seq(Nat) /\ ToSet(<<Head(q)>>) = {Head(q)}
      BY <2>1 DEF ToSet
    <2>4. ASSUME Ascending(q), NEW i \in ToSet(q), i < Head(q) PROVE FALSE
      <3>1. PICK n \in DOMAIN q : q[n] = i
        BY DEF ToSet
      <3>2. DOMAIN q = 1 .. Len(q) /\ Len(q) \in Nat /\ Head(q) = q[1] /\ i \in Nat
        BY <1>1, NoElements
      <3>3. n = 1 \/ 1 < n
        BY <3>1, <3>2
      <3>4. 1 \in DOMAIN q
        BY <3>1, <3>2
      <3>5. ~(i < q[1])
        BY <2>1, <2>4, <3>1, <3>2, <3>3, <3>4 DEF Ascending
      <3> QED
        BY <2>4, <3>2, <3>5
    <2>5. ASSUME Ascending(q) PROVE FirstOf(ToSet(q), {Head(q)})
      BY <2>4, <2>5 DEF FirstOf
    <2> QED
      BY <2>1, <2>2, <2>3, <2>5
  <1>2. CASE ~(mode = "oneAtATime" /\ q # <<>>)
    BY <1>2 DEF Taken, FirstOf
  <1> QED
    BY <1>1, <1>2

\* The classes of drafts.
LEMMA ClassIs ==
    ASSUME NEW draft \in SubmissionDraft
    PROVE  /\ ClassOf(draft) \in {"steer", "followUp", "write", "display", "reset"}
           /\ ClassOf(draft) = "steer" <=> draft.kind = "input" /\ draft.mode = "steer"
           /\ ClassOf(draft) = "followUp" <=>
                draft.kind = "input" /\ draft.mode \in {"followUp", "reject"}
           /\ ClassOf(draft) = "reset" <=> draft.kind = "write" /\ draft.head = "self"
           /\ ClassOf(draft) = "display" <=>
                draft.kind = "write" /\ draft.display /\ draft.head # "self"
           /\ draft.kind = "write" <=> ClassOf(draft) \in {"write", "display", "reset"}
  <1>1. draft.kind \in {"input", "write"} /\ draft.mode \in {"steer", "followUp", "reject"}
        /\ draft.display \in BOOLEAN
    BY DEF SubmissionDraft
  <1>2. CASE draft.kind = "write" /\ draft.head = "self"
    BY <1>2 DEF ClassOf
  <1>3. CASE draft.kind = "write" /\ draft.head # "self" /\ draft.display
    BY <1>3 DEF ClassOf
  <1>4. CASE draft.kind = "write" /\ draft.head # "self" /\ ~draft.display
    BY <1>4 DEF ClassOf
  <1>5. CASE draft.kind = "input" /\ draft.mode = "steer"
    BY <1>5 DEF ClassOf
  <1>6. CASE draft.kind = "input" /\ draft.mode # "steer"
    BY <1>1, <1>6 DEF ClassOf
  <1> QED
    BY <1>1, <1>2, <1>3, <1>4, <1>5, <1>6

\* Inputs and writes are of different classes.
LEMMA SameKind ==
    ASSUME NEW s \in Database, NEW i \in DOMAIN s.sub, NEW j \in DOMAIN s.sub,
           SameClass(s, i, j)
    PROVE  IsWrite(s, i) <=> IsWrite(s, j)
  <1>1. s.sub[i].draft \in SubmissionDraft /\ s.sub[j].draft \in SubmissionDraft
    BY Fields DEF SubmissionRecord
  <1> QED
    BY <1>1, ClassIs DEF SameClass, IsWrite

\* The inputs placed are the first of their class.
FirstOfClass(s, c, users) ==
    \A j \in users, i \in ToSet(s.inbox[c]) : i < j /\ SameClass(s, i, j) => i \in users

\* What is selected are inputs that wait, the first of each class, at the end of a run some
\* of them.
LEMMA SelectedIs ==
    ASSUME NEW s \in Database, NEW c \in Conversation, NEW final \in BOOLEAN, NEW modes
    PROVE  LET users == Selected(s, c, final, modes)
           IN  /\ users \in Seq(Nat)
               /\ Ascending(s.inbox[c]) => Ascending(users)
               /\ ToSet(users) \subseteq ToSet(s.inbox[c]) \ Writes(s, c)
               /\ /\ \A i \in ToSet(s.inbox[c]) : s.sub[i] \in SubmissionRecord
                  /\ final /\ ToSet(users) = {}
                  => ToSet(s.inbox[c]) \subseteq Writes(s, c)
               /\ /\ \A i \in ToSet(s.inbox[c]) : s.sub[i] \in SubmissionRecord
                  /\ Ascending(s.inbox[c])
                  => FirstOfClass(s, c, ToSet(users))
  <1>1. PICK items, steering, following :
           items = s.inbox[c] /\ steering = InMode(s, c, Steers)
           /\ following = InMode(s, c, FollowUpModes)
    OBVIOUS
  <1>2. PICK steers, followUps :
           /\ steers = Taken(Only(items, steering), modes.steering)
           /\ followUps = Taken(Only(items, following), modes.followUp)
    OBVIOUS
  <1>3. PICK chosen : chosen = ToSet(steers) \cup IF final THEN ToSet(followUps) ELSE {}
    OBVIOUS
  <1>4. Selected(s, c, final, modes) = Only(items, chosen)
    BY <1>1, <1>2, <1>3 DEF Selected
  <1>5. items \in Seq(Nat)
    BY <1>1, Fields
  <1>6. /\ Only(items, chosen) \in Seq(Nat)
        /\ ToSet(Only(items, chosen)) = ToSet(items) \cap chosen
        /\ Ascending(items) => Ascending(Only(items, chosen))
    BY <1>5, OnlyKeeps
  <1>7. /\ Only(items, steering) \in Seq(Nat)
        /\ ToSet(Only(items, steering)) = ToSet(items) \cap steering
        /\ Only(items, following) \in Seq(Nat)
        /\ ToSet(Only(items, following)) = ToSet(items) \cap following
    BY <1>5, OnlyKeeps
  <1>8. /\ ToSet(steers) \subseteq ToSet(items) \cap steering
        /\ ToSet(followUps) \subseteq ToSet(items) \cap following
        /\ ToSet(items) \cap steering # {} => ToSet(steers) # {}
        /\ ToSet(items) \cap following # {} => ToSet(followUps) # {}
    <2>1. /\ ToSet(steers) \subseteq ToSet(Only(items, steering))
          /\ ToSet(Only(items, steering)) # {} => ToSet(steers) # {}
      BY <1>2, <1>7, TakenIs
    <2>2. /\ ToSet(followUps) \subseteq ToSet(Only(items, following))
          /\ ToSet(Only(items, following)) # {} => ToSet(followUps) # {}
      BY <1>2, <1>7, TakenIs
    <2> QED
      BY <1>7, <2>1, <2>2
  <1>11. ASSUME Ascending(items)
         PROVE  /\ FirstOf(ToSet(items) \cap steering, ToSet(steers))
                /\ FirstOf(ToSet(items) \cap following, ToSet(followUps))
    <2>1. Ascending(Only(items, steering)) /\ Ascending(Only(items, following))
      BY <1>5, <1>11, OnlyKeeps
    <2>2. FirstOf(ToSet(Only(items, steering)), ToSet(steers))
      BY <1>2, <1>7, <2>1, TakenIs
    <2>3. FirstOf(ToSet(Only(items, following)), ToSet(followUps))
      BY <1>2, <1>7, <2>1, TakenIs
    <2> QED
      BY <1>7, <2>2, <2>3
  <1>9. steering \cap Writes(s, c) = {} /\ following \cap Writes(s, c) = {}
    BY <1>1 DEF InMode, Writes
  <1>10. ASSUME \A i \in ToSet(items) : s.sub[i] \in SubmissionRecord, final,
                ToSet(Only(items, chosen)) = {}
         PROVE  ToSet(items) \subseteq Writes(s, c)
    <2>1. ToSet(items) \cap steering = {} /\ ToSet(items) \cap following = {}
      BY <1>3, <1>6, <1>8, <1>10
    <2>2. ASSUME NEW i \in ToSet(items), ~IsWrite(s, i)
          PROVE  i \in steering \/ i \in following
      <3>1. s.sub[i].draft.mode \in {"steer", "followUp", "reject"}
        BY <1>10 DEF SubmissionRecord, SubmissionDraft
      <3> QED
        BY <1>1, <2>2, <3>1 DEF InMode, Steers, FollowUpModes
    <2> QED
      BY <1>1, <2>1, <2>2 DEF Writes
  <1>12. ASSUME \A i \in ToSet(items) : s.sub[i] \in SubmissionRecord, Ascending(items),
                NEW j \in ToSet(items) \cap chosen, NEW i \in ToSet(items), i < j,
                SameClass(s, i, j)
         PROVE  i \in chosen
    <2>1. s.sub[i].draft \in SubmissionDraft /\ s.sub[j].draft \in SubmissionDraft
      BY <1>12 DEF SubmissionRecord
    <2>2. CASE j \in ToSet(steers)
      <3>1. j \in steering
        BY <1>8, <2>2
      <3>2. s.sub[j].draft.kind # "write" /\ s.sub[j].draft.mode = "steer"
        BY <1>1, <3>1 DEF InMode, Steers, IsWrite
      <3>3. s.sub[j].draft.kind = "input"
        BY <2>1, <3>2 DEF SubmissionDraft
      <3>4. ClassOf(s.sub[i].draft) = "steer"
        BY <1>12, <2>1, <3>2, <3>3, ClassIs DEF SameClass
      <3>5. s.sub[i].draft.kind = "input" /\ s.sub[i].draft.mode = "steer"
        BY <2>1, <3>4, ClassIs
      <3>6. i \in steering
        BY <1>1, <1>12, <3>5 DEF InMode, Steers, IsWrite
      <3> QED
        BY <1>3, <1>11, <1>12, <2>2, <3>6 DEF FirstOf
    <2>3. CASE j \notin ToSet(steers)
      <3>1. final /\ j \in ToSet(followUps) /\ j \in following
        BY <1>3, <1>8, <2>3
      <3>2. s.sub[j].draft.kind # "write" /\ s.sub[j].draft.mode \in {"followUp", "reject"}
        BY <1>1, <3>1 DEF InMode, FollowUpModes, IsWrite
      <3>3. s.sub[j].draft.kind = "input"
        BY <2>1, <3>2 DEF SubmissionDraft
      <3>4. ClassOf(s.sub[i].draft) = "followUp"
        BY <1>12, <2>1, <3>2, <3>3, ClassIs DEF SameClass
      <3>5. s.sub[i].draft.kind = "input" /\ s.sub[i].draft.mode \in {"followUp", "reject"}
        BY <2>1, <3>4, ClassIs
      <3>6. i \in following
        BY <1>1, <1>12, <3>5 DEF InMode, FollowUpModes, IsWrite
      <3> QED
        BY <1>3, <1>11, <1>12, <3>1, <3>6 DEF FirstOf
    <2> QED
      BY <2>2, <2>3
  <1>13. ASSUME \A i \in ToSet(items) : s.sub[i] \in SubmissionRecord, Ascending(items)
         PROVE  FirstOfClass(s, c, ToSet(Only(items, chosen)))
    BY <1>1, <1>6, <1>12, <1>13 DEF FirstOfClass
  <1> QED
    BY <1>1, <1>3, <1>4, <1>6, <1>8, <1>9, <1>10, <1>13

\* The head stays among the entries, also between the writes.
LEMMA HeadsAre ==
    ASSUME NEW s, WellFormed(s), NEW c \in Conversation, NEW writes \in Seq(Nat),
           ToSet(writes) \subseteq DOMAIN s.sub
    PROVE  \A n \in 0 .. Len(writes) :
             Heads(s, c, writes)[n] \in Nat /\ Heads(s, c, writes)[n] <= s.entries + n
  <1> DEFINE Next1(v, n) ==
               CASE s.sub[writes[n]].draft.head = "none" -> v
                 [] s.sub[writes[n]].draft.head = "self" -> s.entries + n
                 [] s.sub[writes[n]].draft.head = "at" ->
                      IF IsStale(v, s.sub[writes[n]].target) THEN v
                      ELSE s.sub[writes[n]].target
             make == [n \in 1 .. Len(writes) |-> [v \in Nat |-> Next1(v, n)]]
             IsF(f) == f = [n \in 0 .. Len(writes) |->
                              IF n = 0 THEN s.head[c] ELSE Next1(f[n - 1], n)]
             h == CHOOSE f : IsF(f)
  <1>1. Heads(s, c, writes) = h
    BY DEF Heads
  <1>2. s \in Database /\ s.entries \in Nat /\ s.head[c] \in Nat /\ s.head[c] <= s.entries
    BY Fields DEF WellFormed
  <1>3. Len(writes) \in Nat /\ DOMAIN writes = 1 .. Len(writes)
    BY NoElements
  <1>4. ASSUME NEW n \in 1 .. Len(writes), NEW v \in Nat
        PROVE  /\ Next1(v, n) \in Nat
               /\ v <= s.entries + (n - 1) => Next1(v, n) <= s.entries + n
    <2>1. writes[n] \in DOMAIN s.sub
      BY <1>3 DEF ToSet
    <2>2. s.sub[writes[n]] \in SubmissionRecord /\ s.sub[writes[n]].target <= s.entries
      BY <1>2, <2>1, Fields DEF WellFormed
    <2>3. s.sub[writes[n]].draft.head \in {"none", "self", "at"}
          /\ s.sub[writes[n]].target \in Nat
      BY <2>2 DEF SubmissionRecord, SubmissionDraft
    <2> QED
      BY <1>2, <1>3, <2>2, <2>3, SMTT(30)
  <1>5. make \in [1 .. Len(writes) -> [Nat -> Nat]]
    <2> HIDE DEF Next1
    <2> QED
      BY <1>4
  <1>6. PICK f \in [0 .. Len(writes) -> Nat] : MadeBy(f, s.head[c], make, Len(writes))
    <2> HIDE DEF make
    <2> QED
      BY <1>2, <1>3, <1>5, Stepwise
  <1>7. ASSUME NEW n \in 0 .. Len(writes)
        PROVE  f[n] = IF n = 0 THEN s.head[c] ELSE Next1(f[n - 1], n)
    <2>1. f[n] = IF n = 0 THEN s.head[c] ELSE make[n][f[n - 1]]
      <3> HIDE DEF make
      <3> QED
        BY <1>6 DEF MadeBy
    <2>2. n # 0 => n \in 1 .. Len(writes) /\ f[n - 1] \in Nat
      BY <1>3, <1>6, SMTT(30)
    <2>3. n # 0 => make[n][f[n - 1]] = Next1(f[n - 1], n)
      <3> HIDE DEF Next1
      <3> QED
        BY <2>2
    <2> HIDE DEF make, Next1
    <2> QED
      BY <2>1, <2>3
  <1>8. IsF(f)
    <2>1. f = [n \in 0 .. Len(writes) |-> f[n]]
      BY <1>6
    <2> HIDE DEF Next1
    <2> QED
      BY <1>7, <2>1, Zenon
  <1>9. IsF(h)
    <2> HIDE DEF IsF
    <2> QED
      BY <1>8
  <1>10. ASSUME NEW n \in 0 .. Len(writes)
         PROVE  h[n] = IF n = 0 THEN s.head[c] ELSE Next1(h[n - 1], n)
    <2> HIDE DEF h, Next1
    <2> QED
      BY <1>9
  <1> DEFINE Good == {n \in 0 .. Len(writes) : h[n] \in Nat /\ h[n] <= s.entries + n}
  <1> HIDE DEF h, Next1
  <1>11. 0 \in Good
    BY <1>2, <1>3, <1>10
  <1>12. ASSUME NEW n \in 0 .. Len(writes) - 1, n \in Good PROVE n + 1 \in Good
    <2>1. n + 1 \in 1 .. Len(writes) /\ n + 1 \in 0 .. Len(writes) /\ n + 1 # 0
          /\ (n + 1) - 1 = n
      BY <1>3
    <2>2. h[n + 1] = Next1(h[n], n + 1) /\ h[n] \in Nat /\ h[n] <= s.entries + n
      BY <1>10, <1>12, <2>1
    <2> QED
      BY <1>4, <2>1, <2>2
  <1>13. \A n \in 0 .. Len(writes) : n \in Good
    <2> HIDE DEF Good
    <2> QED
      BY <1>3, <1>11, <1>12, UpTo
  <1> QED
    BY <1>1, <1>13

\* What a boundary makes of the database: the writes get entries first, in their
\* order and up to `middle', then the inputs.
BoundaryPlaces(s, t, c, users, middle) ==
    /\ Others(s, t, c) /\ KeepsSub(s, t)
    /\ t.lifecycle = s.lifecycle /\ t.doc = s.doc /\ t.gen = s.gen /\ t.run = s.run
    /\ s.entries <= middle /\ middle <= t.entries
    /\ Ascending(t.inbox[c])
    /\ ToSet(t.inbox[c]) = ToSet(s.inbox[c]) \ (Writes(s, c) \cup users)
    /\ users \subseteq ToSet(s.inbox[c]) \ Writes(s, c)
    /\ \A i \in DOMAIN s.sub :
         /\ i \notin Writes(s, c) \cup users => t.sub[i] = s.sub[i]
         /\ i \in Writes(s, c) =>
              /\ t.sub[i].run = s.sub[i].run
              /\ \/ t.sub[i].status = "unanswered" /\ t.sub[i].entry = s.sub[i].entry
                    /\ s.sub[i].target # NoEntry
                 \/ t.sub[i].status = "done" /\ s.entries < t.sub[i].entry
                    /\ t.sub[i].entry <= middle
         /\ i \in users =>
              t.sub[i] = [s.sub[i] EXCEPT !.status = "placed", !.entry = t.sub[i].entry]
              /\ middle < t.sub[i].entry
    /\ \A i, j \in Writes(s, c) :
         i < j /\ t.sub[i].status = "done" /\ t.sub[j].status = "done" =>
             t.sub[i].entry < t.sub[j].entry
    /\ \A i, j \in users : i < j => t.sub[i].entry < t.sub[j].entry

\* What place makes of a submission.
PlacedAs(s, heads, writes, users, i) ==
    IF i \in ToSet(writes)
    THEN IF IsStale(heads[Pos(writes, i) - 1], s.sub[i].target)
         THEN SettledAs(s.sub[i], "unanswered")
         ELSE [s.sub[i] EXCEPT !.status = "done", !.entry = s.entries + Pos(writes, i)]
    ELSE IF i \in ToSet(users)
    THEN [s.sub[i] EXCEPT !.status = "placed",
                          !.entry = s.entries + Len(writes) + Pos(users, i)]
    ELSE s.sub[i]

\* The numbers of new entries.
LEMMA NewEntries ==
    ASSUME NEW entries \in Nat, NEW writes \in Nat, NEW users \in Nat
    PROVE  /\ \A n \in 1 .. writes :
                entries < entries + n /\ entries + n <= entries + writes
                /\ entries + n <= entries + writes + users
           /\ \A n \in 1 .. users :
                entries + writes < entries + writes + n
                /\ entries + writes + n <= entries + writes + users
           /\ \A n \in Nat : n <= entries => n <= entries + writes + users
  OBVIOUS

\* A placement gives every waiting write its entry, then every input it takes, in order.
LEMMA PlacedDoes ==
    ASSUME NEW s, WellFormed(s), NEW c \in Conversation,
           Ascending(s.inbox[c]), ToSet(s.inbox[c]) = InState(s, c, "queued"),
           \A i \in InState(s, c, "queued") :
               s.sub[i].entry = NoEntry /\ s.sub[i].run = NoSubmission,
           NEW writes \in Seq(Nat), Ascending(writes), ToSet(writes) = Writes(s, c),
           NEW users \in Seq(Nat), Ascending(users),
           ToSet(users) \subseteq ToSet(s.inbox[c]) \ Writes(s, c)
    PROVE  LET t == Placed(s, c, writes, users)
           IN  /\ WellFormed(t)
               /\ BoundaryPlaces(s, t, c, ToSet(users), s.entries + Len(writes))
  <1>1. s \in Database
    BY DEF WellFormed
  <1>2. PICK t : t = Placed(s, c, writes, users)
    OBVIOUS
  <1>3. PICK heads : heads = Heads(s, c, writes)
    OBVIOUS
  <1>4. /\ t.sub = [i \in DOMAIN s.sub |-> PlacedAs(s, heads, writes, users, i)]
        /\ t.gen = s.gen /\ t.run = s.run /\ t.doc = s.doc /\ t.lifecycle = s.lifecycle
        /\ t.head = [s.head EXCEPT ![c] = heads[Len(writes)]]
        /\ t.entries = s.entries + Len(writes) + Len(users)
        /\ t.inbox = [s.inbox EXCEPT ![c] =
             Only(s.inbox[c], ToSet(s.inbox[c]) \ (ToSet(writes) \cup ToSet(users)))]
    BY <1>1, <1>2, <1>3 DEF Placed, PlacedAs, Pos, Database
  <1>5. t = Base(t.sub, t.gen, t.inbox, t.run, t.head, t.entries, t.doc, t.lifecycle)
    BY <1>1, <1>2 DEF Placed, Database, Base
  <1>6. /\ Len(writes) \in Nat /\ Len(users) \in Nat /\ s.entries \in Nat
        /\ ToSet(writes) \subseteq InState(s, c, "queued")
        /\ ToSet(users) \subseteq InState(s, c, "queued")
        /\ ToSet(writes) \cap ToSet(users) = {}
        /\ InState(s, c, "queued") \subseteq OfIn(s, c) /\ OfIn(s, c) \subseteq DOMAIN s.sub
    BY <1>1, NoElements, Fields DEF InState, OfIn, Writes
  <1>7. \A n \in 0 .. Len(writes) : heads[n] \in Nat /\ heads[n] <= s.entries + n
    BY <1>3, <1>6, HeadsAre
  <1>8. ASSUME NEW i \in ToSet(writes)
        PROVE  /\ t.sub[i] \in SubmissionRecord
               /\ t.sub[i].conversation = s.sub[i].conversation
               /\ t.sub[i].draft = s.sub[i].draft /\ t.sub[i].target = s.sub[i].target
               /\ t.sub[i].run = s.sub[i].run
               /\ Pos(writes, i) \in 1 .. Len(writes)
               /\ \/ /\ t.sub[i].status = "unanswered" /\ t.sub[i].entry = s.sub[i].entry
                     /\ s.sub[i].target # NoEntry
                  \/ t.sub[i].status = "done" /\ t.sub[i].entry = s.entries + Pos(writes, i)
    <2>1. i \in DOMAIN s.sub /\ s.sub[i].status = "queued" /\ s.sub[i] \in SubmissionRecord
      BY <1>1, <1>6, Fields DEF InState
    <2>2. PICK n \in 1 .. Len(writes) : n = Pos(writes, i)
      BY PosIs
    <2>3. t.sub[i] = IF IsStale(heads[n - 1], s.sub[i].target)
                     THEN SettledAs(s.sub[i], "unanswered")
                     ELSE [s.sub[i] EXCEPT !.status = "done", !.entry = s.entries + n]
      BY <1>4, <2>1, <2>2 DEF PlacedAs
    <2>4. CASE IsStale(heads[n - 1], s.sub[i].target)
      <3>1. t.sub[i] = [s.sub[i] EXCEPT !.status = "unanswered"]
        BY <2>1, <2>3, <2>4 DEF SettledAs
      <3> QED
        BY <2>1, <2>2, <2>4, <3>1 DEF SubmissionRecord, IsStale
    <2>5. CASE ~IsStale(heads[n - 1], s.sub[i].target)
      <3>1. t.sub[i] = [s.sub[i] EXCEPT !.status = "done", !.entry = s.entries + n]
        BY <2>3, <2>5
      <3>2. s.entries + n \in Nat
        BY <1>6, <2>2
      <3> QED
        BY <2>1, <2>2, <3>1, <3>2 DEF SubmissionRecord
    <2> QED
      BY <2>4, <2>5
  <1>9. ASSUME NEW i \in ToSet(users)
        PROVE  /\ t.sub[i] \in SubmissionRecord
               /\ t.sub[i].conversation = s.sub[i].conversation
               /\ t.sub[i].draft = s.sub[i].draft /\ t.sub[i].target = s.sub[i].target
               /\ t.sub[i].run = s.sub[i].run
               /\ Pos(users, i) \in 1 .. Len(users)
               /\ t.sub[i].entry = s.entries + Len(writes) + Pos(users, i)
               /\ t.sub[i] = [s.sub[i] EXCEPT !.status = "placed", !.entry = t.sub[i].entry]
    <2>1. i \in DOMAIN s.sub /\ i \notin ToSet(writes) /\ s.sub[i] \in SubmissionRecord
      BY <1>1, <1>6, Fields DEF InState
    <2>2. PICK n \in 1 .. Len(users) : n = Pos(users, i)
      BY PosIs
    <2>3. t.sub[i] = [s.sub[i] EXCEPT !.status = "placed",
                                      !.entry = s.entries + Len(writes) + n]
      BY <1>4, <2>1, <2>2 DEF PlacedAs
    <2>4. s.entries + Len(writes) + n \in Nat
      BY <1>6, <2>2
    <2>5. t.sub[i].entry = s.entries + Len(writes) + n
      BY <2>1, <2>3 DEF SubmissionRecord
    <2> QED
      BY <2>1, <2>2, <2>3, <2>4, <2>5 DEF SubmissionRecord
  <1>10. ASSUME NEW i \in DOMAIN s.sub, i \notin ToSet(writes), i \notin ToSet(users)
         PROVE  t.sub[i] = s.sub[i] /\ t.sub[i] \in SubmissionRecord
    BY <1>1, <1>4, <1>10, Fields DEF PlacedAs
  <1>11. t.sub \in Seq(SubmissionRecord) /\ DOMAIN t.sub = DOMAIN s.sub
    <2>1. DOMAIN t.sub = 1 .. Len(s.sub) /\ Len(s.sub) \in Nat
      BY <1>1, <1>4, Fields
    <2>2. t.sub = [i \in 1 .. Len(s.sub) |-> t.sub[i]]
      BY <1>1, <1>4, Fields
    <2>3. \A i \in 1 .. Len(s.sub) : t.sub[i] \in SubmissionRecord
      BY <1>1, <1>8, <1>9, <1>10, Fields
    <2>4. t.sub \in Seq(SubmissionRecord)
      BY <2>1, <2>2, <2>3, SeqOfAll
    <2> QED
      BY <1>1, <2>1, <2>4, Fields
  <1>12. PICK rest : rest = Only(s.inbox[c], ToSet(s.inbox[c]) \ (ToSet(writes) \cup ToSet(users)))
    OBVIOUS
  <1>13. /\ rest \in Seq(Nat) /\ Ascending(rest)
         /\ ToSet(rest) = ToSet(s.inbox[c]) \ (Writes(s, c) \cup ToSet(users))
    <2>1. s.inbox[c] \in Seq(Nat)
      BY <1>1, Fields
    <2> QED
      BY <1>12, <2>1, OnlyKeeps
  <1>14. t.inbox \in [Conversation -> Seq(Nat)] /\ t.inbox[c] = rest
         /\ \A e \in Conversation \ {c} : t.inbox[e] = s.inbox[e]
    BY <1>1, <1>4, <1>12, <1>13, Fields
  <1>15. heads[Len(writes)] \in Nat /\ heads[Len(writes)] <= s.entries + Len(writes)
    BY <1>6, <1>7
  <1>16. t.head \in [Conversation -> Nat] /\ \A e \in Conversation : t.head[e] <= t.entries
    <2>1. \A e \in Conversation : s.head[e] <= s.entries /\ s.head[e] \in Nat
      BY <1>1, Fields DEF WellFormed
    <2> QED
      BY <1>1, <1>4, <1>6, <1>15, <2>1, Fields
  <1>17. t.entries \in Nat
    BY <1>4, <1>6
  <1>18. t \in Database
    BY <1>1, <1>4, <1>5, <1>11, <1>14, <1>16, <1>17, Fields DEF Base, Database
  <1>19. ASSUME NEW i \in DOMAIN s.sub
         PROVE  t.sub[i].entry <= t.entries /\ t.sub[i].target <= t.entries
    <2>1. s.sub[i].entry <= s.entries /\ s.sub[i].target <= s.entries
          /\ s.sub[i].entry \in Nat /\ s.sub[i].target \in Nat
      BY <1>1, Fields DEF WellFormed, SubmissionRecord
    <2>2. /\ \A n \in 1 .. Len(writes) : s.entries + n <= t.entries
          /\ \A n \in 1 .. Len(users) : s.entries + Len(writes) + n <= t.entries
          /\ \A n \in Nat : n <= s.entries => n <= t.entries
      BY <1>4, <1>6, NewEntries
    <2>3. CASE i \in ToSet(writes)
      <3>1. t.sub[i].target = s.sub[i].target
            /\ t.sub[i].entry \in {s.sub[i].entry, s.entries + Pos(writes, i)}
            /\ Pos(writes, i) \in 1 .. Len(writes)
        BY <1>8, <2>3
      <3> QED
        BY <2>1, <2>2, <3>1
    <2>4. CASE i \in ToSet(users)
      <3>1. t.sub[i].target = s.sub[i].target
            /\ t.sub[i].entry = s.entries + Len(writes) + Pos(users, i)
            /\ Pos(users, i) \in 1 .. Len(users)
        BY <1>9, <2>4
      <3> QED
        BY <2>1, <2>2, <3>1
    <2>5. CASE i \notin ToSet(writes) /\ i \notin ToSet(users)
      <3>1. t.sub[i] = s.sub[i]
        BY <1>10, <2>5
      <3> QED
        BY <2>1, <2>2, <3>1
    <2> QED
      BY <2>3, <2>4, <2>5
  <1>20. WellFormed(t)
    <2>1. \A e \in Conversation : t.doc[e].contracts \subseteq DOMAIN t.sub
      BY <1>4, <1>11 DEF WellFormed
    <2> QED
      BY <1>11, <1>16, <1>18, <1>19, <2>1 DEF WellFormed
  <1>21. KeepsSub(s, t)
    <2>1. ASSUME NEW i \in DOMAIN s.sub
          PROVE  /\ Advances(s.sub[i], t.sub[i])
                 /\ s.sub[i].status = "placed" => t.sub[i].status = "placed"
      <3>1. CASE i \in ToSet(writes) \/ i \in ToSet(users)
        <4>1. s.sub[i].status = "queued" /\ s.sub[i].entry = NoEntry
              /\ s.sub[i].run = NoSubmission
          BY <1>6, <3>1 DEF InState
        <4>2. t.sub[i].conversation = s.sub[i].conversation /\ t.sub[i].draft = s.sub[i].draft
          BY <1>8, <1>9, <3>1
        <4> QED
          BY <4>1, <4>2 DEF Advances
      <3>2. CASE i \notin ToSet(writes) /\ i \notin ToSet(users)
        BY <1>10, <3>2 DEF Advances
      <3> QED
        BY <3>1, <3>2
    <2>2. Goes(s, t)
      BY <2>1, GoesOn
    <2> QED
      BY <1>8, <1>9, <1>10, <1>11, <2>2 DEF KeepsSub
  <1>22. Others(s, t, c)
    <2> SUFFICES ASSUME NEW e \in Conversation \ {c} PROVE Same(s, t, e)
      BY DEF Others
    <2>1. OfIn(t, e) = OfIn(s, e)
      BY <1>21 DEF OfIn, KeepsSub
    <2>2. \A i \in OfIn(s, e) : t.sub[i] = s.sub[i]
      <3>1. \A i \in OfIn(s, e) : i \in DOMAIN s.sub /\ i \notin OfIn(s, c)
        BY DEF OfIn
      <3> QED
        BY <1>6, <1>10, <3>1
    <2> QED
      BY <1>4, <1>14, <2>1, <2>2 DEF Same
  <1>23. ASSUME NEW i \in Writes(s, c), NEW j \in Writes(s, c), i < j,
                t.sub[i].status = "done", t.sub[j].status = "done"
         PROVE  t.sub[i].entry < t.sub[j].entry
    <2>1. Pos(writes, i) < Pos(writes, j) /\ Pos(writes, i) \in 1 .. Len(writes)
          /\ Pos(writes, j) \in 1 .. Len(writes)
      BY <1>23, PosIs
    <2>2. t.sub[i].entry = s.entries + Pos(writes, i) /\ t.sub[j].entry = s.entries + Pos(writes, j)
      BY <1>8, <1>23
    <2> QED
      BY <1>6, <2>1, <2>2
  <1>24. ASSUME NEW i \in Writes(s, c)
         PROVE  /\ t.sub[i].run = s.sub[i].run
                /\ \/ t.sub[i].status = "unanswered" /\ t.sub[i].entry = s.sub[i].entry
                      /\ s.sub[i].target # NoEntry
                   \/ t.sub[i].status = "done" /\ s.entries < t.sub[i].entry
                      /\ t.sub[i].entry <= s.entries + Len(writes)
    <2>1. \A n \in 1 .. Len(writes) :
             s.entries < s.entries + n /\ s.entries + n <= s.entries + Len(writes)
      BY <1>6, NewEntries
    <2>2. Pos(writes, i) \in 1 .. Len(writes) /\ t.sub[i].run = s.sub[i].run
          /\ \/ t.sub[i].status = "unanswered" /\ t.sub[i].entry = s.sub[i].entry
                /\ s.sub[i].target # NoEntry
             \/ t.sub[i].status = "done" /\ t.sub[i].entry = s.entries + Pos(writes, i)
      BY <1>8
    <2> QED
      BY <2>1, <2>2
  <1>25. ASSUME NEW i \in ToSet(users)
         PROVE  t.sub[i] = [s.sub[i] EXCEPT !.status = "placed", !.entry = t.sub[i].entry]
                /\ s.entries + Len(writes) < t.sub[i].entry
    <2>1. \A n \in 1 .. Len(users) : s.entries + Len(writes) < s.entries + Len(writes) + n
      BY <1>6, NewEntries
    <2>2. /\ Pos(users, i) \in 1 .. Len(users)
          /\ t.sub[i].entry = s.entries + Len(writes) + Pos(users, i)
          /\ t.sub[i] = [s.sub[i] EXCEPT !.status = "placed", !.entry = t.sub[i].entry]
      BY <1>9
    <2> QED
      BY <2>1, <2>2
  <1>28. ASSUME NEW i \in ToSet(users), NEW j \in ToSet(users), i < j
         PROVE  t.sub[i].entry < t.sub[j].entry
    <2>1. Pos(users, i) < Pos(users, j) /\ Pos(users, i) \in 1 .. Len(users)
          /\ Pos(users, j) \in 1 .. Len(users)
      BY <1>28, PosIs
    <2>2. t.sub[i].entry = s.entries + Len(writes) + Pos(users, i)
          /\ t.sub[j].entry = s.entries + Len(writes) + Pos(users, j)
      BY <1>9
    <2> QED
      BY <1>6, <2>1, <2>2
  <1>26. s.entries <= s.entries + Len(writes) /\ s.entries + Len(writes) <= t.entries
    BY <1>4, <1>6
  <1>27. BoundaryPlaces(s, t, c, ToSet(users), s.entries + Len(writes))
    BY <1>4, <1>10, <1>13, <1>14, <1>21, <1>22, <1>23, <1>24, <1>25, <1>26, <1>28
    DEF BoundaryPlaces
  <1> QED
    BY <1>2, <1>20, <1>27

\* What a boundary places is sound beside the live run, and no reset lies behind it.
LEMMA BoundarySound ==
    ASSUME NEW s, WellFormed(s), NEW t, WellFormed(t), NEW c \in Conversation,
           NEW users, NEW middle \in Nat, BoundaryPlaces(s, t, c, users, middle), Named(s),
           NEW ending, Sound(s, c, {}, ending), NEW open, Handed(s, c, open),
           FirstOfClass(s, c, users)
    PROVE  /\ Named(t)
           /\ Sound(t, c, users, ending)
           /\ CutOff(t, c, users)
           /\ ~QueuedReset(s, c) /\ CutOff(s, c, Inputs(s, c)) =>
                CutOff(t, c, Inputs(t, c) \cup users)
           /\ Handed(t, c, open)
  <1>1. s \in Database /\ t \in Database
    BY DEF WellFormed
  <1>2. /\ OfIn(t, c) = OfIn(s, c) /\ OfIn(s, c) \subseteq DOMAIN s.sub
        /\ \A i \in OfIn(s, c) : IsWrite(t, i) <=> IsWrite(s, i)
        /\ \A i \in OfIn(s, c) : IsReset(t, i) <=> IsReset(s, i)
    BY DEF BoundaryPlaces, KeepsSub, OfIn, IsWrite, IsReset
  <1>3. /\ ToSet(s.inbox[c]) = InState(s, c, "queued")
        /\ InState(s, c, "queued") \subseteq OfIn(s, c)
        /\ Writes(s, c) \subseteq InState(s, c, "queued")
        /\ users \subseteq InState(s, c, "queued") \ Writes(s, c)
        /\ \A i \in InState(s, c, "queued") :
             s.sub[i].entry = NoEntry /\ s.sub[i].run = NoSubmission
             /\ s.sub[i].draft.from.what # "continue" /\ s.sub[i].status = "queued"
        /\ \A i \in users : ~IsWrite(s, i)
    BY DEF Sound, InboxSound, InState, Writes, BoundaryPlaces
  <1>4. ASSUME NEW i \in OfIn(s, c), i \notin Writes(s, c), i \notin users
        PROVE  t.sub[i] = s.sub[i]
    BY <1>2, <1>4 DEF BoundaryPlaces
  <1>5. ASSUME NEW i \in Writes(s, c)
        PROVE  /\ t.sub[i].run = s.sub[i].run
               /\ \/ t.sub[i].status = "unanswered" /\ t.sub[i].entry = NoEntry
                     /\ s.sub[i].target # NoEntry
                  \/ t.sub[i].status = "done" /\ s.entries < t.sub[i].entry
                     /\ t.sub[i].entry <= middle
    <2>1. i \in DOMAIN s.sub
      BY <1>2, <1>3
    <2>2. /\ t.sub[i].run = s.sub[i].run
          /\ \/ t.sub[i].status = "unanswered" /\ t.sub[i].entry = s.sub[i].entry
                /\ s.sub[i].target # NoEntry
             \/ t.sub[i].status = "done" /\ s.entries < t.sub[i].entry
                /\ t.sub[i].entry <= middle
      BY <2>1 DEF BoundaryPlaces
    <2> QED
      BY <1>3, <2>2
  <1>6. ASSUME NEW i \in users
        PROVE  /\ t.sub[i].status = "placed" /\ t.sub[i].run = s.sub[i].run
               /\ middle < t.sub[i].entry
    <2>1. i \in DOMAIN s.sub /\ s.sub[i] \in SubmissionRecord
      BY <1>1, <1>2, <1>3, Fields
    <2>2. t.sub[i] = [s.sub[i] EXCEPT !.status = "placed", !.entry = t.sub[i].entry]
          /\ middle < t.sub[i].entry
      BY <2>1 DEF BoundaryPlaces
    <2> QED
      BY <2>1, <2>2 DEF SubmissionRecord
  <1>7. \A i \in OfIn(s, c) : t.sub[i].draft = s.sub[i].draft /\ t.sub[i].target = s.sub[i].target
    BY <1>2 DEF BoundaryPlaces, KeepsSub
  <1>8. /\ InState(t, c, "queued") = InState(s, c, "queued") \ (Writes(s, c) \cup users)
        /\ InState(t, c, "placed") = InState(s, c, "placed") \cup users
    BY <1>2, <1>3, <1>4, <1>5, <1>6 DEF InState
  <1>9. /\ Inputs(t, c) = Inputs(s, c) /\ First(t, c) = First(s, c) /\ t.run[c] = s.run[c]
        /\ Inputs(s, c) = InState(s, c, "placed") /\ Inputs(s, c) \cap users = {}
        /\ Inputs(s, c) \cap Writes(s, c) = {} /\ Inputs(s, c) \subseteq OfIn(s, c)
    <2>1. Inputs(s, c) = InState(s, c, "placed") /\ InState(s, c, "placed") \subseteq OfIn(s, c)
          /\ InState(s, c, "placed") \cap InState(s, c, "queued") = {}
      BY DEF Sound, RunSound, InState
    <2> QED
      BY <1>3, <2>1, ZenonT(40) DEF BoundaryPlaces, Inputs, First
  <1>10. Named(t)
    BY <1>1, KeptNamed DEF BoundaryPlaces
  <1>11. InboxSound(t, c)
    <2>1. ToSet(t.inbox[c]) = InState(t, c, "queued") /\ Ascending(t.inbox[c])
      BY <1>3, <1>8 DEF BoundaryPlaces
    <2>2. \A i \in InState(t, c, "queued") : i \in InState(s, c, "queued") /\ t.sub[i] = s.sub[i]
      BY <1>3, <1>4, <1>8
    <2> QED
      BY <1>3, <2>1, <2>2 DEF InboxSound
  <1>12. RunSound(t, c, users)
    <2>1. \A i \in Inputs(s, c) : t.sub[i] = s.sub[i]
      BY <1>4, <1>9
    <2>2. \A i \in users : t.sub[i].run = NoSubmission /\ ~IsWrite(t, i)
      BY <1>2, <1>3, <1>6
    <2>3. \A i \in InState(t, c, "placed") : ~IsWrite(t, i)
      BY <1>2, <1>8, <1>9, <2>2 DEF Sound, RunSound
    <2> QED
      BY <1>8, <1>9, <2>1, <2>2, <2>3 DEF Sound, RunSound
  <1>13. GenSound(t, c, ending)
    <2>1. t.gen = s.gen /\ t.run[c] = s.run[c]
      BY <1>9 DEF BoundaryPlaces
    <2> QED
      BY <2>1 DEF Sound, GenSound, Alive, Busy
  <1>14. \A i \in OfIn(s, c) : s.sub[i].entry \in Nat /\ s.sub[i].entry <= s.entries
         /\ t.sub[i].entry \in Nat
    BY <1>1, <1>2, Fields DEF WellFormed, BoundaryPlaces, KeepsSub, SubmissionRecord
  <1>15. s.entries \in Nat /\ s.entries <= middle
    BY <1>1, Fields DEF BoundaryPlaces
  <1>16. ASSUME NEW r \in OfIn(s, c), IsReset(s, r)
         PROVE  /\ t.sub[r].status = "done" /\ t.sub[r].target = NoEntry
                /\ t.sub[r].entry <= middle
                /\ r \notin Writes(s, c) => s.sub[r].status = "done" /\ t.sub[r] = s.sub[r]
    <2>1. s.sub[r].status \in {"queued", "done"} /\ s.sub[r].target = NoEntry
      BY <1>16 DEF Sound, ResetSound
    <2>2. CASE s.sub[r].status = "queued"
      <3>1. r \in Writes(s, c)
        BY <1>3, <1>16, <2>2 DEF Writes, InState, IsReset
      <3>2. t.sub[r].status = "done" /\ t.sub[r].entry <= middle
        BY <1>5, <2>1, <3>1
      <3>3. t.sub[r].target = NoEntry
        BY <1>7, <2>1
      <3> QED
        BY <3>1, <3>2, <3>3
    <2>3. CASE s.sub[r].status = "done"
      <3>1. t.sub[r] = s.sub[r]
        BY <1>3, <1>4, <2>3
      <3> QED
        BY <1>14, <1>15, <2>1, <2>3, <3>1
    <2> QED
      BY <2>1, <2>2, <2>3
  <1>17. ResetSound(t, c)
    <2> SUFFICES ASSUME NEW r \in OfIn(s, c), IsReset(s, r), NEW j \in OfIn(s, c), j > r,
                        t.sub[j].entry # NoEntry
                 PROVE  t.sub[r].entry < t.sub[j].entry
      BY <1>2, <1>16 DEF ResetSound
    <2>1. CASE j \in users
      BY <1>6, <1>14, <1>15, <1>16, <2>1
    <2>2. CASE j \in Writes(s, c)
      <3>1. t.sub[j].status = "done" /\ s.entries < t.sub[j].entry
        BY <1>5, <2>2
      <3>2. CASE r \in Writes(s, c)
        <4>1. r < j
          <5>1. r \in Nat /\ j \in Nat
            BY <1>1, <1>2, Fields
          <5> QED
            BY <5>1
        <4> QED
          BY <1>16, <2>2, <3>1, <3>2, <4>1 DEF BoundaryPlaces
      <3>3. CASE r \notin Writes(s, c)
        <4>1. t.sub[r] = s.sub[r]
          BY <1>16, <3>3
        <4> QED
          BY <1>14, <1>15, <3>1, <4>1
      <3> QED
        BY <3>2, <3>3
    <2>3. CASE j \notin users /\ j \notin Writes(s, c)
      <3>1. t.sub[j] = s.sub[j]
        BY <1>4, <2>3
      <3>2. s.sub[r].status = "done" /\ s.sub[r].entry < s.sub[j].entry
        BY <3>1 DEF Sound, ResetSound
      <3>3. t.sub[r] = s.sub[r]
        BY <1>3, <1>4, <3>2
      <3> QED
        BY <3>1, <3>2, <3>3
    <2> QED
      BY <2>1, <2>2, <2>3
  <1>18. OfIn(t, c) # {} => Born(t, c)
    BY <1>2 DEF Sound, Born, BoundaryPlaces
  <1>19. CutOff(t, c, users)
    <2> SUFFICES ASSUME NEW r \in OfIn(s, c), NEW i \in users, IsReset(s, r)
                 PROVE  t.sub[r].entry < t.sub[i].entry
      BY <1>2 DEF CutOff
    <2>1. i \in OfIn(s, c)
      BY <1>3
    <2> QED
      BY <1>6, <1>14, <1>15, <1>16, <2>1
  <1>20. ASSUME ~QueuedReset(s, c), CutOff(s, c, Inputs(s, c))
         PROVE  CutOff(t, c, Inputs(t, c) \cup users)
    <2> SUFFICES ASSUME NEW r \in OfIn(s, c), NEW i \in Inputs(s, c), IsReset(s, r)
                 PROVE  t.sub[r].entry < t.sub[i].entry
      BY <1>2, <1>9, <1>19 DEF CutOff
    <2>1. r \notin Writes(s, c)
      BY <1>20 DEF QueuedReset, Writes
    <2>2. t.sub[r] = s.sub[r] /\ s.sub[r].status = "done" /\ t.sub[i] = s.sub[i]
      BY <1>4, <1>9, <1>16, <2>1
    <2> QED
      BY <1>20, <2>2 DEF CutOff
  <1>21. Handed(t, c, open)
    <2>1. ASSUME Parent[c] # NoConversation, NEW i \in InState(t, c, "placed"),
                 t.sub[i].draft.from.what = "continue"
          PROVE  t.doc[c].continued = i
      <3>1. i \in InState(s, c, "placed") /\ s.sub[i].draft.from.what = "continue"
        BY <1>3, <1>7, <1>8, <1>9, <2>1
      <3> QED
        BY <2>1, <3>1 DEF Handed, HandedBack, BoundaryPlaces
    <2>2. CASE Parent[c] # NoConversation
      <3>1. KeepsSub(s, t) /\ t.lifecycle = s.lifecycle
        BY DEF BoundaryPlaces
      <3>2. RunsIn(t, c) = RunsIn(s, c)
        <4>1. \A i \in OfIn(s, c) : t.sub[i].run = s.sub[i].run
          BY <1>4, <1>5, <1>6
        <4> QED
          BY <1>2, <4>1 DEF RunsIn
      <3>3. \A first \in RunsIn(t, c) :
               IF first \in RunsIn(s, c) THEN first \in open <=> first \in open
               ELSE first \in open
        BY <3>2
      <3>4. \A i \in InState(t, c, "placed") :
               t.sub[i].draft.from.what = "continue" => t.doc[c].continued = i
        BY <2>1, <2>2
      <3> QED
        BY <1>1, <3>1, <3>3, <3>4, KeptHanded
    <2>3. CASE Parent[c] = NoConversation
      BY <2>3 DEF Handed
    <2> QED
      BY <2>2, <2>3
  <1>22. KeysOnce(t, c)
    BY <1>2, <1>7 DEF Sound, Served, KeysOnce
  <1>23. ASSUME NEW i \in OfIn(s, c) PROVE ServedWell(t.sub[i])
    <2>1. ServedWell(s.sub[i])
      BY DEF Sound, Served
    <2>2. CASE i \in Writes(s, c)
      <3>1. t.sub[i].draft.kind = "write"
        BY <1>7, <2>2 DEF Writes, IsWrite
      <3>2. \/ t.sub[i].status = "unanswered"
            \/ t.sub[i].status = "done" /\ t.sub[i].entry # NoEntry
        BY <1>5, <1>14, <1>15, <2>2 DEF NoEntry
      <3> QED
        BY <3>1, <3>2 DEF ServedWell
    <2>3. CASE i \in users
      BY <1>6, <1>14, <1>15, <2>3 DEF ServedWell, NoEntry
    <2>4. CASE i \notin Writes(s, c) /\ i \notin users
      BY <1>4, <2>1, <2>4
    <2> QED
      BY <2>2, <2>3, <2>4
  <1>24. InTurn(t, c)
    <2> SUFFICES ASSUME NEW i \in OfIn(s, c), NEW j \in OfIn(s, c), i < j,
                        SameClass(t, i, j), t.sub[j].entry # NoEntry
                 PROVE  t.sub[i].status # "queued" /\ t.sub[i].entry < t.sub[j].entry
      BY <1>2 DEF InTurn
    <2>1. SameClass(s, i, j)
      BY <1>7 DEF SameClass
    <2>2. IsWrite(s, i) <=> IsWrite(s, j)
      BY <1>1, <1>2, <2>1, SameKind
    <2>3. IsWrite(s, i) /\ s.sub[i].status = "queued" => i \in Writes(s, c)
      BY <1>3 DEF Writes, InState
    <2>4. i \notin Writes(s, c) /\ i \notin users => t.sub[i] = s.sub[i]
      BY <1>4
    <2>5. CASE j \in users
      <3>1. ~IsWrite(s, i) /\ i \notin Writes(s, c)
        BY <1>3, <2>2, <2>5 DEF Writes
      <3>2. CASE i \in users
        BY <1>6, <2>5, <3>2 DEF BoundaryPlaces
      <3>3. CASE i \notin users
        <4>1. s.sub[i].status # "queued"
          BY <1>3, <2>1, <2>5, <3>3 DEF FirstOfClass, InState
        <4>2. middle < t.sub[j].entry
          BY <1>6, <2>5
        <4> QED
          BY <1>14, <1>15, <2>4, <3>1, <3>3, <4>1, <4>2
      <3> QED
        BY <3>2, <3>3
    <2>6. CASE j \in Writes(s, c)
      <3>1. t.sub[j].status = "done" /\ s.entries < t.sub[j].entry
        BY <1>5, <2>6
      <3>2. IsWrite(s, i) /\ i \notin users
        BY <1>3, <2>2, <2>6 DEF Writes
      <3>3. CASE i \in Writes(s, c)
        <4>1. CASE t.sub[i].status = "done"
          BY <2>6, <3>1, <3>3, <4>1 DEF BoundaryPlaces
        <4>2. CASE t.sub[i].status # "done"
          <5>1. t.sub[i].status = "unanswered" /\ t.sub[i].entry = 0
            BY <1>5, <3>3, <4>2 DEF NoEntry
          <5> QED
            BY <1>14, <1>15, <3>1, <5>1
        <4> QED
          BY <4>1, <4>2
      <3>4. CASE i \notin Writes(s, c)
        BY <1>14, <1>15, <2>3, <2>4, <3>1, <3>2, <3>4
      <3> QED
        BY <3>3, <3>4
    <2>7. CASE j \notin users /\ j \notin Writes(s, c)
      <3>1. t.sub[j] = s.sub[j]
        BY <1>4, <2>7
      <3>2. s.sub[i].status # "queued" /\ s.sub[i].entry < s.sub[j].entry
        BY <2>1, <3>1 DEF Sound, Served, InTurn
      <3>3. t.sub[i] = s.sub[i]
        BY <1>3, <1>4, <3>2
      <3> QED
        BY <3>1, <3>2, <3>3
    <2> QED
      BY <2>5, <2>6, <2>7
  <1>25. DisplayHeld(t, c)
    <2> SUFFICES ASSUME NEW i \in InState(t, c, "queued"),
                        ClassOf(t.sub[i].draft) = "display"
                 PROVE  FALSE
      BY DEF DisplayHeld
    <2>1. i \in InState(s, c, "queued") /\ i \notin Writes(s, c) /\ i \in DOMAIN s.sub
      BY <1>2, <1>3, <1>8
    <2>2. s.sub[i].draft = t.sub[i].draft /\ s.sub[i].draft \in SubmissionDraft
      BY <1>1, <1>3, <1>7, <2>1, Fields DEF SubmissionRecord
    <2>3. IsWrite(s, i)
      BY <2>2, ClassIs DEF IsWrite
    <2> QED
      BY <1>3, <2>1, <2>3 DEF Writes
  <1>26. Served(t, c)
    BY <1>2, <1>22, <1>23, <1>24, <1>25 DEF Served
  <1> QED
    BY <1>10, <1>11, <1>12, <1>13, <1>17, <1>18, <1>19, <1>20, <1>21, <1>26 DEF Sound

\* What one part of a commit does to conversation c: what is in it stays in it, and
\* the other conversations stay as they are.
Within(s, t, c) ==
    /\ WellFormed(t) /\ Named(t)
    /\ Others(s, t, c) /\ KeepsSub(s, t)
    /\ t.lifecycle = s.lifecycle /\ t.doc = s.doc
    /\ DOMAIN s.gen \subseteq DOMAIN t.gen
    /\ \A g \in DOMAIN s.gen : t.gen[g] = s.gen[g]

\* Two parts of a commit to one conversation, one after the other, are a part of it.
LEMMA WithinTwice ==
    ASSUME NEW s, NEW t, NEW u, NEW c, Within(s, t, c), Within(t, u, c)
    PROVE  Within(s, u, c)
  <1>1. Goes(s, u)
    BY GoesTwice DEF Within, KeepsSub
  <1>2. Others(s, u, c)
    BY SameTwice DEF Within, Others
  <1> QED
    BY <1>1, <1>2 DEF Within, KeepsSub

\* A boundary, with all that can be said of it.
BoundaryGives(s, c, b, at, ending, open) ==
    /\ Within(s, b.db, c)
    /\ b.db.run = s.run /\ b.db.gen = s.gen
    /\ b.users \in Seq(Nat) /\ IsInjective(b.users)
    /\ Sound(b.db, c, ToSet(b.users), ending)
    /\ CutOff(b.db, c, ToSet(b.users))
    /\ Handed(b.db, c, open)
    /\ b.reset <=> QueuedReset(s, c)
    /\ ~b.reset /\ CutOff(s, c, Inputs(s, c)) =>
         CutOff(b.db, c, Inputs(b.db, c) \cup ToSet(b.users))
    /\ (at = "final" \/ b.reset) /\ b.users = <<>> => b.db.inbox[c] = <<>>
    /\ \A i \in ToSet(b.users) : s.sub[i].status = "queued"

\* A boundary keeps the conversation sound, with the inputs it places still to be given a run;
\* it clears the inputs before it where it places a reset.
LEMMA BoundaryWithin ==
    ASSUME NEW s, WellFormed(s), Named(s), NEW c \in Conversation,
           NEW at, NEW modes, NEW ending, Sound(s, c, {}, ending), NEW open, Handed(s, c, open),
           NEW b, b = ApplyBoundary(s, c, at, modes)
    PROVE  BoundaryGives(s, c, b, at, ending, open)
  <1>1. PICK writes : writes = Only(s.inbox[c], Writes(s, c))
    OBVIOUS
  <1>2. PICK final \in BOOLEAN : final <=> at = "final" \/ QueuedReset(s, c)
    OBVIOUS
  <1>3. PICK users : users = Selected(s, c, final, modes)
    OBVIOUS
  <1>4. PICK t : t = Placed(s, c, writes, users)
    OBVIOUS
  <1>6. b.db = t /\ b.users = users /\ (b.reset <=> QueuedReset(s, c))
    <2>1. Selected(s, c, at = "final" \/ QueuedReset(s, c), modes) = users
      BY <1>2, <1>3 DEF QueuedReset
    <2> QED
      BY <1>1, <1>4, <2>1 DEF ApplyBoundary
  <1>7. s \in Database /\ s.inbox[c] \in Seq(Nat) /\ s.entries \in Nat
    BY Fields DEF WellFormed
  <1>8. Ascending(s.inbox[c]) /\ ToSet(s.inbox[c]) = InState(s, c, "queued")
    BY DEF Sound, InboxSound
  <1>9. writes \in Seq(Nat) /\ Ascending(writes) /\ ToSet(writes) = Writes(s, c)
    BY <1>1, <1>7, <1>8, OnlyKeeps DEF Writes
  <1>10. /\ users \in Seq(Nat) /\ Ascending(users)
         /\ ToSet(users) \subseteq ToSet(s.inbox[c]) \ Writes(s, c)
         /\ final /\ ToSet(users) = {} => ToSet(s.inbox[c]) \subseteq Writes(s, c)
         /\ FirstOfClass(s, c, ToSet(users))
    <2>1. \A i \in ToSet(s.inbox[c]) : s.sub[i] \in SubmissionRecord
      BY <1>7, <1>8, Fields DEF InState, OfIn
    <2> QED
      BY <1>3, <1>7, <1>8, <2>1, SelectedIs
  <1>11. WellFormed(t) /\ BoundaryPlaces(s, t, c, ToSet(users), s.entries + Len(writes))
    <2>1. \A i \in InState(s, c, "queued") :
             s.sub[i].entry = NoEntry /\ s.sub[i].run = NoSubmission
      BY DEF Sound, InboxSound
    <2> QED
      BY <1>4, <1>8, <1>9, <1>10, <2>1, PlacedDoes
  <1>12. PICK middle \in Nat : middle = s.entries + Len(writes)
    BY <1>7, <1>9, NoElements
  <1>13. /\ Named(t)
         /\ Sound(t, c, ToSet(users), ending)
         /\ CutOff(t, c, ToSet(users))
         /\ ~QueuedReset(s, c) /\ CutOff(s, c, Inputs(s, c)) =>
              CutOff(t, c, Inputs(t, c) \cup ToSet(users))
         /\ Handed(t, c, open)
    BY <1>10, <1>11, <1>12, BoundarySound
  <1>14. Within(s, t, c) /\ t.run = s.run /\ t.gen = s.gen
    BY <1>11, <1>13 DEF Within, BoundaryPlaces
  <1>15. IsInjective(users)
    BY <1>10, AscendingOnce
  <1>16. ASSUME final, users = <<>> PROVE t.inbox[c] = <<>>
    <2>1. ToSet(users) = {}
      BY <1>10, <1>16, NoElements
    <2>2. ToSet(t.inbox[c]) = {}
      BY <1>10, <1>11, <1>16, <2>1 DEF BoundaryPlaces
    <2>3. t.inbox[c] \in Seq(Nat)
      BY <1>11, Fields DEF WellFormed
    <2> QED
      BY <2>2, <2>3, NoElements
  <1>17. \A i \in ToSet(users) : s.sub[i].status = "queued"
    BY <1>8, <1>10 DEF InState
  <1> QED
    BY <1>2, <1>6, <1>10, <1>13, <1>14, <1>15, <1>16, <1>17 DEF BoundaryGives

\* A run is started with all that is placed, or the conversation goes idle.
LEMMA StartWithin ==
    ASSUME NEW s, WellFormed(s), Named(s), NEW c \in Conversation,
           NEW inputs \in Seq(Nat), IsInjective(inputs), ~Busy(s, c),
           NEW ending, Sound(s, c, ToSet(inputs), ending),
           CutOff(s, c, ToSet(inputs)), Handed(s, c, {}),
           inputs = <<>> => s.inbox[c] = <<>>,
           ending \in DOMAIN s.gen \cup {NoTask}
    PROVE  LET t == StartRun(s, c, inputs)
           IN  /\ Within(s, t, c)
               /\ Resting(t, c, ending)
               /\ t.run[c].task \notin DOMAIN s.gen
  <1>1. PICK t : t = StartRun(s, c, inputs)
    OBVIOUS
  <1>2. s \in Database
    BY DEF WellFormed
  <1>3. CASE inputs = <<>>
    <2>1. t = s
      BY <1>1, <1>3 DEF StartRun
    <2>2. ToSet(inputs) = {} /\ Inputs(s, c) = {} /\ s.run[c].task = 0
      BY <1>3, NoElements, NothingIn DEF Busy
    <2>3. Within(s, s, c)
      BY GoesStill DEF Within, Others, Same, KeepsSub
    <2>4. 0 \notin DOMAIN s.gen
      BY <1>2, Fields
    <2>5. Resting(s, c, ending)
      BY <1>3, <2>2 DEF Resting
    <2> QED
      BY <1>1, <2>1, <2>2, <2>3, <2>4, <2>5
  <1>4. CASE inputs # <<>>
    <2>1. ToSet(inputs) \subseteq OfIn(s, c)
          /\ \A i \in ToSet(inputs) : s.sub[i].run = NoSubmission /\ s.sub[i].status = "placed"
      <3>1. ToSet(inputs) \subseteq InState(s, c, "placed")
        BY DEF Sound, RunSound
      <3> QED
        BY <3>1 DEF Sound, RunSound, InState
    <2>2. WellFormed(t) /\ RunStarts(s, t, c, inputs)
      BY <1>1, <1>4, <2>1, StartRunDoes
    <2>3. /\ Named(t)
          /\ Sound(t, c, {}, ending)
          /\ CutOff(t, c, Inputs(t, c))
          /\ Handed(t, c, Inputs(t, c))
          /\ Busy(t, c) /\ t.run[c].task \notin DOMAIN s.gen \cup {NoTask}
      BY <1>2, <1>4, <2>2, RunStartsSound
    <2>4. Within(s, t, c)
      <3>1. DOMAIN s.gen \subseteq DOMAIN t.gen
        BY <1>2, <2>2, Fields, SMTT(30) DEF RunStarts
      <3> QED
        BY <2>2, <2>3, <3>1 DEF Within, RunStarts
    <2> QED
      BY <1>1, <2>3, <2>4 DEF Resting
  <1> QED
    BY <1>3, <1>4

\* What was waiting when a run ended starts the next one.
LEMMA SuccessorWithin ==
    ASSUME NEW s, WellFormed(s), Named(s), NEW c \in Conversation, ~Busy(s, c),
           NEW modes, NEW ending, Sound(s, c, {}, ending), Handed(s, c, {}),
           ending \in DOMAIN s.gen \cup {NoTask}
    PROVE  LET t == Successor(s, c, modes)
           IN  /\ Within(s, t, c)
               /\ Resting(t, c, ending)
               /\ t.run[c].task \notin DOMAIN s.gen
  <1>1. PICK b : b = ApplyBoundary(s, c, "final", modes)
    OBVIOUS
  <1>2. /\ Within(s, b.db, c)
        /\ b.db.run = s.run /\ b.db.gen = s.gen
        /\ b.users \in Seq(Nat) /\ IsInjective(b.users)
        /\ Sound(b.db, c, ToSet(b.users), ending)
        /\ CutOff(b.db, c, ToSet(b.users))
        /\ Handed(b.db, c, {})
        /\ b.users = <<>> => b.db.inbox[c] = <<>>
    <2>1. BoundaryGives(s, c, b, "final", ending, {})
      BY <1>1, BoundaryWithin
    <2> QED
      BY <2>1 DEF BoundaryGives
  <1>3. PICK t : t = StartRun(b.db, c, b.users)
    OBVIOUS
  <1>4. WellFormed(b.db) /\ Named(b.db) /\ ~Busy(b.db, c)
    BY <1>2 DEF Within, Busy
  <1>5. /\ Within(b.db, t, c)
        /\ Resting(t, c, ending)
        /\ t.run[c].task \notin DOMAIN b.db.gen
    BY <1>2, <1>3, <1>4, StartWithin
  <1>6. Within(s, t, c)
    BY <1>2, <1>5, WithinTwice
  <1>7. Successor(s, c, modes) = t
    BY <1>1, <1>3 DEF Successor
  <1> QED
    BY <1>2, <1>5, <1>6, <1>7

-----------------------------------------------------------------------------
(* A submission comes in. *)

\* What a new submission with this record makes of the database.
Enters(s, t, c, record) ==
    LET new == Len(s.sub) + 1
    IN  /\ DOMAIN t.sub = 1 .. new
        /\ \A i \in DOMAIN s.sub : t.sub[i] = s.sub[i]
        /\ t.sub[new] = record
        /\ record.conversation = c /\ record.run = NoSubmission
        /\ t.gen = s.gen /\ t.run = s.run /\ t.doc = s.doc /\ t.lifecycle = s.lifecycle
        /\ t.inbox[c] = IF record.status = "queued" THEN Append(s.inbox[c], new)
                        ELSE s.inbox[c]
        /\ \A e \in Conversation \ {c} : t.inbox[e] = s.inbox[e]
        /\ record.entry # NoEntry => s.entries < record.entry

\* A new record, with the entry it takes, makes a well-formed database.
LEMMA EntersDoes ==
    ASSUME NEW s, WellFormed(s), NEW c \in Conversation,
           NEW record \in SubmissionRecord,
           record.conversation = c, record.run = NoSubmission,
           NEW entries \in Nat, s.entries <= entries,
           record.entry <= entries, record.target <= s.entries,
           record.entry # NoEntry => s.entries < record.entry,
           NEW head \in Nat, head <= entries,
           NEW t, t = Base(Append(s.sub, record), s.gen,
                           [s.inbox EXCEPT ![c] =
                              IF record.status = "queued" THEN Append(@, Len(s.sub) + 1) ELSE @],
                           s.run, [s.head EXCEPT ![c] = head], entries, s.doc, s.lifecycle)
    PROVE  WellFormed(t) /\ Enters(s, t, c, record)
  <1>1. s \in Database /\ Len(s.sub) \in Nat /\ DOMAIN s.sub = 1 .. Len(s.sub)
        /\ s.sub \in Seq(SubmissionRecord)
    BY Fields DEF WellFormed
  <1>2. PICK new \in Nat : new = Len(s.sub) + 1
    BY <1>1
  <1>3. /\ t.sub = Append(s.sub, record) /\ t.gen = s.gen
        /\ t.inbox = [s.inbox EXCEPT ![c] =
                        IF record.status = "queued" THEN Append(@, new) ELSE @]
        /\ t.run = s.run /\ t.head = [s.head EXCEPT ![c] = head]
        /\ t.entries = entries /\ t.doc = s.doc /\ t.lifecycle = s.lifecycle
    BY <1>2 DEF Base
  <1>4. /\ t.sub \in Seq(SubmissionRecord) /\ DOMAIN t.sub = 1 .. new
        /\ \A i \in DOMAIN s.sub : t.sub[i] = s.sub[i]
        /\ t.sub[new] = record
    <2>1. PICK sub : sub = Append(s.sub, record)
      OBVIOUS
    <2>2. /\ sub \in Seq(SubmissionRecord) /\ Len(sub) = Len(s.sub) + 1
          /\ \A i \in 1 .. Len(s.sub) : sub[i] = s.sub[i]
          /\ sub[Len(s.sub) + 1] = record
      BY <1>1, <2>1, AppendProperties
    <2>3. DOMAIN sub = 1 .. new
      BY <1>2, <2>2, LenProperties
    <2>4. t.sub = sub
      BY <1>3, <2>1
    <2> QED
      BY <1>1, <1>2, <2>2, <2>3, <2>4
  <1>5. /\ t.inbox \in [Conversation -> Seq(Nat)]
        /\ t.inbox[c] = IF record.status = "queued" THEN Append(s.inbox[c], new)
                        ELSE s.inbox[c]
        /\ \A e \in Conversation \ {c} : t.inbox[e] = s.inbox[e]
    <2>1. s.inbox \in [Conversation -> Seq(Nat)] /\ s.inbox[c] \in Seq(Nat)
      BY <1>1, Fields
    <2>2. Append(s.inbox[c], new) \in Seq(Nat)
      BY <2>1, Appended
    <2>3. PICK inbox \in Seq(Nat) :
            inbox = IF record.status = "queued" THEN Append(s.inbox[c], new) ELSE s.inbox[c]
      BY <2>1, <2>2
    <2>4. t.inbox = [s.inbox EXCEPT ![c] = inbox]
      BY <1>3, <2>3
    <2>5. t.inbox \in [Conversation -> Seq(Nat)]
      BY <2>1, <2>4, ZenonT(40)
    <2>6. t.inbox[c] = inbox
      BY <2>1, <2>4
    <2>7. \A e \in Conversation \ {c} : t.inbox[e] = s.inbox[e]
      BY <2>1, <2>4
    <2> QED
      BY <2>3, <2>5, <2>6, <2>7
  <1>6. /\ t.head \in [Conversation -> Nat]
        /\ \A e \in Conversation : t.head[e] <= t.entries
    <2>1. s.head \in [Conversation -> Nat] /\ s.entries \in Nat
          /\ \A e \in Conversation : s.head[e] \in Nat /\ s.head[e] <= s.entries
      BY <1>1, Fields DEF WellFormed
    <2>2. t.head \in [Conversation -> Nat]
      BY <1>3, <2>1, ZenonT(40)
    <2>3. ASSUME NEW e \in Conversation PROVE t.head[e] <= t.entries
      <3>1. t.head[e] = IF e = c THEN head ELSE s.head[e]
        BY <1>3, <2>1
      <3>2. t.entries = entries
        BY <1>3
      <3> QED
        BY <2>1, <3>1, <3>2
    <2> QED
      BY <2>2, <2>3
  <1>7. t \in Database
    <2>1. t = Base(t.sub, t.gen, t.inbox, t.run, t.head, t.entries, t.doc, t.lifecycle)
      BY DEF Base
    <2> QED
      BY <1>1, <1>3, <1>4, <1>5, <1>6, <2>1, Fields DEF Base, Database
  <1>8. WellFormed(t)
    <2>1. ASSUME NEW i \in DOMAIN t.sub
          PROVE  t.sub[i].entry <= t.entries /\ t.sub[i].target <= t.entries
      <3>1. CASE i \in DOMAIN s.sub
        <4>1. t.sub[i] = s.sub[i] /\ s.sub[i] \in SubmissionRecord
          BY <1>1, <1>4, <3>1, Fields
        <4>2. s.sub[i].entry \in Nat /\ s.sub[i].target \in Nat /\ s.entries \in Nat
          BY <1>1, <4>1, Fields DEF SubmissionRecord
        <4> QED
          BY <1>3, <3>1, <4>1, <4>2 DEF WellFormed
      <3>2. CASE i \notin DOMAIN s.sub
        <4>1. i = new
          BY <1>1, <1>2, <1>4, <3>2
        <4>2. record.target \in Nat /\ s.entries \in Nat
          BY <1>1, Fields DEF SubmissionRecord
        <4>3. record.entry <= entries /\ record.target <= entries
          BY <4>2
        <4> QED
          BY <1>3, <1>4, <4>1, <4>3
      <3> QED
        BY <3>1, <3>2
    <2>2. ASSUME NEW e \in Conversation PROVE t.doc[e].contracts \subseteq DOMAIN t.sub
      <3>1. s.doc[e].contracts \subseteq DOMAIN s.sub
        BY DEF WellFormed
      <3>2. DOMAIN s.sub \subseteq DOMAIN t.sub
        BY <1>1, <1>2, <1>4
      <3>3. t.doc[e] = s.doc[e]
        BY <1>3
      <3> QED
        BY <3>1, <3>2, <3>3
    <2> QED
      BY <1>6, <1>7, <2>1, <2>2 DEF WellFormed
  <1> QED
    BY <1>2, <1>3, <1>4, <1>5, <1>8 DEF Enters

\* The other conversations stay as they are, what follows a run is what followed it
\* and the new submission if it does.
LEMMA EntersBeside ==
    ASSUME NEW s \in Database, NEW t, NEW c \in Conversation, NEW record, Enters(s, t, c, record)
    PROVE  /\ Others(s, t, c)
           /\ OfIn(t, c) = OfIn(s, c) \cup {Len(s.sub) + 1}
           /\ Len(s.sub) + 1 \notin DOMAIN s.sub
           /\ OfIn(s, c) \subseteq DOMAIN s.sub /\ DOMAIN s.sub \subseteq DOMAIN t.sub
           /\ \A e \in Conversation : RunsIn(t, e) = RunsIn(s, e)
           /\ \A what, e, first :
                FromIn(t, what, e, first) =
                  IF record.draft.from = Source(what, e, first)
                  THEN FromIn(s, what, e, first) \cup {Len(s.sub) + 1}
                  ELSE FromIn(s, what, e, first)
  <1>1. Len(s.sub) \in Nat /\ DOMAIN s.sub = 1 .. Len(s.sub)
    BY Fields
  <1>2. PICK new \in Nat : new = Len(s.sub) + 1
    BY <1>1
  <1>3. /\ DOMAIN t.sub = DOMAIN s.sub \cup {new} /\ new \notin DOMAIN s.sub
        /\ new # NoSubmission
    BY <1>1, <1>2 DEF Enters, NoSubmission
  <1>4. /\ \A i \in DOMAIN s.sub : t.sub[i] = s.sub[i]
        /\ t.sub[new] = record /\ record.conversation = c /\ record.run = NoSubmission
    BY <1>2 DEF Enters
  <1>5. OfIn(t, c) = OfIn(s, c) \cup {new} /\ OfIn(s, c) \subseteq DOMAIN s.sub
    BY <1>3, <1>4 DEF OfIn
  <1>6. \A e \in Conversation \ {c} : OfIn(t, e) = OfIn(s, e) /\ OfIn(s, e) \subseteq DOMAIN s.sub
    BY <1>3, <1>4 DEF OfIn
  <1>7. Others(s, t, c)
    <2> SUFFICES ASSUME NEW e \in Conversation \ {c} PROVE Same(s, t, e)
      BY DEF Others
    <2>1. \A i \in OfIn(s, e) : t.sub[i] = s.sub[i]
      BY <1>4, <1>6
    <2> QED
      BY <1>6, <2>1 DEF Same, Enters
  <1>8. \A e \in Conversation : RunsIn(t, e) = RunsIn(s, e)
    <2>1. ASSUME NEW e \in Conversation, NEW i
          PROVE  i \in OfIn(t, e) /\ t.sub[i].run = i <=> i \in OfIn(s, e) /\ s.sub[i].run = i
      BY <1>3, <1>4 DEF OfIn
    <2> QED
      BY <2>1 DEF RunsIn
  <1>9. ASSUME NEW what, NEW e, NEW first
        PROVE  FromIn(t, what, e, first) =
                 IF record.draft.from = Source(what, e, first)
                 THEN FromIn(s, what, e, first) \cup {new}
                 ELSE FromIn(s, what, e, first)
    BY <1>3, <1>4 DEF FromIn
  <1> QED
    BY <1>2, <1>3, <1>5, <1>7, <1>8, <1>9

\* Nothing that waits is of the draft's class.
NoneWaits(s, c, draft) ==
    \A i \in ToSet(s.inbox[c]) : ClassOf(s.sub[i].draft) # ClassOf(draft)

\* What may be said of a submission that comes in.
Proper(s, c, record) ==
    LET write == record.draft.kind = "write"
    IN  /\ record.status \in {"queued", "placed", "done", "unanswered"}
        /\ record.status = "queued" =>
             record.entry = NoEntry /\ record.draft.from.what # "continue"
        /\ record.status = "placed" => ~write /\ record.entry # NoEntry
        /\ record.entry # NoEntry => ~QueuedReset(s, c)
        /\ write /\ record.draft.head = "self" =>
             /\ record.status \in {"queued", "done"} /\ record.target = NoEntry
             /\ record.status = "done" => ~Busy(s, c)
        /\ Keyed(record.draft) => ~Known(s, c, record.draft)
        /\ record.status \in {"placed", "done"} => record.entry # NoEntry
        /\ ~write => record.status \in {"queued", "placed"}
        /\ record.entry # NoEntry => NoneWaits(s, c, record.draft)
        /\ record.status = "queued" /\ ClassOf(record.draft) = "display" => QueuedReset(s, c)

\* It is sound beside the live run, and no reset lies behind it.
LEMMA EntersSound ==
    ASSUME NEW s, WellFormed(s), NEW t, NEW c \in Conversation,
           NEW record \in SubmissionRecord, Enters(s, t, c, record), Proper(s, c, record),
           NEW ending, Sound(s, c, {}, ending), Born(s, c),
           NEW users, users = IF record.status = "placed" THEN {Len(s.sub) + 1} ELSE {}
    PROVE  /\ Sound(t, c, users, ending)
           /\ CutOff(t, c, users)
           /\ CutOff(s, c, Inputs(s, c)) => CutOff(t, c, Inputs(t, c))
           /\ Inputs(t, c) = Inputs(s, c)
  <1>1. s \in Database /\ Len(s.sub) \in Nat /\ DOMAIN s.sub = 1 .. Len(s.sub)
        /\ s.inbox[c] \in Seq(Nat) /\ s.entries \in Nat
    BY Fields DEF WellFormed
  <1>2. PICK new \in Nat : new = Len(s.sub) + 1
    BY <1>1
  <1>3. /\ OfIn(t, c) = OfIn(s, c) \cup {new} /\ new \notin OfIn(s, c) /\ new # NoSubmission
        /\ OfIn(s, c) \subseteq DOMAIN s.sub
        /\ \A i \in OfIn(s, c) : i < new /\ i \in Nat
    <2>1. /\ OfIn(t, c) = OfIn(s, c) \cup {Len(s.sub) + 1}
          /\ OfIn(s, c) \subseteq DOMAIN s.sub
      BY <1>1, EntersBeside
    <2>2. \A i \in DOMAIN s.sub : i < new /\ i \in Nat
      BY <1>1, <1>2
    <2>3. new \notin DOMAIN s.sub /\ new # NoSubmission
      BY <1>1, <1>2 DEF NoSubmission
    <2> QED
      BY <1>2, <2>1, <2>2, <2>3
  <1>4. /\ \A i \in OfIn(s, c) : t.sub[i] = s.sub[i]
        /\ t.sub[new] = record /\ record.run = NoSubmission
    BY <1>2, <1>3 DEF Enters
  <1>5. users = IF record.status = "placed" THEN {new} ELSE {}
    BY <1>2
  <1>6. /\ InState(t, c, "queued") =
             IF record.status = "queued" THEN InState(s, c, "queued") \cup {new}
             ELSE InState(s, c, "queued")
        /\ InState(t, c, "placed") = InState(s, c, "placed") \cup users
        /\ InState(s, c, "placed") \subseteq OfIn(s, c)
        /\ InState(s, c, "queued") \subseteq OfIn(s, c)
    BY <1>3, <1>4, <1>5 DEF InState
  <1>7. /\ t.run[c] = s.run[c] /\ Inputs(t, c) = Inputs(s, c) /\ First(t, c) = First(s, c)
        /\ Inputs(s, c) = InState(s, c, "placed")
        /\ Busy(t, c) <=> Busy(s, c)
    BY DEF Enters, Inputs, First, Busy, Sound, RunSound
  <1>8. /\ \A i \in OfIn(s, c) : IsWrite(t, i) <=> IsWrite(s, i)
        /\ \A i \in OfIn(s, c) : IsReset(t, i) <=> IsReset(s, i)
        /\ IsWrite(t, new) <=> record.draft.kind = "write"
        /\ IsReset(t, new) <=> record.draft.kind = "write" /\ record.draft.head = "self"
    BY <1>4 DEF IsWrite, IsReset
  <1>9. InboxSound(t, c)
    <2>1. CASE record.status = "queued"
      <3>1. t.inbox[c] = Append(s.inbox[c], new)
        BY <1>2, <2>1 DEF Enters
      <3>2. Ascending(s.inbox[c]) /\ ToSet(s.inbox[c]) = InState(s, c, "queued")
        BY DEF Sound, InboxSound
      <3>3. Ascending(t.inbox[c]) /\ ToSet(t.inbox[c]) = InState(t, c, "queued")
        <4>1. \A i \in ToSet(s.inbox[c]) : i < new
          BY <1>3, <1>6, <3>2
        <4> QED
          BY <1>1, <1>6, <2>1, <3>1, <3>2, <4>1, Appended
      <3>4. \A i \in InState(t, c, "queued") :
              /\ t.sub[i].entry = NoEntry /\ t.sub[i].run = NoSubmission
              /\ t.sub[i].draft.from.what # "continue"
        BY <1>4, <1>6, <2>1 DEF Sound, InboxSound, Proper
      <3> QED
        BY <3>3, <3>4 DEF InboxSound
    <2>2. CASE record.status # "queued"
      <3>1. t.inbox[c] = s.inbox[c]
        BY <2>2 DEF Enters
      <3>2. \A i \in InState(t, c, "queued") : t.sub[i] = s.sub[i]
        BY <1>4, <1>6, <2>2
      <3> QED
        BY <1>6, <2>2, <3>1, <3>2 DEF Sound, InboxSound
    <2> QED
      BY <2>1, <2>2
  <1>10. RunSound(t, c, users)
    <2>1. Inputs(s, c) \cap users = {}
      BY <1>3, <1>5, <1>6, <1>7
    <2>2. \A i \in Inputs(t, c) : t.sub[i].run = First(t, c)
      BY <1>4, <1>6, <1>7 DEF Sound, RunSound
    <2>3. \A i \in users : t.sub[i].run = NoSubmission
      BY <1>4, <1>5
    <2>4. \A i \in InState(t, c, "placed") : ~IsWrite(t, i)
      BY <1>5, <1>6, <1>8 DEF Proper, Sound, RunSound
    <2> QED
      BY <1>6, <1>7, <2>1, <2>2, <2>3, <2>4 DEF Sound, RunSound
  <1>11. GenSound(t, c, ending)
    BY <1>7 DEF Enters, Sound, GenSound, Alive
  <1>12. ASSUME NEW r \in OfIn(s, c), IsReset(s, r), record.entry # NoEntry
         PROVE  s.sub[r].status = "done" /\ s.sub[r].entry < record.entry
    <2>1. s.sub[r].status = "done"
      <3>1. r \notin ToSet(s.inbox[c])
        BY <1>12 DEF Proper, QueuedReset
      <3>2. s.sub[r].status # "queued"
        BY <3>1 DEF Sound, InboxSound, InState
      <3> QED
        BY <1>12, <3>2 DEF Sound, ResetSound
    <2>2. s.sub[r].entry \in Nat /\ s.sub[r].entry <= s.entries /\ record.entry \in Nat
          /\ s.entries < record.entry
      BY <1>1, <1>3, <1>12, Fields DEF WellFormed, Enters, SubmissionRecord
    <2> QED
      BY <1>1, <2>1, <2>2
  <1>13. ResetSound(t, c)
    <2>1. ASSUME NEW r \in OfIn(s, c), IsReset(s, r)
          PROVE  /\ t.sub[r].status \in {"queued", "done"}
                 /\ t.sub[r].target = NoEntry
                 /\ \A j \in OfIn(t, c) :
                      j > r /\ t.sub[j].entry # NoEntry =>
                          t.sub[r].status = "done" /\ t.sub[r].entry < t.sub[j].entry
      <3>1. t.sub[r] = s.sub[r]
        BY <1>4
      <3>2. ASSUME NEW j \in OfIn(s, c), j > r, t.sub[j].entry # NoEntry
            PROVE  t.sub[r].status = "done" /\ t.sub[r].entry < t.sub[j].entry
        BY <1>4, <2>1, <3>1, <3>2 DEF Sound, ResetSound
      <3>3. ASSUME record.entry # NoEntry
            PROVE  t.sub[r].status = "done" /\ t.sub[r].entry < t.sub[new].entry
        BY <1>4, <1>12, <2>1, <3>1, <3>3
      <3>4. t.sub[r].status \in {"queued", "done"} /\ t.sub[r].target = NoEntry
        BY <2>1, <3>1 DEF Sound, ResetSound
      <3> QED
        BY <1>3, <1>4, <3>2, <3>3, <3>4
    <2>2. ASSUME IsReset(t, new)
          PROVE  /\ t.sub[new].status \in {"queued", "done"}
                 /\ t.sub[new].target = NoEntry
                 /\ \A j \in OfIn(t, c) : ~(j > new)
      <3>1. \A j \in OfIn(t, c) : ~(j > new)
        BY <1>3
      <3> QED
        BY <1>4, <1>8, <2>2, <3>1 DEF Proper
    <2> QED
      BY <1>3, <1>8, <2>1, <2>2 DEF ResetSound
  <1>14. CutOff(t, c, users)
    <2> SUFFICES ASSUME NEW r \in OfIn(t, c), NEW i \in users,
                        IsReset(t, r), t.sub[r].status = "done"
                 PROVE  t.sub[r].entry < t.sub[i].entry
      BY DEF CutOff
    <2>1. i = new /\ record.status = "placed" /\ record.entry # NoEntry
          /\ record.draft.kind # "write"
      BY <1>5 DEF Proper
    <2>2. r \in OfIn(s, c) /\ IsReset(s, r)
      BY <1>3, <1>8, <2>1
    <2> QED
      BY <1>4, <1>12, <2>1, <2>2
  <1>15. ASSUME CutOff(s, c, Inputs(s, c)) PROVE CutOff(t, c, Inputs(t, c))
    <2> SUFFICES ASSUME NEW r \in OfIn(t, c), NEW i \in Inputs(s, c),
                        IsReset(t, r), t.sub[r].status = "done"
                 PROVE  t.sub[r].entry < t.sub[i].entry
      BY <1>7 DEF CutOff
    <2>1. t.sub[i] = s.sub[i]
      BY <1>4, <1>6, <1>7
    <2>2. CASE r \in OfIn(s, c)
      BY <1>4, <1>8, <1>15, <2>1, <2>2 DEF CutOff
    <2>3. CASE r = new
      <3>1. ~Busy(s, c)
        BY <1>4, <1>8, <2>3 DEF Proper
      <3> QED
        BY <3>1, NothingIn DEF Busy
    <2> QED
      BY <1>3, <2>2, <2>3
  <1>16. Born(t, c)
    BY DEF Born, Enters
  <1>17. Served(s, c) /\ ToSet(s.inbox[c]) = InState(s, c, "queued")
    BY DEF Sound, InboxSound
  <1>18. KeysOnce(t, c)
    <2>1. ASSUME NEW i \in OfIn(s, c), Keyed(record.draft), s.sub[i].draft.from = record.draft.from
          PROVE  FALSE
      <3>1. ~Known(s, c, record.draft) /\ record.draft.from.nth # 0
        BY <2>1 DEF Proper, Keyed
      <3>2. i \in DOMAIN s.sub /\ s.sub[i].conversation = c
        BY DEF OfIn
      <3> QED
        BY <2>1, <3>1, <3>2 DEF Known
    <2>2. \A x, y : Keyed(x) /\ x.from = y.from => Keyed(y)
      BY DEF Keyed
    <2> SUFFICES ASSUME NEW i \in OfIn(t, c), NEW j \in OfIn(t, c),
                        Keyed(t.sub[i].draft), t.sub[i].draft.from = t.sub[j].draft.from
                 PROVE  i = j
      BY DEF KeysOnce
    <2>3. CASE i = new /\ j # new
      <3>1. j \in OfIn(s, c) /\ t.sub[j] = s.sub[j] /\ t.sub[i] = record
        BY <1>3, <1>4, <2>3
      <3> QED
        BY <2>1, <3>1
    <2>4. CASE i # new /\ j = new
      <3>1. i \in OfIn(s, c) /\ t.sub[i] = s.sub[i] /\ t.sub[j] = record
        BY <1>3, <1>4, <2>4
      <3>2. Keyed(record.draft)
        BY <2>2, <3>1
      <3> QED
        BY <2>1, <3>1, <3>2
    <2>5. CASE i # new /\ j # new
      <3>1. i \in OfIn(s, c) /\ t.sub[i] = s.sub[i] /\ j \in OfIn(s, c) /\ t.sub[j] = s.sub[j]
        BY <1>3, <1>4, <2>5
      <3> QED
        BY <1>17, <3>1 DEF Served, KeysOnce
    <2> QED
      BY <2>3, <2>4, <2>5
  <1>19. ASSUME NEW i \in OfIn(t, c) PROVE ServedWell(t.sub[i])
    <2>1. CASE i \in OfIn(s, c)
      BY <1>4, <1>17, <2>1 DEF Served
    <2>2. CASE i = new
      BY <1>4, <2>2 DEF Proper, ServedWell
    <2> QED
      BY <1>3, <2>1, <2>2
  <1>20. InTurn(t, c)
    <2> SUFFICES ASSUME NEW i \in OfIn(t, c), NEW j \in OfIn(t, c), i < j,
                        SameClass(t, i, j), t.sub[j].entry # NoEntry
                 PROVE  t.sub[i].status # "queued" /\ t.sub[i].entry < t.sub[j].entry
      BY DEF InTurn
    <2>1. i \in OfIn(s, c) /\ t.sub[i] = s.sub[i]
      BY <1>3, <1>4
    <2>2. CASE j \in OfIn(s, c)
      BY <1>4, <1>17, <2>1, <2>2 DEF Served, InTurn, SameClass
    <2>3. CASE j = new
      <3>1. record.entry # NoEntry /\ ClassOf(s.sub[i].draft) = ClassOf(record.draft)
        BY <1>4, <2>1, <2>3 DEF SameClass
      <3>2. s.sub[i].status # "queued"
        BY <1>17, <2>1, <3>1 DEF Proper, NoneWaits, InState
      <3>3. s.sub[i].entry \in Nat /\ s.sub[i].entry <= s.entries /\ record.entry \in Nat
            /\ s.entries < record.entry
        BY <1>1, <1>3, <2>1, <3>1, Fields DEF WellFormed, Enters, SubmissionRecord
      <3> QED
        BY <1>1, <1>4, <2>1, <2>3, <3>2, <3>3
    <2> QED
      BY <1>3, <2>2, <2>3
  <1>21. DisplayHeld(t, c)
    <2>1. ASSUME QueuedReset(s, c) PROVE QueuedReset(t, c)
      <3>1. PICK i \in ToSet(s.inbox[c]) : IsReset(s, i)
        BY <2>1 DEF QueuedReset
      <3>2. i \in OfIn(s, c) /\ i \in InState(t, c, "queued")
        BY <1>6, <1>17, <3>1
      <3>3. i \in ToSet(t.inbox[c]) /\ IsReset(t, i)
        BY <1>8, <1>9, <3>1, <3>2 DEF InboxSound
      <3> QED
        BY <3>3 DEF QueuedReset
    <2> SUFFICES ASSUME NEW i \in InState(t, c, "queued"),
                        ClassOf(t.sub[i].draft) = "display"
                 PROVE  QueuedReset(s, c)
      BY <2>1 DEF DisplayHeld
    <2>2. CASE i \in InState(s, c, "queued")
      BY <1>4, <1>6, <1>17, <2>2 DEF Served, DisplayHeld
    <2>3. CASE i \notin InState(s, c, "queued")
      BY <1>4, <1>6, <2>3 DEF Proper
    <2> QED
      BY <2>2, <2>3
  <1>22. Served(t, c)
    BY <1>18, <1>19, <1>20, <1>21 DEF Served
  <1> QED
    BY <1>7, <1>9, <1>10, <1>11, <1>13, <1>14, <1>15, <1>16, <1>22 DEF Sound

\* A submission of its own leaves what followed a run as it is.
LEMMA EntersHanded ==
    ASSUME NEW s \in Database, NEW t, NEW c \in Conversation, NEW record,
           Enters(s, t, c, record), record.draft.from.what # "continue",
           NEW e \in Conversation,
           record.draft.from.what = "result" => record.draft.from.of # e,
           NEW open, Handed(s, e, open)
    PROVE  Handed(t, e, open)
  <1> SUFFICES ASSUME Parent[e] # NoConversation PROVE HandedBack(t, e, open)
    BY DEF Handed
  <1>1. HandedBack(s, e, open)
    BY DEF Handed
  <1>2. PICK new : new = Len(s.sub) + 1
    OBVIOUS
  <1>3. /\ RunsIn(t, e) = RunsIn(s, e) /\ RunsIn(s, e) \subseteq DOMAIN s.sub
        /\ \A i \in DOMAIN s.sub : t.sub[i] = s.sub[i]
        /\ DOMAIN t.sub = DOMAIN s.sub \cup {new}
        /\ t.sub[new] = record /\ t.lifecycle = s.lifecycle /\ t.doc = s.doc
    <2>1. Len(s.sub) \in Nat /\ DOMAIN s.sub = 1 .. Len(s.sub)
      BY Fields
    <2>2. DOMAIN t.sub = DOMAIN s.sub \cup {new}
      BY <1>2, <2>1 DEF Enters
    <2>3. RunsIn(t, e) = RunsIn(s, e)
      BY EntersBeside
    <2> QED
      BY <1>2, <2>2, <2>3 DEF Enters, RunsIn, OfIn
  <1>4. ASSUME NEW first, NEW what \in {"result", "continue"}
        PROVE  FromIn(t, what, e, first) = FromIn(s, what, e, first)
    <2>1. Source(what, e, first).what = what /\ Source(what, e, first).of = e
      BY DEF Source
    <2>2. record.draft.from # Source(what, e, first)
      BY <2>1
    <2> QED
      BY <1>3, <2>2 DEF FromIn
  <1>5. \A first : After(t, e, first) = After(s, e, first)
    BY <1>4 DEF After
  <1>6. ASSUME NEW i \in InState(t, e, "placed"), t.sub[i].draft.from.what = "continue"
        PROVE  i \in InState(s, e, "placed") /\ s.sub[i].draft.from.what = "continue"
    BY <1>3, <1>6 DEF InState, OfIn
  <1>7. \A i \in InState(t, e, "placed") :
          t.sub[i].draft.from.what = "continue" => t.doc[e].continued = i
    BY <1>1, <1>3, <1>6 DEF HandedBack
  <1>8. ASSUME NEW first \in RunsIn(t, e)
        PROVE  /\ first \in open => After(t, e, first) = {}
               /\ first \notin open =>
                    \/ \E j \in After(t, e, first) : After(t, e, first) = {j}
                    \/ After(t, e, first) = {} /\ t.lifecycle[Parent[e]] # "active"
               /\ t.sub[first].draft.from.what = "continue" =>
                    FromIn(t, "continue", e, first) = {}
    BY <1>1, <1>3, <1>4, <1>5 DEF HandedBack
  <1> QED
    BY <1>7, <1>8 DEF HandedBack

\* A result or continuation that comes in names a run there is.
LEMMA EntersNamed ==
    ASSUME NEW s \in Database, NEW t, NEW c \in Conversation, NEW record,
           Enters(s, t, c, record), Named(s),
           record.draft.from.what \in {"result", "continue"} =>
               LET from == record.draft.from
               IN  /\ from.of \in Conversation /\ from.nth \in DOMAIN s.sub
                   /\ s.sub[from.nth].run = from.nth
                   /\ s.sub[from.nth].conversation = from.of
                   /\ c = IF from.what = "result" THEN Parent[from.of] ELSE from.of
    PROVE  Named(t)
  <1>1. PICK new : new = Len(s.sub) + 1
    OBVIOUS
  <1>2. /\ \A i \in DOMAIN s.sub : t.sub[i] = s.sub[i]
        /\ DOMAIN t.sub = DOMAIN s.sub \cup {new}
        /\ t.sub[new] = record /\ record.conversation = c
    <2>1. Len(s.sub) \in Nat /\ DOMAIN s.sub = 1 .. Len(s.sub)
      BY Fields
    <2>2. DOMAIN t.sub = DOMAIN s.sub \cup {new}
      BY <1>1, <2>1 DEF Enters
    <2> QED
      BY <1>1, <2>2 DEF Enters
  <1> SUFFICES ASSUME NEW j \in DOMAIN t.sub,
                      t.sub[j].draft.from.what \in {"result", "continue"},
                      NEW from, from = t.sub[j].draft.from
               PROVE  /\ from.of \in Conversation /\ from.nth \in DOMAIN t.sub
                      /\ t.sub[from.nth].run = from.nth
                      /\ t.sub[from.nth].conversation = from.of
                      /\ t.sub[j].conversation =
                           IF from.what = "result" THEN Parent[from.of] ELSE from.of
    BY DEF Named
  <1>3. /\ from.of \in Conversation /\ from.nth \in DOMAIN s.sub
        /\ s.sub[from.nth].run = from.nth
        /\ s.sub[from.nth].conversation = from.of
        /\ t.sub[j].conversation =
             IF from.what = "result" THEN Parent[from.of] ELSE from.of
    <2>1. CASE j \in DOMAIN s.sub
      BY <1>2, <2>1, SMTT(30) DEF Named
    <2>2. CASE j = new
      BY <1>2, <2>2
    <2> QED
      BY <1>2, <2>1, <2>2
  <1> QED
    BY <1>2, <1>3

\* The four ways in: into the inbox, placed, landed, and refused as stale.
RecordOf(c, draft, target, status, entry) ==
    [conversation |-> c, draft |-> draft, target |-> target, status |-> status,
     entry |-> entry, run |-> NoSubmission]

\* Writing what a function has there already changes nothing.
LEMMA Untouched ==
    ASSUME NEW D, NEW R, NEW f \in [D -> R], NEW c \in D, NEW v, v = f[c]
    PROVE  [f EXCEPT ![c] = v] = f
  OBVIOUS

\* The record of a new submission has what it is made of.
LEMMA RecordFits ==
    ASSUME NEW c \in Conversation, NEW draft \in SubmissionDraft, NEW target \in Nat,
           NEW status \in {"queued", "placed", "done", "unanswered", "withdrawn"},
           NEW entry \in Nat
    PROVE  LET record == RecordOf(c, draft, target, status, entry)
           IN  /\ record \in SubmissionRecord
               /\ record.conversation = c /\ record.draft = draft /\ record.target = target
               /\ record.status = status /\ record.entry = entry
               /\ record.run = NoSubmission
  BY DEF RecordOf, SubmissionRecord, NoSubmission

\* A submission that is queued enters the inbox.
LEMMA EnqueueEnters ==
    ASSUME NEW s, WellFormed(s), NEW c \in Conversation, NEW draft \in SubmissionDraft,
           NEW target \in Nat, target <= s.entries
    PROVE  LET t == Enqueue(s, c, draft, target)
           IN  WellFormed(t) /\ Enters(s, t, c, RecordOf(c, draft, target, "queued", NoEntry))
  <1>1. s \in Database /\ s.entries \in Nat /\ s.head[c] \in Nat /\ s.head[c] <= s.entries
        /\ s.head \in [Conversation -> Nat]
    BY Fields DEF WellFormed
  <1>2. PICK record : record = RecordOf(c, draft, target, "queued", NoEntry)
    OBVIOUS
  <1>3. /\ record \in SubmissionRecord /\ record.conversation = c /\ record.target = target
        /\ record.status = "queued" /\ record.entry = NoEntry /\ record.run = NoSubmission
    BY <1>2, RecordFits DEF NoEntry
  <1>4. PICK t : t = Enqueue(s, c, draft, target)
    OBVIOUS
  <1>5. t = Base(Append(s.sub, record), s.gen,
                 [s.inbox EXCEPT ![c] = Append(@, Len(s.sub) + 1)],
                 s.run, s.head, s.entries, s.doc, s.lifecycle)
    BY <1>1, <1>2, <1>4 DEF Enqueue, WithSubmission, RecordOf, Database, Base
  <1>6. [s.inbox EXCEPT ![c] = IF record.status = "queued" THEN Append(@, Len(s.sub) + 1)
                               ELSE @]
          = [s.inbox EXCEPT ![c] = Append(@, Len(s.sub) + 1)]
    BY <1>3
  <1>7. [s.head EXCEPT ![c] = s.head[c]] = s.head
    BY <1>1, Untouched
  <1>8. PICK head \in Nat : head = s.head[c] /\ head <= s.entries
    BY <1>1
  <1>9. PICK entries \in Nat : entries = s.entries
    BY <1>1
  <1>10. t = Base(Append(s.sub, record), s.gen,
                  [s.inbox EXCEPT ![c] = IF record.status = "queued"
                                         THEN Append(@, Len(s.sub) + 1) ELSE @],
                  s.run, [s.head EXCEPT ![c] = head], entries, s.doc, s.lifecycle)
    BY <1>5, <1>6, <1>7, <1>8, <1>9
  <1>11. s.entries <= entries /\ record.entry <= entries /\ record.target <= s.entries
         /\ head <= entries /\ record.entry = NoEntry
    BY <1>3, <1>8, <1>9 DEF NoEntry
  <1>12. WellFormed(t) /\ Enters(s, t, c, record)
    BY <1>3, <1>10, <1>11, EntersDoes
  <1> QED
    BY <1>2, <1>4, <1>12

\* An input placed at once takes the next entry.
LEMMA PlacedEnters ==
    ASSUME NEW s, WellFormed(s), NEW c \in Conversation, NEW draft \in SubmissionDraft,
           NEW entry, entry = s.entries + 1
    PROVE  LET t == [WithSubmission(s, c, draft, NoEntry, "placed", entry)
                       EXCEPT !.entries = entry]
           IN  WellFormed(t) /\ Enters(s, t, c, RecordOf(c, draft, NoEntry, "placed", entry))
  <1>1. s \in Database /\ s.entries \in Nat /\ s.head[c] \in Nat /\ s.head[c] <= s.entries
        /\ s.head \in [Conversation -> Nat] /\ s.inbox \in [Conversation -> Seq(Nat)]
        /\ entry \in Nat
    BY Fields DEF WellFormed
  <1>2. PICK record : record = RecordOf(c, draft, NoEntry, "placed", entry)
    OBVIOUS
  <1>3. /\ record \in SubmissionRecord /\ record.conversation = c /\ record.target = NoEntry
        /\ record.status = "placed" /\ record.entry = entry /\ record.run = NoSubmission
    BY <1>1, <1>2, RecordFits, SMTT(30) DEF NoEntry
  <1>4. PICK t : t = [WithSubmission(s, c, draft, NoEntry, "placed", entry)
                        EXCEPT !.entries = entry]
    OBVIOUS
  <1>5. t = Base(Append(s.sub, record), s.gen, s.inbox,
                 s.run, s.head, entry, s.doc, s.lifecycle)
    BY <1>1, <1>2, <1>4 DEF WithSubmission, RecordOf, Database, Base
  <1>6. [s.inbox EXCEPT ![c] = IF record.status = "queued" THEN Append(@, Len(s.sub) + 1)
                               ELSE @] = s.inbox
    BY <1>1, <1>3
  <1>7. [s.head EXCEPT ![c] = s.head[c]] = s.head
    BY <1>1, Untouched
  <1>8. PICK head \in Nat : head = s.head[c] /\ head <= s.entries
    BY <1>1
  <1>9. t = Base(Append(s.sub, record), s.gen,
                 [s.inbox EXCEPT ![c] = IF record.status = "queued"
                                        THEN Append(@, Len(s.sub) + 1) ELSE @],
                 s.run, [s.head EXCEPT ![c] = head], entry, s.doc, s.lifecycle)
    BY <1>5, <1>6, <1>7, <1>8
  <1>10. s.entries <= entry /\ record.entry <= entry /\ record.target <= s.entries
         /\ head <= entry /\ s.entries < record.entry
    BY <1>1, <1>3, <1>8 DEF NoEntry
  <1>11. WellFormed(t) /\ Enters(s, t, c, record)
    BY <1>1, <1>3, <1>9, <1>10, EntersDoes
  <1> QED
    BY <1>2, <1>4, <1>11

\* A write that lands at once takes the next entry and moves the head as it says.
LEMMA LandWriteEnters ==
    ASSUME NEW s, WellFormed(s), NEW c \in Conversation, NEW draft \in SubmissionDraft,
           NEW target \in Nat, target <= s.entries
    PROVE  LET t == LandWrite(s, c, draft, target)
           IN  /\ WellFormed(t)
               /\ Enters(s, t, c, RecordOf(c, draft, target, "done", s.entries + 1))
  <1>1. s \in Database /\ s.entries \in Nat /\ s.head[c] \in Nat /\ s.head[c] <= s.entries
        /\ s.head \in [Conversation -> Nat] /\ s.inbox \in [Conversation -> Seq(Nat)]
    BY Fields DEF WellFormed
  <1>2. PICK entry \in Nat : entry = s.entries + 1
    BY <1>1
  <1>3. PICK record : record = RecordOf(c, draft, target, "done", entry)
    OBVIOUS
  <1>4. /\ record \in SubmissionRecord /\ record.conversation = c /\ record.target = target
        /\ record.status = "done" /\ record.entry = entry /\ record.run = NoSubmission
    BY <1>1, <1>3, RecordFits, SMTT(30)
  <1>5. PICK t : t = LandWrite(s, c, draft, target)
    OBVIOUS
  <1>6. PICK head : head = CASE draft.head = "none" -> s.head[c]
                             [] draft.head = "self" -> entry
                             [] draft.head = "at" -> target
    OBVIOUS
  <1>7. head \in Nat /\ head <= entry
    <2>1. draft.head \in {"none", "self", "at"}
      BY DEF SubmissionDraft
    <2>2. CASE draft.head = "none"
      BY <1>1, <1>2, <1>6, <2>2
    <2>3. CASE draft.head = "self"
      BY <1>2, <1>6, <2>3
    <2>4. CASE draft.head = "at"
      BY <1>1, <1>2, <1>6, <2>4
    <2> QED
      BY <2>1, <2>2, <2>3, <2>4
  <1>8. t = Base(Append(s.sub, record), s.gen, s.inbox,
                 s.run, [s.head EXCEPT ![c] = head], entry, s.doc, s.lifecycle)
    <2>1. PICK m : m = WithSubmission(s, c, draft, target, "done", entry)
      OBVIOUS
    <2>2. m = Base(Append(s.sub, record), s.gen, s.inbox, s.run, s.head, s.entries,
                   s.doc, s.lifecycle)
      BY <1>1, <1>3, <2>1 DEF WithSubmission, RecordOf, Database, Base
    <2>3. m.head = s.head
      BY <2>2 DEF Base
    <2>4. t = [m EXCEPT !.entries = entry,
                        !.head[c] = CASE draft.head = "none" -> m.head[c]
                                      [] draft.head = "self" -> entry
                                      [] draft.head = "at" -> target]
      BY <1>2, <1>5, <2>1 DEF LandWrite
    <2>5. t = [m EXCEPT !.entries = entry, !.head[c] = head]
      BY <1>6, <2>3, <2>4
    <2> QED
      BY <2>2, <2>5 DEF Base
  <1>9. [s.inbox EXCEPT ![c] = IF record.status = "queued" THEN Append(@, Len(s.sub) + 1)
                               ELSE @] = s.inbox
    BY <1>1, <1>4
  <1>10. t = Base(Append(s.sub, record), s.gen,
                  [s.inbox EXCEPT ![c] = IF record.status = "queued"
                                         THEN Append(@, Len(s.sub) + 1) ELSE @],
                  s.run, [s.head EXCEPT ![c] = head], entry, s.doc, s.lifecycle)
    BY <1>8, <1>9
  <1>11. s.entries <= entry /\ record.entry <= entry /\ record.target <= s.entries
         /\ s.entries < record.entry
    BY <1>1, <1>2, <1>4
  <1>12. WellFormed(t) /\ Enters(s, t, c, record)
    BY <1>4, <1>7, <1>10, <1>11, EntersDoes
  <1> QED
    BY <1>2, <1>3, <1>5, <1>12

\* A submission that is refused is on record, unanswered, without an entry.
LEMMA RefusedEnters ==
    ASSUME NEW s, WellFormed(s), NEW c \in Conversation, NEW draft \in SubmissionDraft,
           NEW target \in Nat, target <= s.entries
    PROVE  LET t == WithSubmission(s, c, draft, target, "unanswered", NoEntry)
           IN  /\ WellFormed(t)
               /\ Enters(s, t, c, RecordOf(c, draft, target, "unanswered", NoEntry))
  <1>1. s \in Database /\ s.entries \in Nat /\ s.head[c] \in Nat /\ s.head[c] <= s.entries
        /\ s.head \in [Conversation -> Nat] /\ s.inbox \in [Conversation -> Seq(Nat)]
    BY Fields DEF WellFormed
  <1>2. PICK record : record = RecordOf(c, draft, target, "unanswered", NoEntry)
    OBVIOUS
  <1>3. /\ record \in SubmissionRecord /\ record.conversation = c /\ record.target = target
        /\ record.status = "unanswered" /\ record.entry = NoEntry
        /\ record.run = NoSubmission
    BY <1>2, RecordFits DEF NoEntry
  <1>4. PICK t : t = WithSubmission(s, c, draft, target, "unanswered", NoEntry)
    OBVIOUS
  <1>5. t = Base(Append(s.sub, record), s.gen, s.inbox,
                 s.run, s.head, s.entries, s.doc, s.lifecycle)
    BY <1>1, <1>2, <1>4 DEF WithSubmission, RecordOf, Database, Base
  <1>6. [s.inbox EXCEPT ![c] = IF record.status = "queued" THEN Append(@, Len(s.sub) + 1)
                               ELSE @] = s.inbox
    BY <1>1, <1>3
  <1>7. [s.head EXCEPT ![c] = s.head[c]] = s.head
    BY <1>1, Untouched
  <1>8. PICK head \in Nat : head = s.head[c] /\ head <= s.entries
    BY <1>1
  <1>9. PICK entries \in Nat : entries = s.entries
    BY <1>1
  <1>10. t = Base(Append(s.sub, record), s.gen,
                  [s.inbox EXCEPT ![c] = IF record.status = "queued"
                                         THEN Append(@, Len(s.sub) + 1) ELSE @],
                  s.run, [s.head EXCEPT ![c] = head], entries, s.doc, s.lifecycle)
    BY <1>5, <1>6, <1>7, <1>8, <1>9
  <1>11. s.entries <= entries /\ record.entry <= entries /\ record.target <= s.entries
         /\ head <= entries /\ record.entry = NoEntry
    BY <1>3, <1>8, <1>9 DEF NoEntry
  <1>12. WellFormed(t) /\ Enters(s, t, c, record)
    BY <1>3, <1>10, <1>11, EntersDoes
  <1> QED
    BY <1>2, <1>4, <1>12

-----------------------------------------------------------------------------
(* Admission. *)

\* What may be submitted to c.
Fit(s, c, draft, target) ==
    /\ draft \in SubmissionDraft /\ target \in Nat /\ target <= s.entries
    /\ draft.from.what # "continue"
    /\ draft.kind = "write" /\ draft.display => draft.head = "none"
    /\ draft.head = "self" => target = NoEntry
    /\ draft.from.what = "result" =>
         /\ draft.from.of \in Conversation /\ draft.from.nth \in DOMAIN s.sub
         /\ s.sub[draft.from.nth].run = draft.from.nth
         /\ s.sub[draft.from.nth].conversation = draft.from.of
         /\ c = Parent[draft.from.of]

\* What follows the runs of every conversation, and the new submission if it does.
Follows(s, t, draft) ==
    \A what, e, first :
        FromIn(t, what, e, first) =
            IF draft.from = Source(what, e, first)
            THEN FromIn(s, what, e, first) \cup {Len(s.sub) + 1}
            ELSE FromIn(s, what, e, first)

\* The other conversations stay as they are, but for what follows the run that a
\* result reports.
Leaves(s, t, c, draft) ==
    /\ Others(s, t, c) /\ Grows(s, t)
    /\ t.lifecycle = s.lifecycle /\ t.doc = s.doc
    /\ DOMAIN s.gen \subseteq DOMAIN t.gen
    /\ \A g \in DOMAIN s.gen : t.gen[g] = s.gen[g]
    /\ \A e \in Conversation \ {c} :
         (draft.from.what = "result" => draft.from.of # e) =>
             \A open : Handed(s, e, open) => Handed(t, e, open)

AdmitGives(s, t, c, draft) ==
    /\ WellFormed(t) /\ Named(t) /\ AtRest(t, c) /\ Leaves(s, t, c, draft)
    /\ draft.kind = "input" /\ draft.mode # "reject" =>
         /\ Len(t.sub) \in DOMAIN t.sub
         /\ ~Known(s, c, draft) => Follows(s, t, draft)

\* A new record leaves every other conversation, and what it was handed, as it is.
LEMMA EntersFollows ==
    ASSUME NEW s \in Database, NEW t, NEW c \in Conversation, NEW record, Enters(s, t, c, record)
    PROVE  Follows(s, t, record.draft)
  BY EntersBeside, SMTT(30) DEF Follows

\* A submission that waits, lands or is refused.
LEMMA EntersAtRest ==
    ASSUME NEW s, WellFormed(s), Named(s), NEW c \in Conversation, AtRest(s, c), Born(s, c),
           NEW draft, NEW target, Fit(s, c, draft, target),
           NEW t, WellFormed(t), NEW record \in SubmissionRecord, Enters(s, t, c, record),
           record.draft = draft, Proper(s, c, record), record.status # "placed",
           record.status = "queued" => Busy(s, c)
    PROVE  AdmitGives(s, t, c, draft)
  <1>1. s \in Database /\ t \in Database
    BY DEF WellFormed
  <1>2. Sound(s, c, {}, NoTask) /\ CutOff(s, c, Inputs(s, c)) /\ Handed(s, c, Inputs(s, c))
    BY DEF AtRest, Resting
  <1>3. Named(t)
    <2>1. record.draft.from.what \in {"result", "continue"} =>
               LET from == record.draft.from
               IN  /\ from.of \in Conversation /\ from.nth \in DOMAIN s.sub
                   /\ s.sub[from.nth].run = from.nth
                   /\ s.sub[from.nth].conversation = from.of
                   /\ c = IF from.what = "result" THEN Parent[from.of] ELSE from.of
      BY DEF Fit
    <2> QED
      BY <1>1, <2>1, EntersNamed
  <1>4. /\ Sound(t, c, {}, NoTask) /\ CutOff(t, c, Inputs(t, c))
        /\ Inputs(t, c) = Inputs(s, c)
    <2>1. PICK users : users = IF record.status = "placed" THEN {Len(s.sub) + 1} ELSE {}
      OBVIOUS
    <2>2. users = {}
      BY <2>1
    <2>3. /\ Sound(t, c, users, NoTask)
          /\ CutOff(s, c, Inputs(s, c)) => CutOff(t, c, Inputs(t, c))
          /\ Inputs(t, c) = Inputs(s, c)
      BY <1>2, <2>1, EntersSound
    <2> QED
      BY <1>2, <2>2, <2>3
  <1>5. ASSUME NEW e \in Conversation, NEW open,
               draft.from.what = "result" => draft.from.of # e, Handed(s, e, open)
        PROVE  Handed(t, e, open)
    BY <1>1, <1>5, EntersHanded DEF Fit
  <1>6. Handed(t, c, Inputs(t, c))
    <2>1. draft.from.what = "result" => draft.from.of # c
      BY ConversationAssumption DEF Fit, NoConversation
    <2> QED
      BY <1>2, <1>4, <1>5, <2>1
  <1>7. ~Busy(t, c) => t.inbox[c] = <<>>
    BY DEF Enters, Busy, AtRest, Resting
  <1>8. AtRest(t, c)
    BY <1>4, <1>6, <1>7 DEF AtRest, Resting
  <1>9. Leaves(s, t, c, draft)
    <2>1. Others(s, t, c)
      BY <1>1, EntersBeside
    <2>2. Goes(s, t)
      BY GoesStill DEF Enters
    <2>3. Grows(s, t)
      BY <1>1, <2>2, EntersBeside DEF Enters, Grows
    <2> QED
      BY <1>1, <1>5, <2>1, <2>3, EntersBeside DEF Leaves, Enters
  <1>10. Len(t.sub) \in DOMAIN t.sub
    <2>1. Len(s.sub) \in Nat /\ Len(t.sub) \in Nat /\ DOMAIN t.sub = 1 .. Len(t.sub)
          /\ DOMAIN t.sub = 1 .. Len(s.sub) + 1
      BY <1>1, Fields DEF Enters
    <2>2. Len(t.sub) # 0
      BY <2>1
    <2> QED
      BY <2>1, <2>2
  <1>11. Follows(s, t, draft)
    BY <1>1, EntersFollows
  <1> QED
    BY <1>3, <1>8, <1>9, <1>10, <1>11 DEF AdmitGives

\* A write that lands at once: nothing that it follows is queued, and a reset lands
\* where no run is live.
LEMMA LandsAtRest ==
    ASSUME NEW s, WellFormed(s), Named(s), NEW c \in Conversation, AtRest(s, c), Born(s, c),
           NEW draft, NEW target, Fit(s, c, draft, target),
           draft.kind = "write", ~QueuedReset(s, c), draft.head = "self" => ~Busy(s, c),
           ~Known(s, c, draft), NoneWaits(s, c, draft)
    PROVE  AdmitGives(s, LandWrite(s, c, draft, target), c, draft)
  <1>1. s \in Database /\ s.entries \in Nat /\ draft \in SubmissionDraft
        /\ target \in Nat /\ target <= s.entries
    BY Fields DEF WellFormed, Fit
  <1>2. PICK entry \in Nat : entry = s.entries + 1
    BY <1>1
  <1>3. PICK t : t = LandWrite(s, c, draft, target)
    OBVIOUS
  <1>4. PICK record : record = RecordOf(c, draft, target, "done", entry)
    OBVIOUS
  <1>5. WellFormed(t) /\ Enters(s, t, c, record)
    BY <1>1, <1>2, <1>3, <1>4, LandWriteEnters
  <1>6. record \in SubmissionRecord /\ record.draft = draft /\ record.target = target
        /\ record.status = "done" /\ record.entry = entry
    BY <1>1, <1>2, <1>4, RecordFits
  <1>7. Proper(s, c, record)
    <2>1. entry # NoEntry
      BY <1>1, <1>2 DEF NoEntry
    <2> QED
      BY <1>6, <2>1 DEF Proper, Fit
  <1> QED
    BY <1>3, <1>5, <1>6, <1>7, EntersAtRest

\* A sequence of one item.
LEMMA Single ==
    ASSUME NEW n \in Nat, NEW q, q = <<n>>
    PROVE  q \in Seq(Nat) /\ q # <<>> /\ ToSet(q) = {n} /\ Head(q) = n /\ IsInjective(q)
  BY DEF ToSet, IsInjective

\* An input of an idle conversation starts a run.
LEMMA PlaceIdleAtRest ==
    ASSUME NEW s, WellFormed(s), Named(s), NEW c \in Conversation, AtRest(s, c), Born(s, c),
           ~Busy(s, c), NEW draft, NEW target, Fit(s, c, draft, target),
           draft.kind = "input", ~Known(s, c, draft)
    PROVE  AdmitGives(s, PlaceIdleInput(s, c, draft), c, draft)
  <1>1. s \in Database /\ s.entries \in Nat /\ Len(s.sub) \in Nat
    BY Fields DEF WellFormed
  <1>2. PICK entry \in Nat : entry = s.entries + 1
    BY <1>1
  <1>3. PICK m : m = [WithSubmission(s, c, draft, NoEntry, "placed", entry)
                       EXCEPT !.entries = entry]
    OBVIOUS
  <1>4. PICK inputs : inputs = <<Len(s.sub) + 1>>
    OBVIOUS
  <1>5. PICK t : t = StartRun(m, c, inputs)
    OBVIOUS
  <1>6. t = PlaceIdleInput(s, c, draft)
    BY <1>2, <1>3, <1>4, <1>5 DEF PlaceIdleInput
  <1>7. PICK record : record = RecordOf(c, draft, NoEntry, "placed", entry)
    OBVIOUS
  <1>8. WellFormed(m) /\ Enters(s, m, c, record)
    BY <1>2, <1>3, <1>7, PlacedEnters DEF Fit
  <1>9. /\ record \in SubmissionRecord /\ record.draft = draft /\ record.status = "placed"
        /\ record.entry = entry /\ record.run = NoSubmission /\ entry # NoEntry
    BY <1>1, <1>2, <1>7, RecordFits, SMTT(30) DEF Fit, NoEntry
  <1>10. /\ Sound(s, c, {}, NoTask) /\ CutOff(s, c, Inputs(s, c)) /\ s.inbox[c] = <<>>
         /\ s.run[c].inputs = <<>> /\ Inputs(s, c) = {} /\ Handed(s, c, {})
    <2>1. Inputs(s, c) = {} /\ s.run[c].inputs = <<>>
      BY NothingIn DEF Busy
    <2> QED
      BY <2>1 DEF AtRest, Resting
  <1>11. Proper(s, c, record)
    <2>1. ToSet(s.inbox[c]) = {}
      BY <1>10, EmptySeq, NoElements
    <2>2. ~QueuedReset(s, c) /\ NoneWaits(s, c, draft)
      BY <2>1 DEF QueuedReset, NoneWaits
    <2> QED
      BY <1>9, <2>2 DEF Proper
  <1>12. inputs \in Seq(Nat) /\ inputs # <<>> /\ ToSet(inputs) = {Len(s.sub) + 1}
         /\ IsInjective(inputs)
    BY <1>1, <1>4, Single
  <1>13. /\ Sound(m, c, ToSet(inputs), NoTask) /\ CutOff(m, c, ToSet(inputs))
         /\ ~Busy(m, c)
    <2>1. PICK users : users = IF record.status = "placed" THEN {Len(s.sub) + 1} ELSE {}
      OBVIOUS
    <2>2. users = ToSet(inputs)
      BY <1>9, <1>12, <2>1
    <2>3. Sound(m, c, users, NoTask) /\ CutOff(m, c, users)
      BY <1>8, <1>9, <1>10, <1>11, <2>1, EntersSound
    <2> QED
      BY <1>8, <2>2, <2>3 DEF Enters, Busy
  <1>14. Named(m)
    <2>1. record.draft.from.what \in {"result", "continue"} =>
               LET from == record.draft.from
               IN  /\ from.of \in Conversation /\ from.nth \in DOMAIN s.sub
                   /\ s.sub[from.nth].run = from.nth
                   /\ s.sub[from.nth].conversation = from.of
                   /\ c = IF from.what = "result" THEN Parent[from.of] ELSE from.of
      BY <1>9 DEF Fit
    <2> QED
      BY <1>1, <1>8, <2>1, EntersNamed
  <1>15. ASSUME NEW e \in Conversation, NEW open,
               draft.from.what = "result" => draft.from.of # e, Handed(s, e, open)
        PROVE  Handed(m, e, open)
    BY <1>1, <1>8, <1>9, <1>15, EntersHanded DEF Fit
  <1>16. Handed(m, c, {})
    <2>1. draft.from.what = "result" => draft.from.of # c
      BY ConversationAssumption DEF Fit, NoConversation
    <2>2. PICK open : open = {}
      OBVIOUS
    <2> QED
      BY <1>10, <1>15, <2>1, <2>2
  <1>17. /\ Within(m, t, c) /\ Resting(t, c, NoTask)
    BY <1>5, <1>8, <1>12, <1>13, <1>14, <1>16, StartWithin
  <1>18. Others(s, m, c) /\ m.gen = s.gen /\ m.lifecycle = s.lifecycle /\ m.doc = s.doc
    BY <1>1, <1>8, EntersBeside DEF Enters
  <1>19. Others(s, t, c)
    BY <1>17, <1>18, SameTwice DEF Others, Within
  <1>20. ASSUME NEW e \in Conversation \ {c}, NEW open,
               draft.from.what = "result" => draft.from.of # e, Handed(s, e, open)
        PROVE  Handed(t, e, open)
    <2>1. Handed(m, e, open)
      BY <1>15, <1>20
    <2>2. Same(m, t, e) /\ SameAfter(m, t, e)
      BY <1>17, KeptAfter DEF Within, Others
    <2> QED
      BY <2>1, <2>2, SameHanded
  <1>21. Leaves(s, t, c, draft)
    <2>1. Grows(s, t)
      <3>1. DOMAIN s.sub \subseteq DOMAIN m.sub
            /\ \A i \in DOMAIN s.sub : m.sub[i].draft = s.sub[i].draft
        BY <1>1, <1>8, EntersBeside DEF Enters
      <3>2. Goes(s, m)
        BY <1>8, GoesStill DEF Enters
      <3>3. Goes(s, t)
        BY <1>17, <3>1, <3>2, GoesTwice DEF Within, KeepsSub
      <3> QED
        BY <1>17, <3>1, <3>3 DEF Grows, Within, KeepsSub
    <2> QED
      BY <1>17, <1>18, <1>19, <1>20, <2>1 DEF Leaves, Within
  <1>22. Len(t.sub) \in DOMAIN t.sub
    <2>1. DOMAIN t.sub = DOMAIN m.sub /\ DOMAIN m.sub = 1 .. Len(s.sub) + 1
      BY <1>8, <1>17 DEF Within, KeepsSub, Enters
    <2>2. Len(t.sub) \in Nat /\ DOMAIN t.sub = 1 .. Len(t.sub)
      BY <1>17, Fields DEF Within, WellFormed
    <2>3. Len(t.sub) # 0
      BY <1>1, <2>1, <2>2
    <2> QED
      BY <2>2, <2>3
  <1>23. Follows(s, t, draft)
    <2>1. ASSUME NEW what, NEW e, NEW first
          PROVE  FromIn(t, what, e, first) = FromIn(m, what, e, first)
      <3>1. DOMAIN t.sub = DOMAIN m.sub
            /\ \A i \in DOMAIN m.sub : t.sub[i].draft = m.sub[i].draft
        BY <1>17 DEF Within, KeepsSub
      <3> QED
        BY <3>1 DEF FromIn
    <2>2. Follows(s, m, draft)
      <3>1. Follows(s, m, record.draft)
        BY <1>1, <1>8, EntersFollows
      <3> QED
        BY <1>9, <3>1
    <2> QED
      BY <2>1, <2>2 DEF Follows
  <1> QED
    BY <1>6, <1>17, <1>21, <1>22, <1>23 DEF AdmitGives, Within, AtRest

\* One submission is admitted to a conversation that is as between two commits.
LEMMA AdmitAtRest ==
    ASSUME NEW s, WellFormed(s), Named(s), NEW c \in Conversation, AtRest(s, c), Born(s, c),
           NEW draft, NEW target, Fit(s, c, draft, target), NEW modes
    PROVE  AdmitGives(s, Admit(s, c, draft, target, modes), c, draft)
  <1>1. s \in Database /\ s.entries \in Nat /\ draft \in SubmissionDraft
        /\ target \in Nat /\ target <= s.entries
    BY Fields DEF WellFormed, Fit
  <1>2. PICK t : t = Admit(s, c, draft, target, modes)
    OBVIOUS
  <1>3. draft.kind \in {"input", "write"}
    BY <1>1 DEF SubmissionDraft
  <1>4. CASE Known(s, c, draft)
    <2>1. t = s
      BY <1>2, <1>4 DEF Admit
    <2>2. Leaves(s, s, c, draft)
      BY GoesStill DEF Leaves, Others, Same, Grows
    <2>3. Len(s.sub) \in DOMAIN s.sub
      BY <1>1, <1>4, Fields DEF Known
    <2> QED
      BY <1>2, <1>4, <2>1, <2>2, <2>3 DEF AdmitGives
  <1>5. CASE ~Known(s, c, draft) /\ draft.kind = "write" /\ draft.display /\ ~QueuedReset(s, c)
    <2>1. t = LandWrite(s, c, draft, target)
      BY <1>2, <1>5 DEF Admit
    <2>2. ClassOf(draft) = "display"
      BY <1>1, <1>5, ClassIs DEF Fit
    <2>3. NoneWaits(s, c, draft)
      BY <1>5, <2>2 DEF NoneWaits, AtRest, Resting, Sound, InboxSound, Served, DisplayHeld
    <2> QED
      BY <1>2, <1>5, <2>1, <2>3, LandsAtRest DEF Fit
  <1>6. CASE /\ ~Known(s, c, draft)
             /\ ~(draft.kind = "write" /\ draft.display /\ ~QueuedReset(s, c))
             /\ Busy(s, c) /\ draft.kind = "input" /\ draft.mode = "reject"
    <2>1. t = s
      BY <1>2, <1>6 DEF Admit
    <2>2. Leaves(s, s, c, draft)
      BY GoesStill DEF Leaves, Others, Same, Grows
    <2> QED
      BY <1>2, <1>6, <2>1, <2>2 DEF AdmitGives
  <1>7. CASE /\ ~Known(s, c, draft)
             /\ ~(draft.kind = "write" /\ draft.display /\ ~QueuedReset(s, c))
             /\ Busy(s, c) /\ ~(draft.kind = "input" /\ draft.mode = "reject")
    <2>1. t = Enqueue(s, c, draft, target)
      BY <1>2, <1>3, <1>7 DEF Admit
    <2>2. PICK record : record = RecordOf(c, draft, target, "queued", NoEntry)
      OBVIOUS
    <2>3. WellFormed(t) /\ Enters(s, t, c, record)
      BY <1>1, <2>1, <2>2, EnqueueEnters
    <2>4. record \in SubmissionRecord /\ record.draft = draft /\ record.target = target
          /\ record.status = "queued" /\ record.entry = NoEntry
      BY <1>1, <2>2, RecordFits DEF NoEntry
    <2>5. Proper(s, c, record)
      <3>1. ClassOf(draft) = "display" => QueuedReset(s, c)
        BY <1>1, <1>7, ClassIs
      <3> QED
        BY <1>7, <2>4, <3>1 DEF Proper, Fit
    <2> QED
      BY <1>2, <1>7, <2>3, <2>4, <2>5, EntersAtRest
  <1>8. CASE /\ ~Known(s, c, draft)
             /\ ~(draft.kind = "write" /\ draft.display /\ ~QueuedReset(s, c))
             /\ ~Busy(s, c)
    <2>1. s.inbox[c] = <<>>
      BY <1>8 DEF AtRest, Resting
    <2>2. ~QueuedReset(s, c) /\ NoneWaits(s, c, draft)
      <3>1. ToSet(s.inbox[c]) = {}
        BY <2>1, EmptySeq, NoElements
      <3> QED
        BY <3>1 DEF QueuedReset, NoneWaits
    <2>3. CASE draft.kind = "input"
      <3>1. t = PlaceIdleInput(s, c, draft)
        BY <1>2, <1>8, <2>1, <2>3 DEF Admit
      <3> QED
        BY <1>2, <1>8, <2>3, <3>1, PlaceIdleAtRest
    <2>4. CASE draft.kind = "write" /\ IsStale(s.head[c], target)
      <3>1. t = WithSubmission(s, c, draft, target, "unanswered", NoEntry)
        BY <1>2, <1>8, <2>1, <2>4 DEF Admit
      <3>2. PICK record : record = RecordOf(c, draft, target, "unanswered", NoEntry)
        OBVIOUS
      <3>3. WellFormed(t) /\ Enters(s, t, c, record)
        BY <1>1, <3>1, <3>2, RefusedEnters
      <3>4. record \in SubmissionRecord /\ record.draft = draft /\ record.target = target
            /\ record.status = "unanswered" /\ record.entry = NoEntry
        BY <1>1, <3>2, RecordFits DEF NoEntry
      <3>5. target # NoEntry
        BY <2>4 DEF IsStale
      <3>6. Proper(s, c, record)
        BY <1>8, <2>4, <3>4, <3>5 DEF Proper, Fit
      <3> QED
        BY <1>2, <3>3, <3>4, <3>6, EntersAtRest
    <2>5. CASE draft.kind = "write" /\ ~IsStale(s.head[c], target)
      <3>1. t = LandWrite(s, c, draft, target)
        BY <1>2, <1>8, <2>1, <2>5 DEF Admit
      <3> QED
        BY <1>2, <1>8, <2>2, <2>5, <3>1, LandsAtRest
    <2> QED
      BY <1>3, <2>3, <2>4, <2>5
  <1> QED
    BY <1>4, <1>5, <1>6, <1>7, <1>8

-----------------------------------------------------------------------------
(* The end of a run, with what it hands back. *)

OthersRest(s, c) == \A e \in Conversation \ {c} : AtRest(s, e)

\* A part of a commit: the submissions and the generations there are stay, and no conversation of a
\* session that is being deleted gets a run.
Onward(s, t) ==
    /\ WellFormed(t) /\ Named(t) /\ t.lifecycle = s.lifecycle
    /\ Grows(s, t) /\ DOMAIN s.gen \subseteq DOMAIN t.gen
    /\ \A g \in DOMAIN s.gen : t.gen[g] = s.gen[g]
    /\ \A e \in Conversation : s.lifecycle[e] # "active" /\ ~Busy(s, e) => ~Busy(t, e)

\* Two parts of a commit, one after the other, are a part of it.
LEMMA OnwardTwice ==
    ASSUME NEW s, NEW t, NEW u, Onward(s, t), Onward(t, u)
    PROVE  Onward(s, u)
  <1>1. Grows(s, u)
    BY GrowsTwice DEF Onward
  <1> QED
    BY <1>1 DEF Onward, Grows

\* A conversation is at rest while it stays as it is and keeps what it was handed.
LEMMA SameRest ==
    ASSUME NEW s, NEW t, NEW e, Same(s, t, e), AtRest(s, e),
           Handed(s, e, Inputs(s, e)) => Handed(t, e, Inputs(s, e))
    PROVE  AtRest(t, e)
  <1>1. /\ Sound(s, e, {}, NoTask) /\ CutOff(s, e, Inputs(s, e))
        /\ Handed(t, e, Inputs(s, e))
        /\ ~Busy(s, e) => s.inbox[e] = <<>>
    BY DEF AtRest, Resting
  <1>2. Inputs(s, e) \subseteq OfIn(s, e)
    BY <1>1 DEF Sound, RunSound, InState
  <1>3. Sound(t, e, {}, NoTask)
    BY <1>1, <1>2, SameSound
  <1>4. CutOff(t, e, Inputs(s, e))
    BY <1>1, <1>2, SameCutOff
  <1>5. Inputs(t, e) = Inputs(s, e) /\ (Busy(t, e) <=> Busy(s, e)) /\ t.inbox[e] = s.inbox[e]
    BY SameState DEF Same
  <1> QED
    BY <1>1, <1>3, <1>4, <1>5 DEF AtRest, Resting

\* What one conversation does leaves the others as between two commits.
LEMMA RestOthers ==
    ASSUME NEW s, NEW t, NEW c, Others(s, t, c), KeepsSub(s, t), t.lifecycle = s.lifecycle,
           OthersRest(s, c)
    PROVE  OthersRest(t, c)
  <1> SUFFICES ASSUME NEW e \in Conversation \ {c} PROVE AtRest(t, e)
    BY DEF OthersRest
  <1>1. Same(s, t, e) /\ SameAfter(s, t, e) /\ AtRest(s, e)
    BY KeptAfter DEF Others, OthersRest
  <1>2. Handed(s, e, Inputs(s, e)) => Handed(t, e, Inputs(s, e))
    BY <1>1, SameHanded
  <1> QED
    BY <1>1, <1>2, SameRest

\* A task's document changes.
DocIs(s, t, c, doc) ==
    /\ WellFormed(t) /\ Named(t) /\ KeepsSub(s, t)
    /\ t.sub = s.sub /\ t.gen = s.gen /\ t.inbox = s.inbox /\ t.run = s.run
    /\ t.head = s.head /\ t.entries = s.entries /\ t.lifecycle = s.lifecycle
    /\ t.doc[c] = doc /\ \A e \in Conversation \ {c} : t.doc[e] = s.doc[e]
    /\ Others(s, t, c)

\* Writing the document of a task changes nothing else.
LEMMA DocChanges ==
    ASSUME NEW s, WellFormed(s), Named(s), NEW c \in Conversation,
           NEW doc \in TaskDoc, doc.contracts \subseteq DOMAIN s.sub,
           NEW t, t = [s EXCEPT !.doc[c] = doc]
    PROVE  DocIs(s, t, c, doc)
  <1>1. s \in Database
    BY DEF WellFormed
  <1>2. t = Base(s.sub, s.gen, s.inbox, s.run, s.head, s.entries,
                 [s.doc EXCEPT ![c] = doc], s.lifecycle)
    BY <1>1 DEF Database, Base
  <1>3. /\ t.sub = s.sub /\ t.gen = s.gen /\ t.inbox = s.inbox /\ t.run = s.run
        /\ t.head = s.head /\ t.entries = s.entries /\ t.lifecycle = s.lifecycle
        /\ t.doc = [s.doc EXCEPT ![c] = doc]
    BY <1>2 DEF Base
  <1>4. t.doc[c] = doc /\ \A e \in Conversation \ {c} : t.doc[e] = s.doc[e]
    BY <1>1, <1>3, Fields
  <1>5. t \in Database
    <2>1. [s.doc EXCEPT ![c] = doc] \in [Conversation -> TaskDoc]
      BY <1>1, Fields
    <2> QED
      BY <1>1, <1>2, <2>1, Fields DEF Base, Database
  <1>6. WellFormed(t)
    <2>1. \A e \in Conversation :
            t.head[e] <= t.entries /\ t.doc[e].contracts \subseteq DOMAIN t.sub
      BY <1>3, <1>4 DEF WellFormed
    <2> QED
      BY <1>3, <1>5, <2>1 DEF WellFormed
  <1>7. KeepsSub(s, t)
    BY <1>3, GoesStill DEF KeepsSub
  <1>8. Named(t)
    BY <1>1, <1>7, KeptNamed
  <1>9. Others(s, t, c)
    BY <1>3, <1>4 DEF Others, Same, OfIn
  <1> QED
    BY <1>3, <1>4, <1>6, <1>7, <1>8, <1>9 DEF DocIs

\* The run that is over is handed back: nothing else follows it, and its conversation
\* is left as it is.
LEMMA ReportDoes ==
    ASSUME NEW s, WellFormed(s), Named(s), NEW c \in Conversation, OthersRest(s, c),
           NEW first \in RunsIn(s, c), OfIn(s, c) # {} => Born(s, c),
           Handed(s, c, {first}), NEW modes
    PROVE  LET t == Report(s, c, first, modes)
           IN  Onward(s, t) /\ OthersRest(t, c) /\ Same(s, t, c) /\ Handed(t, c, {})
  <1>1. PICK t : t = Report(s, c, first, modes)
    OBVIOUS
  <1>2. s \in Database /\ first \in OfIn(s, c) /\ first \in DOMAIN s.sub
        /\ s.sub[first].run = first /\ s.sub[first].conversation = c /\ first \in Nat
    BY Fields DEF WellFormed, RunsIn, OfIn
  <1>3. CASE Parent[c] = NoConversation
    <2>1. t = s
      BY <1>1, <1>3 DEF Report, IsTask
    <2>2. Handed(s, c, {})
      BY <1>3 DEF Handed
    <2>3. Onward(s, s) /\ Same(s, s, c)
      BY GoesStill DEF Onward, Same, Grows
    <2> QED
      BY <1>1, <2>1, <2>2, <2>3
  <1>4. CASE Parent[c] # NoConversation
    <2>1. PICK p \in Conversation \ {c} : p = Parent[c] /\ Parent[p] = NoConversation
      BY <1>4, ConversationAssumption
    <2>2. s.doc[c].born /\ IsTask(s, c)
      BY <1>2, <1>4 DEF Born, IsTask
    <2>3. PICK doc : doc = [s.doc[c] EXCEPT !.contracts = @ \ {first}]
      OBVIOUS
    <2>4. /\ doc \in TaskDoc /\ doc.contracts \subseteq DOMAIN s.sub
          /\ doc.born = s.doc[c].born /\ doc.continued = s.doc[c].continued
      <3>1. s.doc[c] \in TaskDoc /\ s.doc[c].contracts \subseteq DOMAIN s.sub
            /\ s.doc[c].contracts \in SUBSET Nat
        BY <1>2, Fields DEF WellFormed
      <3> QED
        BY <2>3, <3>1 DEF TaskDoc
    <2>5. PICK noted : noted = [s EXCEPT !.doc[c] = doc]
      OBVIOUS
    <2>6. /\ WellFormed(noted) /\ Named(noted) /\ KeepsSub(s, noted)
          /\ noted.sub = s.sub /\ noted.gen = s.gen /\ noted.inbox = s.inbox
          /\ noted.run = s.run /\ noted.lifecycle = s.lifecycle
          /\ noted.doc[c] = doc /\ Others(s, noted, c)
      <3>1. DocIs(s, noted, c, doc)
        BY <2>4, <2>5, DocChanges
      <3> QED
        BY <3>1 DEF DocIs
    <2>7. Same(s, noted, c)
      BY <2>4, <2>6 DEF Same, OfIn
    <2>8. Onward(s, noted)
      BY <2>6 DEF Onward, Busy, Grows, KeepsSub
    <2>9. OthersRest(noted, c)
      BY <2>6, RestOthers
    <2>10. Handed(noted, c, {first})
      BY <2>6, <2>7, KeptAfter, SameHanded
    <2>11. t = IF s.lifecycle[p] # "active" THEN noted
               ELSE Admit(noted, p, ResultDraft(c, first), NoEntry, modes)
      <3>1. noted = [s EXCEPT !.doc[c].contracts = @ \ {first}]
        BY <2>3, <2>5
      <3> QED
        BY <1>1, <2>1, <2>2, <3>1 DEF Report
    <2>12. /\ RunsIn(noted, c) = RunsIn(s, c)
           /\ After(noted, c, first) = {}
           /\ FromIn(noted, "result", c, first) = {} /\ FromIn(noted, "continue", c, first) = {}
      <3>1. RunsIn(noted, c) = RunsIn(s, c)
        BY <2>7, SameState
      <3>2. After(noted, c, first) = {}
        BY <1>4, <2>10, <3>1 DEF Handed, HandedBack
      <3> QED
        BY <3>1, <3>2 DEF After
    <2>13. CASE s.lifecycle[p] # "active"
      <3>1. t = noted
        BY <2>11, <2>13
      <3>2. Handed(noted, c, {})
        BY <1>4, <2>1, <2>6, <2>10, <2>12, <2>13 DEF Handed, HandedBack
      <3> QED
        BY <1>1, <2>7, <2>8, <2>9, <3>1, <3>2
    <2>14. CASE s.lifecycle[p] = "active"
      <3>1. PICK draft : draft = ResultDraft(c, first)
        OBVIOUS
      <3>2. t = Admit(noted, p, draft, NoEntry, modes)
        BY <2>11, <2>14, <3>1
      <3>3. /\ draft.from = Source("result", c, first) /\ draft \in SubmissionDraft
            /\ draft.kind = "input" /\ draft.mode = "steer" /\ draft.head = "none"
            /\ draft.from.what = "result" /\ draft.from.of = c /\ draft.from.nth = first
        <4>1. c \in Nat
          BY ConversationAssumption
        <4> QED
          BY <1>2, <3>1, <4>1 DEF ResultDraft, Source, SubmissionDraft, Origin
      <3>4. Fit(noted, p, draft, NoEntry)
        <4>1. noted.entries \in Nat
          BY <2>6, Fields DEF WellFormed
        <4> QED
          BY <1>2, <2>1, <2>6, <3>3, <4>1 DEF Fit, NoEntry
      <3>5. AtRest(noted, p) /\ Born(noted, p)
        BY <2>1, <2>9 DEF OthersRest, Born
      <3>6. AdmitGives(noted, t, p, draft)
        BY <2>6, <3>2, <3>4, <3>5, AdmitAtRest
      <3>7. ~Known(noted, p, draft)
        BY <2>12, <3>3 DEF Known, FromIn
      <3>8. Follows(noted, t, draft) /\ Leaves(noted, t, p, draft) /\ AtRest(t, p)
        BY <3>3, <3>6, <3>7 DEF AdmitGives
      <3>9. Same(noted, t, c)
        BY <2>1, <3>8 DEF Leaves, Others
      <3>10. OthersRest(t, c)
        <4> SUFFICES ASSUME NEW e \in Conversation \ {c}, e # p PROVE AtRest(t, e)
          BY <3>8 DEF OthersRest
        <4>1. Same(noted, t, e) /\ AtRest(noted, e)
          BY <2>9, <3>8 DEF Leaves, Others, OthersRest
        <4>2. Handed(noted, e, Inputs(noted, e)) => Handed(t, e, Inputs(noted, e))
          BY <3>3, <3>8 DEF Leaves
        <4> QED
          BY <4>1, <4>2, SameRest
      <3>11. Handed(t, c, {})
        <4> SUFFICES HandedBack(t, c, {})
          BY DEF Handed
        <4>1. HandedBack(noted, c, {first})
          BY <1>4, <2>10 DEF Handed
        <4>2. RunsIn(t, c) = RunsIn(noted, c)
          BY <3>9, SameState
        <4>3. \A f : FromIn(t, "continue", c, f) = FromIn(noted, "continue", c, f)
          <5>1. \A f : Source("continue", c, f) # Source("result", c, first)
            BY DEF Source
          <5> QED
            BY <3>3, <3>8, <5>1 DEF Follows
        <4>4. PICK new : new = Len(noted.sub) + 1
          OBVIOUS
        <4>5. FromIn(t, "result", c, first) = FromIn(noted, "result", c, first) \cup {new}
          BY <3>3, <3>8, <4>4 DEF Follows
        <4>6. ASSUME NEW f, f # first
              PROVE  FromIn(t, "result", c, f) = FromIn(noted, "result", c, f)
          <5>1. Source("result", c, f) # Source("result", c, first)
            BY <4>6 DEF Source
          <5> QED
            BY <3>3, <3>8, <5>1 DEF Follows
        <4>7. After(t, c, first) = {new}
          BY <2>12, <4>3, <4>5 DEF After
        <4>8. \A f : f # first => After(t, c, f) = After(noted, c, f)
          BY <4>3, <4>6 DEF After
        <4>9. \A i \in RunsIn(t, c) : t.sub[i] = noted.sub[i]
          BY <3>9, <4>2 DEF Same, RunsIn
        <4>10. \A i \in InState(t, c, "placed") :
                 t.sub[i].draft.from.what = "continue" => t.doc[c].continued = i
          BY <3>9, <4>1, SameState DEF HandedBack, Same, InState
        <4>11. ASSUME NEW f \in RunsIn(t, c)
               PROVE  /\ \/ \E j \in After(t, c, f) : After(t, c, f) = {j}
                         \/ After(t, c, f) = {} /\ t.lifecycle[Parent[c]] # "active"
                      /\ t.sub[f].draft.from.what = "continue" =>
                           FromIn(t, "continue", c, f) = {}
          <5>1. t.sub[f].draft.from.what = "continue" => FromIn(t, "continue", c, f) = {}
            BY <4>1, <4>2, <4>3, <4>9 DEF HandedBack
          <5>2. CASE f = first
            BY <4>7, <5>1, <5>2
          <5>3. CASE f # first
            <6>1. \/ \E j \in After(noted, c, f) : After(noted, c, f) = {j}
                  \/ After(noted, c, f) = {} /\ noted.lifecycle[Parent[c]] # "active"
              BY <4>1, <4>2, <5>3 DEF HandedBack
            <6>2. t.lifecycle = noted.lifecycle
              BY <3>8 DEF Leaves
            <6> QED
              BY <4>8, <5>1, <5>3, <6>1, <6>2
          <5> QED
            BY <5>2, <5>3
        <4> QED
          BY <4>10, <4>11 DEF HandedBack
      <3>12. Onward(noted, t)
        <4>1. ASSUME NEW e \in Conversation, noted.lifecycle[e] # "active", ~Busy(noted, e)
              PROVE  ~Busy(t, e)
          <5>1. e # p
            BY <2>6, <2>14, <4>1
          <5>2. Same(noted, t, e)
            BY <3>8, <5>1 DEF Leaves, Others
          <5> QED
            BY <4>1, <5>2, SameState
        <4> QED
          BY <3>6, <3>8, <4>1 DEF Onward, AdmitGives, Leaves
      <3> QED
        BY <1>1, <2>7, <2>8, <3>9, <3>10, <3>11, <3>12, SameTwice, OnwardTwice
    <2> QED
      BY <2>13, <2>14
  <1> QED
    BY <1>3, <1>4

-----------------------------------------------------------------------------
(* A generation ends its run. *)

\* A generation g that is to end, and the conversation whose run it drives.
Driving(s, c, g) ==
    /\ g \in DOMAIN s.gen /\ s.gen[g].conversation = c /\ s.run[c].task = g
    /\ Busy(s, c)

\* What a generation leaves that is about to be over.
Ended(s, t, c, g) ==
    /\ Onward(s, t) /\ OthersRest(t, c)
    /\ Resting(t, c, g) /\ t.run[c].task # g

\* What is sound while no generation ends is sound while one does.
LEMMA SoundWhile ==
    ASSUME NEW s \in Database, NEW c, NEW users, Sound(s, c, users, NoTask), NEW g
    PROVE  Sound(s, c, users, g)
  <1>1. NoTask \notin DOMAIN s.gen
    BY Fields DEF NoTask
  <1> QED
    BY <1>1 DEF Sound, GenSound

\* A generation that is alive drives the run of its conversation.
LEMMA AliveDrives ==
    ASSUME NEW s, WellFormed(s), \A c \in Conversation : AtRest(s, c),
           NEW g \in DOMAIN s.gen, Alive(s, g)
    PROVE  /\ s.gen[g].conversation \in Conversation
           /\ Driving(s, s.gen[g].conversation, g) /\ Drives(s, g)
  <1>1. PICK c \in Conversation : c = s.gen[g].conversation
    BY Fields DEF WellFormed, GenerationRecord
  <1>2. g # NoTask
    BY Fields DEF WellFormed, NoTask
  <1>3. s.run[c].task = g
    BY <1>1, <1>2 DEF AtRest, Resting, Sound, GenSound
  <1>4. Busy(s, c)
    BY <1>2, <1>3, NothingIn DEF Busy, NoTask
  <1> QED
    BY <1>1, <1>3, <1>4 DEF Driving, Drives

\* A part of a commit to a conversation that has a run follows the parts before it.
LEMMA OnwardWithin ==
    ASSUME NEW s, NEW t, NEW u, NEW c \in Conversation, Onward(s, t), Within(t, u, c), Busy(s, c)
    PROVE  Onward(s, u)
  <1>1. ASSUME NEW e \in Conversation, s.lifecycle[e] # "active", ~Busy(s, e)
        PROVE  ~Busy(u, e)
    <2>1. e # c
      BY <1>1
    <2>2. ~Busy(t, e) /\ Same(t, u, e)
      BY <1>1, <2>1 DEF Onward, Within, Others
    <2> QED
      BY <2>2, SameState
  <1>2. Grows(s, u)
    <2>1. Grows(s, t) /\ Grows(t, u)
      BY DEF Onward, Within, Grows, KeepsSub
    <2> QED
      BY <2>1, GrowsTwice
  <1> QED
    BY <1>1, <1>2 DEF Onward, Within

\* Of what is placed the inputs have a run, and only they.
LEMMA InputsHaveRun ==
    ASSUME NEW s \in Database, NEW c \in Conversation, NEW users, NEW ending,
           Sound(s, c, users, ending), NEW i \in InState(s, c, "placed")
    PROVE  i \in Inputs(s, c) <=> s.sub[i].run # NoSubmission
  <1>1. /\ Inputs(s, c) \cup users = InState(s, c, "placed")
        /\ i \in Inputs(s, c) => s.sub[i].run = First(s, c)
        /\ i \in users => s.sub[i].run = NoSubmission
    BY DEF Sound, RunSound
  <1>2. ASSUME i \in Inputs(s, c) PROVE First(s, c) # NoSubmission
    <2>1. s.run[c].inputs \in Seq(Nat) /\ s.run[c].inputs # <<>>
      BY <1>2, Fields, EmptySeq, NoElements DEF Inputs
    <2>2. First(s, c) \in Inputs(s, c)
      BY <2>1, NoElements DEF First, Inputs
    <2>3. First(s, c) \in DOMAIN s.sub
      BY <1>1, <2>2 DEF InState, OfIn
    <2> QED
      BY <2>3, Fields DEF NoSubmission
  <1> QED
    BY <1>1, <1>2

\* The end of a run hands back to the parent, or queues, what it owes, and leaves the
\* conversation without a run; the parent is at rest again.
LEMMA EndRunDoes ==
    ASSUME NEW s, WellFormed(s), Named(s), NEW c \in Conversation, OthersRest(s, c),
           NEW g, Driving(s, c, g), NEW users, Sound(s, c, users, g), CutOff(s, c, users),
           Handed(s, c, Inputs(s, c)), NEW status \in {"done", "unanswered"}, NEW modes
    PROVE  LET t == EndRun(s, g, status, modes)
           IN  /\ Onward(s, t) /\ OthersRest(t, c)
               /\ Sound(t, c, users, g) /\ CutOff(t, c, users) /\ Handed(t, c, {})
               /\ ~Busy(t, c) /\ t.inbox[c] = s.inbox[c]
  <1>1. s \in Database
    BY DEF WellFormed
  <1>2. PICK m : m = SettleRun(s, c, status)
    OBVIOUS
  <1>3. PICK first : first = First(s, c)
    OBVIOUS
  <1>4. PICK t : t = Report(m, c, first, modes)
    OBVIOUS
  <1>5. t = EndRun(s, g, status, modes)
    BY <1>2, <1>3, <1>4 DEF EndRun, Driving, Drives, First
  <1>6. WellFormed(m) /\ RunEnds(s, m, c, status)
    <2>1. Inputs(s, c) \subseteq InState(s, c, "placed")
      BY DEF Sound, RunSound
    <2>2. \A i \in InState(s, c, "placed") : i \in Inputs(s, c) <=> s.sub[i].run # NoSubmission
      BY <1>1, InputsHaveRun
    <2> QED
      BY <1>2, <2>1, <2>2, SettleRunDoes
  <1>7. /\ Named(m) /\ Sound(m, c, users, g) /\ CutOff(m, c, users)
        /\ Handed(m, c, {first}) /\ ~Busy(m, c) /\ first \in RunsIn(m, c)
    <2>1. s.run[c].task = g /\ Busy(s, c)
      BY DEF Driving
    <2>2. Sound(s, c, users, s.run[c].task)
      BY <2>1
    <2>3. /\ Named(m) /\ Sound(m, c, users, s.run[c].task) /\ CutOff(m, c, users)
          /\ Handed(m, c, {First(s, c)}) /\ ~Busy(m, c) /\ First(s, c) \in RunsIn(m, c)
      BY <1>1, <1>6, <2>1, <2>2, RunEndsSound
    <2> QED
      BY <1>3, <2>1, <2>3
  <1>8. OthersRest(m, c)
    BY <1>6, RestOthers DEF RunEnds
  <1>9. Onward(s, t) /\ OthersRest(t, c) /\ Same(m, t, c) /\ Handed(t, c, {})
    <2>1. Onward(m, t) /\ OthersRest(t, c) /\ Same(m, t, c) /\ Handed(t, c, {})
      BY <1>4, <1>6, <1>7, <1>8, ReportDoes DEF Sound
    <2>2. ASSUME NEW e \in Conversation, s.lifecycle[e] # "active", ~Busy(s, e)
          PROVE  ~Busy(m, e)
      <3>1. CASE e = c
        BY <1>7, <3>1
      <3>2. CASE e # c
        BY <1>6, <2>2, <3>2, SameState DEF RunEnds, Others
      <3> QED
        BY <3>1, <3>2
    <2>3. Onward(s, m)
      BY <1>6, <1>7, <2>2 DEF Onward, RunEnds, Grows, KeepsSub
    <2> QED
      BY <2>1, <2>3, OnwardTwice
  <1>10. /\ Sound(t, c, users, g) /\ CutOff(t, c, users)
         /\ ~Busy(t, c) /\ t.inbox[c] = s.inbox[c]
    <2>1. users \subseteq OfIn(m, c) /\ Inputs(m, c) \subseteq OfIn(m, c)
      BY <1>7 DEF Sound, RunSound, InState
    <2>2. t.inbox[c] = s.inbox[c]
      BY <1>6, <1>9 DEF RunEnds, Same
    <2> QED
      BY <1>7, <1>9, <2>1, <2>2, SameSound, SameCutOff, SameState
  <1> QED
    BY <1>5, <1>9, <1>10

\* What a boundary has placed starts the next run, after the one that is over.
LEMMA EndPlaced ==
    ASSUME NEW s, WellFormed(s), Named(s), NEW c \in Conversation, OthersRest(s, c),
           NEW g, Driving(s, c, g), NEW b, NEW at, BoundaryGives(s, c, b, at, g, Inputs(s, c)),
           at = "final" \/ b.reset,
           NEW status \in {"done", "unanswered"}, NEW modes
    PROVE  Ended(s, StartRun(EndRun(b.db, g, status, modes), c, b.users), c, g)
  <1>1. PICK m : m = b.db
    OBVIOUS
  <1>2. PICK users : users = ToSet(b.users)
    OBVIOUS
  <1>3. /\ Within(s, m, c) /\ m.run = s.run /\ m.gen = s.gen
        /\ b.users \in Seq(Nat) /\ IsInjective(b.users)
        /\ Sound(m, c, users, g) /\ CutOff(m, c, users) /\ Handed(m, c, Inputs(s, c))
        /\ b.users = <<>> => m.inbox[c] = <<>>
    BY <1>1, <1>2 DEF BoundaryGives
  <1>4. WellFormed(m) /\ Named(m) /\ Driving(m, c, g) /\ Inputs(m, c) = Inputs(s, c)
    BY <1>3 DEF Within, Driving, Busy, Inputs
  <1>5. OthersRest(m, c)
    BY <1>3, RestOthers DEF Within
  <1>6. PICK t : t = EndRun(m, g, status, modes)
    OBVIOUS
  <1>7. /\ Onward(m, t) /\ OthersRest(t, c)
        /\ Sound(t, c, users, g) /\ CutOff(t, c, users) /\ Handed(t, c, {})
        /\ ~Busy(t, c) /\ t.inbox[c] = m.inbox[c]
    <2>1. Handed(m, c, Inputs(m, c))
      BY <1>3, <1>4
    <2> QED
      BY <1>3, <1>4, <1>5, <1>6, <2>1, EndRunDoes
  <1>8. WellFormed(t) /\ Named(t) /\ g \in DOMAIN t.gen
    BY <1>4, <1>7 DEF Onward, Driving
  <1>9. PICK u : u = StartRun(t, c, b.users)
    OBVIOUS
  <1>10. Within(t, u, c) /\ Resting(u, c, g) /\ u.run[c].task \notin DOMAIN t.gen
    <2>1. PICK inputs \in Seq(Nat) : inputs = b.users
      BY <1>3
    <2>2. ToSet(inputs) = users /\ IsInjective(inputs) /\ u = StartRun(t, c, inputs)
          /\ (inputs = <<>> => t.inbox[c] = <<>>)
      BY <1>2, <1>3, <1>7, <1>9, <2>1
    <2> QED
      BY <1>7, <1>8, <2>2, StartWithin
  <1>11. OthersRest(u, c)
    BY <1>7, <1>10, RestOthers DEF Within
  <1>12. Onward(s, t)
    <2>1. Onward(s, m)
      BY <1>3 DEF Within, Onward, Busy, Grows, KeepsSub
    <2> QED
      BY <1>7, <2>1, OnwardTwice
  <1>13. Onward(s, u)
    BY <1>10, <1>12, OnwardWithin DEF Driving
  <1>14. u.run[c].task # g
    BY <1>8, <1>10
  <1> QED
    BY <1>1, <1>6, <1>9, <1>10, <1>11, <1>13, <1>14 DEF Ended

\* A run that ends abnormally is handed back, and the next one is started if inputs wait.
LEMMA EndAbnormal ==
    ASSUME NEW s, WellFormed(s), Named(s), NEW c \in Conversation, OthersRest(s, c),
           NEW g, Driving(s, c, g), AtRest(s, c), NEW modes
    PROVE  Ended(s, EndRunAbnormal(s, g, modes), c, g)
  <1>1. PICK t : t = EndRun(s, g, "unanswered", modes)
    OBVIOUS
  <1>2. PICK u : u = Successor(t, c, modes)
    OBVIOUS
  <1>3. u = EndRunAbnormal(s, g, modes)
    BY <1>1, <1>2 DEF EndRunAbnormal, Driving, Drives
  <1>4. /\ Onward(s, t) /\ OthersRest(t, c)
        /\ Sound(t, c, {}, g) /\ Handed(t, c, {}) /\ ~Busy(t, c)
    <2>1. PICK users : users = {}
      OBVIOUS
    <2>2. Sound(s, c, users, g) /\ Handed(s, c, Inputs(s, c))
      BY <2>1, SoundWhile DEF AtRest, Resting, WellFormed
    <2>3. CutOff(s, c, users)
      BY <2>1 DEF CutOff
    <2>4. /\ Onward(s, t) /\ OthersRest(t, c)
          /\ Sound(t, c, users, g) /\ Handed(t, c, {}) /\ ~Busy(t, c)
      BY <1>1, <2>2, <2>3, EndRunDoes
    <2> QED
      BY <2>1, <2>4
  <1>5. WellFormed(t) /\ Named(t) /\ g \in DOMAIN t.gen
    BY <1>4 DEF Onward, Driving
  <1>6. Within(t, u, c) /\ Resting(u, c, g) /\ u.run[c].task \notin DOMAIN t.gen
    BY <1>2, <1>4, <1>5, SuccessorWithin
  <1>7. OthersRest(u, c)
    BY <1>4, <1>6, RestOthers DEF Within
  <1>8. Onward(s, u)
    BY <1>4, <1>6, OnwardWithin DEF Driving
  <1> QED
    BY <1>3, <1>5, <1>6, <1>7, <1>8 DEF Ended

\* A task's document may change before a run starts or after it.
Continued(s, c, n) == [s EXCEPT !.doc[c].continued = n]

\* Starting a run does not look at the documents of tasks.
LEMMA StartRunDoc ==
    ASSUME NEW s \in Database, NEW c \in Conversation, NEW inputs, NEW n
    PROVE  Continued(StartRun(s, c, inputs), c, n) = StartRun(Continued(s, c, n), c, inputs)
  <1>1. PICK doc : doc = [s.doc EXCEPT ![c].continued = n]
    OBVIOUS
  <1>2. PICK t : t = Continued(s, c, n)
    OBVIOUS
  <1>3. t = Base(s.sub, s.gen, s.inbox, s.run, s.head, s.entries, doc, s.lifecycle)
    BY <1>1, <1>2 DEF Database, Base, Continued
  <1>4. CASE inputs = <<>>
    BY <1>4 DEF StartRun
  <1>5. CASE inputs # <<>>
    <2>1. PICK u : u = StartRun(s, c, inputs)
      OBVIOUS
    <2>2. PICK gen : gen = Append(s.gen, [conversation |-> c, run |-> Head(inputs),
                                          phase |-> "request", marked |-> FALSE])
      OBVIOUS
    <2>3. PICK run : run = [s.run EXCEPT ![c] =
                              [task |-> Len(s.gen) + 1, inputs |-> inputs, rounds |-> 0]]
      OBVIOUS
    <2>4. PICK sub : sub = [i \in DOMAIN s.sub |->
                              IF i \in ToSet(inputs) THEN [s.sub[i] EXCEPT !.run = Head(inputs)]
                              ELSE s.sub[i]]
      OBVIOUS
    <2>5. u = Base(sub, gen, s.inbox, run, s.head, s.entries, s.doc, s.lifecycle)
      BY <1>5, <2>1, <2>2, <2>3, <2>4 DEF StartRun, CreateGeneration, Database, Base
    <2>6. Continued(u, c, n) = Base(sub, gen, s.inbox, run, s.head, s.entries, doc, s.lifecycle)
      BY <1>1, <2>5 DEF Base, Continued
    <2>7. StartRun(t, c, inputs)
            = Base(sub, gen, s.inbox, run, s.head, s.entries, doc, s.lifecycle)
      BY <1>3, <1>5, <2>2, <2>3, <2>4 DEF StartRun, CreateGeneration, Base
    <2> QED
      BY <1>2, <2>1, <2>6, <2>7
  <1> QED
    BY <1>4, <1>5

\* A step that adds no submission leaves their number.
LEMMA SameLen ==
    ASSUME NEW s \in Database, NEW t \in Database, KeepsSub(s, t)
    PROVE  Len(t.sub) = Len(s.sub)
  <1>1. /\ Len(s.sub) \in Nat /\ DOMAIN s.sub = 1 .. Len(s.sub)
        /\ Len(t.sub) \in Nat /\ DOMAIN t.sub = 1 .. Len(t.sub)
    BY Fields
  <1>2. DOMAIN t.sub = DOMAIN s.sub
    BY DEF KeepsSub
  <1> QED
    BY <1>1, <1>2

\* The run is over and its task goes on by itself: the continuation follows the run,
\* which was not a continuation.
LEMMA ContinuedDoes ==
    ASSUME NEW s, WellFormed(s), Named(s), NEW c \in Conversation, OthersRest(s, c),
           Parent[c] # NoConversation,
           NEW g, Driving(s, c, g), Sound(s, c, {}, g), CutOff(s, c, {}),
           Handed(s, c, Inputs(s, c)), s.inbox[c] = <<>>,
           s.doc[c].continued # First(s, c)
    PROVE  LET m == SettleRun(s, c, "done")
               t == [PlaceIdleInput(m, c, ContinueDraft(c, First(s, c)))
                       EXCEPT !.doc[c].continued = Len(s.sub) + 1]
           IN  Ended(s, t, c, g)
  <1>1. PICK m : m = SettleRun(s, c, "done")
    OBVIOUS
  <1>2. PICK first : first = First(s, c)
    OBVIOUS
  <1>3. PICK draft : draft = ContinueDraft(c, first)
    OBVIOUS
  <1>4. PICK new : new = Len(m.sub) + 1
    OBVIOUS
  <1>5. PICK entry : entry = m.entries + 1
    OBVIOUS
  <1>6. PICK n : n = [WithSubmission(m, c, draft, NoEntry, "placed", entry)
                        EXCEPT !.entries = entry]
    OBVIOUS
  <1>7. PICK noted : noted = [n EXCEPT !.doc[c].continued = new]
    OBVIOUS
  <1>8. PICK inputs : inputs = <<new>>
    OBVIOUS
  <1>9. PICK t : t = StartRun(noted, c, inputs)
    OBVIOUS
  <1>10. s \in Database /\ s.run[c].task = g /\ Busy(s, c)
    BY DEF WellFormed, Driving
  <1>11. WellFormed(m) /\ RunEnds(s, m, c, "done")
    <2>1. Inputs(s, c) \subseteq InState(s, c, "placed")
      BY DEF Sound, RunSound
    <2>2. \A i \in InState(s, c, "placed") : i \in Inputs(s, c) <=> s.sub[i].run # NoSubmission
      BY <1>10, InputsHaveRun
    <2> QED
      BY <1>1, <2>1, <2>2, SettleRunDoes
  <1>12. /\ Named(m) /\ Sound(m, c, {}, g) /\ CutOff(m, c, {})
         /\ Handed(m, c, {first}) /\ ~Busy(m, c)
         /\ first \in RunsIn(m, c) /\ first \in Inputs(s, c)
    <2>1. PICK users : users = {}
      OBVIOUS
    <2>2. Sound(s, c, users, s.run[c].task) /\ CutOff(s, c, users)
      BY <1>10, <2>1
    <2>3. /\ Named(m) /\ Sound(m, c, users, s.run[c].task) /\ CutOff(m, c, users)
          /\ Handed(m, c, {First(s, c)}) /\ ~Busy(m, c) /\ First(s, c) \in RunsIn(m, c)
          /\ First(s, c) \in Inputs(s, c)
      BY <1>10, <1>11, <2>2, RunEndsSound
    <2> QED
      BY <1>2, <1>10, <2>1, <2>3
  <1>13. OthersRest(m, c)
    BY <1>11, RestOthers DEF RunEnds
  <1>14. /\ m.inbox[c] = <<>> /\ m.doc = s.doc /\ m.gen = s.gen /\ m.lifecycle = s.lifecycle
         /\ KeepsSub(s, m) /\ Others(s, m, c)
    BY <1>11 DEF RunEnds
  <1>15. m \in Database /\ m.entries \in Nat /\ Len(m.sub) \in Nat /\ Len(m.sub) = Len(s.sub)
         /\ DOMAIN m.sub = 1 .. Len(m.sub) /\ new \in Nat
    <2>1. m \in Database
      BY <1>11 DEF WellFormed
    <2>2. m.entries \in Nat /\ Len(m.sub) \in Nat /\ DOMAIN m.sub = 1 .. Len(m.sub)
      BY <2>1, Fields
    <2>3. Len(m.sub) = Len(s.sub)
      BY <1>10, <1>14, <2>1, SameLen
    <2> QED
      BY <1>4, <2>1, <2>2, <2>3
  <1>16. /\ first \in DOMAIN m.sub /\ first \in Nat
         /\ m.sub[first].run = first /\ m.sub[first].conversation = c
    BY <1>12, <1>15 DEF RunsIn, OfIn
  <1>17. /\ draft.from = Source("continue", c, first) /\ draft \in SubmissionDraft
         /\ draft.kind = "input"
         /\ draft.from.what = "continue" /\ draft.from.of = c /\ draft.from.nth = first
    <2>1. c \in Nat
      BY ConversationAssumption
    <2> QED
      BY <1>3, <1>16, <2>1 DEF ContinueDraft, ResultDraft, Source, SubmissionDraft, Origin
  <1>18. PICK record : record = RecordOf(c, draft, NoEntry, "placed", entry)
    OBVIOUS
  <1>19. WellFormed(n) /\ Enters(m, n, c, record)
    BY <1>5, <1>6, <1>11, <1>17, <1>18, PlacedEnters
  <1>20. /\ record \in SubmissionRecord /\ record.draft = draft /\ record.status = "placed"
         /\ record.entry = entry /\ entry # NoEntry
    <2>1. entry \in Nat /\ entry # NoEntry
      BY <1>5, <1>15 DEF NoEntry
    <2> QED
      BY <1>17, <1>18, <2>1, RecordFits DEF NoEntry
  <1>21. Proper(m, c, record)
    <2>1. ToSet(m.inbox[c]) = {}
      BY <1>14, EmptySeq, NoElements
    <2>2. ~QueuedReset(m, c) /\ NoneWaits(m, c, draft) /\ ~Keyed(draft)
      BY <1>17, <2>1 DEF QueuedReset, NoneWaits, Keyed
    <2> QED
      BY <1>17, <1>20, <2>2 DEF Proper
  <1>22. inputs \in Seq(Nat) /\ inputs # <<>> /\ ToSet(inputs) = {new} /\ IsInjective(inputs)
    BY <1>8, <1>15, Single
  <1>23. Sound(n, c, {new}, g) /\ CutOff(n, c, {new}) /\ ~Busy(n, c)
    <2>1. PICK users : users = IF record.status = "placed" THEN {Len(m.sub) + 1} ELSE {}
      OBVIOUS
    <2>2. users = {new}
      BY <1>4, <1>20, <2>1
    <2>3. Born(m, c)
      BY <1>12, <1>16 DEF Sound, OfIn
    <2>4. Sound(n, c, users, g) /\ CutOff(n, c, users)
      BY <1>11, <1>12, <1>19, <1>20, <1>21, <2>1, <2>3, EntersSound, ZenonT(40)
    <2> QED
      BY <1>12, <1>19, <2>2, <2>4 DEF Enters, Busy
  <1>24. Named(n)
    <2>1. record.draft.from.what \in {"result", "continue"} =>
               LET from == record.draft.from
               IN  /\ from.of \in Conversation /\ from.nth \in DOMAIN m.sub
                   /\ m.sub[from.nth].run = from.nth
                   /\ m.sub[from.nth].conversation = from.of
                   /\ c = IF from.what = "result" THEN Parent[from.of] ELSE from.of
      BY <1>16, <1>17, <1>20
    <2> QED
      BY <1>12, <1>15, <1>19, <2>1, EntersNamed
  <1>25. /\ Others(m, n, c) /\ RunsIn(n, c) = RunsIn(m, c)
         /\ Follows(m, n, draft)
         /\ n.gen = m.gen /\ n.lifecycle = m.lifecycle /\ n.doc = m.doc /\ n.inbox[c] = m.inbox[c]
         /\ \A i \in DOMAIN m.sub : n.sub[i] = m.sub[i]
    <2>1. Others(m, n, c) /\ RunsIn(n, c) = RunsIn(m, c)
      BY <1>15, <1>19, EntersBeside
    <2>2. Follows(m, n, record.draft)
      BY <1>15, <1>19, EntersFollows
    <2> QED
      BY <1>19, <1>20, <2>1, <2>2 DEF Enters
  <1>26. OthersRest(n, c)
    <2> SUFFICES ASSUME NEW e \in Conversation \ {c} PROVE AtRest(n, e)
      BY DEF OthersRest
    <2>1. Same(m, n, e) /\ AtRest(m, e)
      BY <1>13, <1>25 DEF Others, OthersRest
    <2>2. SameAfter(m, n, e)
      <3>1. \A what, f : Source(what, e, f) # Source("continue", c, first)
        BY DEF Source
      <3> QED
        BY <1>17, <1>25, <3>1 DEF SameAfter, Follows
    <2>3. Handed(m, e, Inputs(m, e)) => Handed(n, e, Inputs(m, e))
      BY <2>1, <2>2, SameHanded
    <2> QED
      BY <2>1, <2>3, SameRest
  <1>27. PICK doc : doc = [n.doc[c] EXCEPT !.continued = new]
    OBVIOUS
  <1>28. /\ doc \in TaskDoc /\ doc.contracts \subseteq DOMAIN n.sub
         /\ doc.born = n.doc[c].born /\ doc.continued = new
    <2>1. n.doc[c] \in TaskDoc /\ n.doc[c].contracts \subseteq DOMAIN n.sub
      BY <1>19, Fields DEF WellFormed
    <2> QED
      BY <1>15, <1>27, <2>1 DEF TaskDoc
  <1>29. DocIs(n, noted, c, doc)
    <2>1. noted = [n EXCEPT !.doc[c] = doc]
      BY <1>7, <1>27
    <2> QED
      BY <1>19, <1>24, <1>28, <2>1, DocChanges
  <1>30. /\ WellFormed(noted) /\ Named(noted) /\ KeepsSub(n, noted) /\ Others(n, noted, c)
         /\ noted.sub = n.sub /\ noted.gen = n.gen /\ noted.inbox = n.inbox
         /\ noted.run = n.run /\ noted.lifecycle = n.lifecycle /\ noted.doc[c] = doc
    BY <1>29 DEF DocIs
  <1>31. Sound(noted, c, {new}, g) /\ CutOff(noted, c, {new}) /\ ~Busy(noted, c)
    <2>1. OfIn(noted, c) = OfIn(n, c) /\ (Born(noted, c) <=> Born(n, c))
          /\ Inputs(noted, c) = Inputs(n, c) /\ First(noted, c) = First(n, c)
          /\ (Busy(noted, c) <=> Busy(n, c))
          /\ \A status : InState(noted, c, status) = InState(n, c, status)
          /\ \A i : (IsWrite(noted, i) <=> IsWrite(n, i)) /\ (IsReset(noted, i) <=> IsReset(n, i))
      BY <1>28, <1>30 DEF OfIn, Born, Inputs, First, Busy, InState, IsWrite, IsReset
    <2>2. InboxSound(noted, c)
      BY <1>23, <1>30, <2>1 DEF Sound, InboxSound
    <2>3. RunSound(noted, c, {new})
      BY <1>23, <1>30, <2>1 DEF Sound, RunSound
    <2>4. GenSound(noted, c, g)
      BY <1>23, <1>30, <2>1 DEF Sound, GenSound, Alive
    <2>5. ResetSound(noted, c)
      BY <1>23, <1>30, <2>1 DEF Sound, ResetSound
    <2>6. CutOff(noted, c, {new})
      BY <1>23, <1>30, <2>1 DEF CutOff
    <2>7. Served(noted, c)
      <3>1. Served(n, c) /\ ToSet(n.inbox[c]) \subseteq OfIn(n, c)
        BY <1>23 DEF Sound, InboxSound, InState
      <3>2. \A i \in OfIn(n, c) : ServedWell(noted.sub[i]) /\ noted.sub[i] = n.sub[i]
        BY <1>30, <3>1 DEF Served
      <3> QED
        BY <1>30, <2>1, <3>1, <3>2, ServedStays
    <2> QED
      BY <1>23, <2>1, <2>2, <2>3, <2>4, <2>5, <2>6, <2>7 DEF Sound
  <1>32. Handed(noted, c, {})
    <2> SUFFICES HandedBack(noted, c, {})
      BY DEF Handed
    <2>1. HandedBack(m, c, {first})
      BY <1>12 DEF Handed
    <2>2. RunsIn(noted, c) = RunsIn(m, c) /\ RunsIn(m, c) \subseteq DOMAIN m.sub
      BY <1>25, <1>30 DEF RunsIn, OfIn
    <2>3. ASSUME NEW what, NEW f
          PROVE  FromIn(noted, what, c, f) = FromIn(n, what, c, f)
      BY <1>30 DEF FromIn
    <2>4. After(m, c, first) = {} /\ FromIn(m, "result", c, first) = {}
          /\ FromIn(m, "continue", c, first) = {}
      BY <1>12, <2>1 DEF HandedBack, After
    <2>5. ASSUME NEW what, NEW f, what # "continue" \/ f # first
          PROVE  FromIn(noted, what, c, f) = FromIn(m, what, c, f)
      <3>1. Source(what, c, f) # Source("continue", c, first)
        BY <2>5 DEF Source
      <3> QED
        BY <1>17, <1>25, <2>3, <3>1 DEF Follows
    <2>6. FromIn(noted, "continue", c, first) = {new}
      BY <1>4, <1>17, <1>25, <2>3, <2>4 DEF Follows
    <2>7. After(noted, c, first) = {new}
      <3>1. FromIn(noted, "result", c, first) = {}
        BY <2>4, <2>5
      <3> QED
        BY <2>6, <3>1 DEF After
    <2>8. \A i \in RunsIn(noted, c) : noted.sub[i] = m.sub[i]
      BY <1>25, <1>30, <2>2
    <2>9. m.sub[first].draft.from.what # "continue"
      <3>1. first \in InState(s, c, "placed")
        BY <1>12 DEF Sound, RunSound
      <3>2. s.sub[first].draft.from.what # "continue"
        BY <1>2, <3>1 DEF Handed, HandedBack
      <3> QED
        BY <1>14, <1>16, <3>2 DEF KeepsSub
    <2>10. \A i \in InState(noted, c, "placed") : noted.doc[c].continued = i
      <3>1. Inputs(noted, c) = {}
        BY <1>31, NothingIn DEF Busy
      <3>2. InState(noted, c, "placed") = {new}
        BY <1>31, <3>1 DEF Sound, RunSound
      <3> QED
        BY <1>28, <1>30, <3>2
    <2>11. ASSUME NEW f \in RunsIn(noted, c)
           PROVE  /\ \/ \E j \in After(noted, c, f) : After(noted, c, f) = {j}
                     \/ After(noted, c, f) = {} /\ noted.lifecycle[Parent[c]] # "active"
                  /\ noted.sub[f].draft.from.what = "continue" =>
                       FromIn(noted, "continue", c, f) = {}
      <3>1. CASE f = first
        BY <2>7, <2>8, <2>9, <3>1
      <3>2. CASE f # first
        <4>1. /\ FromIn(noted, "result", c, f) = FromIn(m, "result", c, f)
              /\ FromIn(noted, "continue", c, f) = FromIn(m, "continue", c, f)
          BY <2>5, <3>2
        <4>2. After(noted, c, f) = After(m, c, f)
          BY <4>1 DEF After
        <4>3. noted.lifecycle = m.lifecycle
          BY <1>25, <1>30
        <4>4. /\ \/ \E j \in After(m, c, f) : After(m, c, f) = {j}
                 \/ After(m, c, f) = {} /\ m.lifecycle[Parent[c]] # "active"
              /\ m.sub[f].draft.from.what = "continue" => FromIn(m, "continue", c, f) = {}
          BY <2>1, <2>2, <3>2 DEF HandedBack
        <4> QED
          BY <2>8, <4>1, <4>2, <4>3, <4>4
      <3> QED
        BY <3>1, <3>2
    <2> QED
      BY <2>10, <2>11 DEF HandedBack
  <1>33. Within(noted, t, c) /\ Resting(t, c, g) /\ t.run[c].task \notin DOMAIN noted.gen
    <2>1. noted.inbox[c] = <<>> /\ g \in DOMAIN noted.gen
      BY <1>14, <1>25, <1>30 DEF Driving
    <2>2. Sound(noted, c, ToSet(inputs), g) /\ CutOff(noted, c, ToSet(inputs))
      BY <1>22, <1>31
    <2> QED
      BY <1>9, <1>22, <1>30, <1>31, <1>32, <2>1, <2>2, StartWithin
  <1>34. OthersRest(t, c)
    <2>1. OthersRest(noted, c)
      BY <1>26, <1>30, RestOthers
    <2> QED
      BY <1>33, <2>1, RestOthers DEF Within
  <1>35. Onward(s, t)
    <2>1. noted.lifecycle = s.lifecycle /\ noted.gen = s.gen
      BY <1>14, <1>25, <1>30
    <2>2. ASSUME NEW e \in Conversation, s.lifecycle[e] # "active", ~Busy(s, e)
          PROVE  ~Busy(t, e)
      <3>1. e # c
        BY <1>10, <2>2
      <3>2. Same(s, m, e) /\ Same(m, n, e) /\ Same(n, noted, e) /\ Same(noted, t, e)
        BY <1>14, <1>25, <1>30, <1>33, <3>1 DEF Others, Within
      <3> QED
        BY <2>2, <3>2, SameState
    <2>3. Grows(s, t)
      <3>1. Grows(s, m) /\ Grows(noted, t)
        BY <1>14, <1>33 DEF Grows, Within, KeepsSub
      <3>2. Grows(m, noted)
        <4>1. Goes(m, noted)
          BY <1>25, <1>30, GoesStill
        <4> QED
          BY <1>15, <1>19, <1>25, <1>30, <4>1, EntersBeside DEF Grows
      <3> QED
        BY <3>1, <3>2, GrowsTwice
    <2> QED
      BY <1>33, <2>1, <2>2, <2>3 DEF Onward, Within
  <1>36. t.run[c].task # g
    BY <1>14, <1>25, <1>30, <1>33 DEF Driving
  <1>37. t = [PlaceIdleInput(m, c, draft) EXCEPT !.doc[c].continued = Len(s.sub) + 1]
    <2>1. PlaceIdleInput(m, c, draft) = StartRun(n, c, inputs)
      BY <1>4, <1>5, <1>6, <1>8 DEF PlaceIdleInput
    <2>2. Continued(StartRun(n, c, inputs), c, new) = StartRun(Continued(n, c, new), c, inputs)
      BY <1>19, StartRunDoc DEF WellFormed
    <2>3. Len(s.sub) + 1 = new
      BY <1>4, <1>15
    <2>4. t = Continued(StartRun(n, c, inputs), c, new)
      BY <1>7, <1>9, <2>2 DEF Continued
    <2> QED
      BY <2>1, <2>3, <2>4 DEF Continued
  <1> QED
    BY <1>1, <1>2, <1>3, <1>33, <1>34, <1>35, <1>36, <1>37 DEF Ended

\* The model has answered.
LEMMA EndAnswered ==
    ASSUME NEW s, WellFormed(s), Named(s), NEW c \in Conversation, OthersRest(s, c),
           NEW g, Driving(s, c, g), AtRest(s, c), NEW unstated, NEW modes
    PROVE  Ended(s, EndAnsweredRun(s, g, unstated, modes), c, g)
  <1>1. PICK b : b = ApplyBoundary(s, c, "final", modes)
    OBVIOUS
  <1>2. PICK waiting : waiting = (b.users # <<>> \/ b.db.inbox[c] # <<>>)
    OBVIOUS
  <1>3. PICK m : m = b.db
    OBVIOUS
  <1>4. PICK goes : goes = Continues(s, c, First(s, c), waiting, unstated)
    OBVIOUS
  <1>5. EndAnsweredRun(s, g, unstated, modes) =
          IF goes
          THEN [PlaceIdleInput(SettleRun(m, c, "done"), c, ContinueDraft(c, First(s, c)))
                  EXCEPT !.doc[c].continued = Len(s.sub) + 1]
          ELSE StartRun(EndRun(m, g, "done", modes), c, b.users)
    BY <1>1, <1>2, <1>3, <1>4 DEF EndAnsweredRun, Driving, Drives, First
  <1>6. BoundaryGives(s, c, b, "final", g, Inputs(s, c))
    <2>1. Sound(s, c, {}, g) /\ Handed(s, c, Inputs(s, c))
      BY SoundWhile DEF AtRest, Resting, WellFormed
    <2> QED
      BY <1>1, <2>1, BoundaryWithin
  <1>7. CASE ~goes
    <2>1. Ended(s, StartRun(EndRun(b.db, g, "done", modes), c, b.users), c, g)
      BY <1>6, EndPlaced
    <2> QED
      BY <1>3, <1>5, <1>7, <2>1
  <1>8. CASE goes
    <2>1. /\ Parent[c] # NoConversation /\ ~waiting
          /\ s.doc[c].continued # First(s, c)
      BY <1>4, <1>8 DEF Continues, IsTask
    <2>2. b.users = <<>> /\ m.inbox[c] = <<>>
      BY <1>2, <1>3, <2>1
    <2>3. /\ Within(s, m, c) /\ m.run = s.run /\ m.gen = s.gen
          /\ Sound(m, c, ToSet(b.users), g) /\ CutOff(m, c, ToSet(b.users))
          /\ Handed(m, c, Inputs(s, c)) /\ b.users \in Seq(Nat)
      BY <1>3, <1>6 DEF BoundaryGives
    <2>4. ToSet(b.users) = {}
      BY <2>2, <2>3, NoElements
    <2>5. /\ WellFormed(m) /\ Named(m) /\ Driving(m, c, g) /\ Inputs(m, c) = Inputs(s, c)
          /\ First(m, c) = First(s, c) /\ m.doc = s.doc
      BY <2>3 DEF Within, Driving, Busy, Inputs, First
    <2>6. OthersRest(m, c)
      BY <2>3, RestOthers DEF Within
    <2>7. Len(m.sub) = Len(s.sub)
      BY <2>3, <2>5, SameLen DEF Within, WellFormed
    <2>8. Ended(m, [PlaceIdleInput(SettleRun(m, c, "done"), c, ContinueDraft(c, First(m, c)))
                      EXCEPT !.doc[c].continued = Len(m.sub) + 1], c, g)
      <3>1. Sound(m, c, {}, g) /\ CutOff(m, c, {}) /\ Handed(m, c, Inputs(m, c))
            /\ m.doc[c].continued # First(m, c)
        BY <2>1, <2>3, <2>4, <2>5
      <3> QED
        BY <2>1, <2>2, <2>5, <2>6, <3>1, ContinuedDoes
    <2>9. Onward(s, m)
      BY <2>3 DEF Within, Onward, Busy, Grows, KeepsSub
    <2>10. Ended(s, [PlaceIdleInput(SettleRun(m, c, "done"), c, ContinueDraft(c, First(m, c)))
                       EXCEPT !.doc[c].continued = Len(m.sub) + 1], c, g)
      BY <2>8, <2>9, OnwardTwice DEF Ended
    <2> QED
      BY <1>5, <1>8, <2>5, <2>7, <2>10
  <1> QED
    BY <1>7, <1>8

-----------------------------------------------------------------------------
(* A run goes on in a new generation. *)

\* What a run that goes on with some more inputs makes of the database.
RunJoins(s, t, c, users) ==
    /\ Others(s, t, c) /\ KeepsSub(s, t)
    /\ t.lifecycle = s.lifecycle /\ t.doc = s.doc /\ t.inbox = s.inbox
    /\ t.run[c].task = Len(s.gen) + 1 /\ t.run[c].inputs = s.run[c].inputs \o users
    /\ DOMAIN t.gen = 1 .. Len(s.gen) + 1
    /\ \A g \in DOMAIN s.gen : t.gen[g] = s.gen[g]
    /\ t.gen[Len(s.gen) + 1].conversation = c /\ Alive(t, Len(s.gen) + 1)
    /\ \A i \in DOMAIN s.sub :
         t.sub[i] = IF i \in ToSet(users) THEN [s.sub[i] EXCEPT !.run = First(s, c)]
                    ELSE s.sub[i]

\* The next generation of a run takes the inputs the boundary has placed into the run.
LEMMA JoinRunDoes ==
    ASSUME NEW s, WellFormed(s), NEW c \in Conversation,
           NEW users \in Seq(Nat), ToSet(users) \subseteq OfIn(s, c),
           \A i \in ToSet(users) : s.sub[i].run = NoSubmission /\ s.sub[i].status = "placed",
           s.run[c].inputs # <<>>,
           NEW first, first = First(s, c)
    PROVE  LET t == JoinRun(CreateGeneration(s, c, first), c, users)
           IN  WellFormed(t) /\ RunJoins(s, t, c, users)
  <1>1. s \in Database /\ s.run[c].inputs \in Seq(Nat) /\ s.run[c] \in RunRecord
        /\ s.gen \in Seq(GenerationRecord) /\ Len(s.gen) \in Nat /\ DOMAIN s.gen = 1 .. Len(s.gen)
    BY Fields DEF WellFormed
  <1>2. PICK t : t = JoinRun(CreateGeneration(s, c, first), c, users)
    OBVIOUS
  <1>3. PICK new : new = [conversation |-> c, run |-> first, phase |-> "request",
                          marked |-> FALSE]
    OBVIOUS
  <1>4. PICK gen : gen = Append(s.gen, new)
    OBVIOUS
  <1>5. PICK m : m = CreateGeneration(s, c, first)
    OBVIOUS
  <1>6. m = Base(s.sub, gen, s.inbox, s.run, s.head, s.entries, s.doc, s.lifecycle)
    BY <1>1, <1>3, <1>4, <1>5 DEF CreateGeneration, Database, Base
  <1>7. /\ m.sub = s.sub /\ m.gen = gen /\ m.inbox = s.inbox /\ m.run = s.run
        /\ m.head = s.head /\ m.entries = s.entries /\ m.doc = s.doc
        /\ m.lifecycle = s.lifecycle
    BY <1>6 DEF Base
  <1>8. PICK run : run = [s.run[c] EXCEPT !.task = Len(gen), !.inputs = @ \o users]
    OBVIOUS
  <1>9. PICK sub : sub = [i \in DOMAIN s.sub |->
                            IF i \in ToSet(users) THEN [s.sub[i] EXCEPT !.run = first]
                            ELSE s.sub[i]]
    OBVIOUS
  <1>10. t = Base(sub, gen, s.inbox, [s.run EXCEPT ![c] = run], s.head, s.entries, s.doc,
                  s.lifecycle)
    <2>1. t = JoinRun(m, c, users)
      BY <1>2, <1>5
    <2>2. first = Head(m.run[c].inputs)
      BY <1>7 DEF First
    <2>3. PICK k : k = [m EXCEPT !.run[c].task = Len(gen)]
      OBVIOUS
    <2>4. PICK l : l = [k EXCEPT !.run[c].inputs = @ \o users]
      OBVIOUS
    <2>5. t = [l EXCEPT !.sub = sub]
      BY <1>7, <1>9, <2>1, <2>2, <2>3, <2>4, ZenonT(40) DEF JoinRun
    <2>6. s.run \in [Conversation -> RunRecord]
      BY <1>1, Fields
    <2>7. PICK moved : moved = [s.run[c] EXCEPT !.task = Len(gen)]
      OBVIOUS
    <2>8. k = Base(s.sub, gen, s.inbox, [s.run EXCEPT ![c] = moved], s.head, s.entries, s.doc,
                   s.lifecycle)
      BY <1>6, <2>3, <2>6, <2>7 DEF Base
    <2>9. run = [moved EXCEPT !.inputs = @ \o users]
      BY <1>8, <2>7
    <2>10. [[s.run EXCEPT ![c] = moved] EXCEPT ![c] = run] = [s.run EXCEPT ![c] = run]
      OBVIOUS
    <2>11. [s.run EXCEPT ![c] = moved][c] = moved
      BY <2>6
    <2>12. l = Base(s.sub, gen, s.inbox, [s.run EXCEPT ![c] = run], s.head, s.entries, s.doc,
                    s.lifecycle)
      BY <2>4, <2>8, <2>9, <2>10, <2>11 DEF Base
    <2> QED
      BY <2>5, <2>12 DEF Base
  <1>11. first \in Nat
    <2>1. Head(s.run[c].inputs) \in ToSet(s.run[c].inputs) /\ ToSet(s.run[c].inputs) \subseteq Nat
      BY <1>1, NoElements
    <2> QED
      BY <2>1 DEF First
  <1>12. /\ gen \in Seq(GenerationRecord) /\ Len(gen) = Len(s.gen) + 1
         /\ DOMAIN gen = 1 .. Len(s.gen) + 1
         /\ \A g \in DOMAIN s.gen : gen[g] = s.gen[g]
         /\ gen[Len(s.gen) + 1] = new
         /\ new.conversation = c /\ new.phase = "request"
    <2>1. new \in GenerationRecord /\ new.conversation = c /\ new.phase = "request"
      BY <1>3, <1>11 DEF GenerationRecord
    <2> QED
      BY <1>1, <1>4, <2>1, AppendProperties, LenProperties
  <1>13. /\ run \in RunRecord /\ run.task = Len(s.gen) + 1
         /\ run.inputs = s.run[c].inputs \o users
    <2>1. s.run[c].inputs \o users \in Seq(Nat)
      BY <1>1, ConcatProperties
    <2>2. run = [task |-> Len(gen), inputs |-> s.run[c].inputs \o users,
                 rounds |-> s.run[c].rounds]
      BY <1>1, <1>8 DEF RunRecord
    <2>3. s.run[c].rounds \in 0 .. MaxRounds
      BY <1>1, Fields
    <2> QED
      BY <1>1, <1>12, <2>1, <2>2, <2>3, SMTT(30) DEF RunRecord
  <1>14. ASSUME NEW i \in DOMAIN s.sub
         PROVE  /\ sub[i] \in SubmissionRecord
                /\ sub[i] = IF i \in ToSet(users) THEN [s.sub[i] EXCEPT !.run = first]
                            ELSE s.sub[i]
                /\ sub[i].conversation = s.sub[i].conversation
                /\ sub[i].draft = s.sub[i].draft /\ sub[i].target = s.sub[i].target
                /\ sub[i].entry = s.sub[i].entry /\ sub[i].status = s.sub[i].status
                /\ i \notin ToSet(users) => sub[i] = s.sub[i]
    <2>1. sub[i] = IF i \in ToSet(users) THEN [s.sub[i] EXCEPT !.run = first] ELSE s.sub[i]
      BY <1>9
    <2>2. s.sub[i] \in SubmissionRecord
      BY <1>1, Fields
    <2>3. CASE i \in ToSet(users)
      BY <1>11, <2>1, <2>2, <2>3 DEF SubmissionRecord
    <2>4. CASE i \notin ToSet(users)
      BY <2>1, <2>2, <2>4
    <2> QED
      BY <2>1, <2>3, <2>4
  <1>15. sub \in Seq(SubmissionRecord) /\ DOMAIN sub = DOMAIN s.sub
    <2>1. DOMAIN s.sub = 1 .. Len(s.sub) /\ Len(s.sub) \in Nat
      BY <1>1, Fields
    <2>2. sub = [i \in 1 .. Len(s.sub) |-> sub[i]] /\ DOMAIN sub = DOMAIN s.sub
      BY <1>9, <2>1
    <2>3. \A i \in 1 .. Len(s.sub) : sub[i] \in SubmissionRecord
      BY <1>14, <2>1
    <2>4. sub \in Seq(SubmissionRecord)
      BY <2>1, <2>2, <2>3, SeqOfAll
    <2> QED
      BY <2>2, <2>4
  <1>16. /\ t.sub = sub /\ t.gen = gen /\ t.inbox = s.inbox /\ t.run = [s.run EXCEPT ![c] = run]
         /\ t.head = s.head /\ t.entries = s.entries /\ t.doc = s.doc
         /\ t.lifecycle = s.lifecycle
    BY <1>10 DEF Base
  <1>17. /\ t.run \in [Conversation -> RunRecord] /\ t.run[c] = run
         /\ \A e \in Conversation \ {c} : t.run[e] = s.run[e]
    BY <1>1, <1>13, <1>16, Fields
  <1>18. t \in Database
    BY <1>1, <1>10, <1>12, <1>15, <1>16, <1>17, Fields DEF Base, Database
  <1>19. WellFormed(t)
    <2>1. \A i \in DOMAIN t.sub : t.sub[i].entry <= t.entries /\ t.sub[i].target <= t.entries
      BY <1>14, <1>15, <1>16 DEF WellFormed
    <2>2. \A e \in Conversation :
            t.head[e] <= t.entries /\ t.doc[e].contracts \subseteq DOMAIN t.sub
      BY <1>15, <1>16 DEF WellFormed
    <2> QED
      BY <1>18, <2>1, <2>2 DEF WellFormed
  <1>20. KeepsSub(s, t)
    <2>1. ASSUME NEW i \in DOMAIN s.sub
          PROVE  /\ s.sub[i].run # NoSubmission => t.sub[i].run = s.sub[i].run
                 /\ s.sub[i].status = "placed" => t.sub[i].status = "placed"
                 /\ Advances(s.sub[i], t.sub[i])
      <3>1. CASE i \notin ToSet(users)
        BY <1>14, <1>16, <3>1 DEF Advances
      <3>2. CASE i \in ToSet(users)
        BY <1>14, <1>16, <3>2 DEF Advances
      <3> QED
        BY <3>1, <3>2
    <2>2. Goes(s, t)
      BY <2>1, GoesOn
    <2> QED
      BY <1>14, <1>15, <1>16, <2>1, <2>2 DEF KeepsSub
  <1>21. Others(s, t, c)
    <2> SUFFICES ASSUME NEW e \in Conversation \ {c} PROVE Same(s, t, e)
      BY DEF Others
    <2>1. OfIn(t, e) = OfIn(s, e)
      BY <1>20 DEF OfIn, KeepsSub
    <2>2. \A i \in OfIn(s, e) : t.sub[i] = s.sub[i]
      BY <1>14, <1>16 DEF OfIn
    <2>3. ASSUME NEW g \in DOMAIN t.gen, t.gen[g].conversation = e
          PROVE  g \in DOMAIN s.gen
      <3>1. g \in 1 .. Len(s.gen) + 1
        BY <1>12, <1>16
      <3>2. g # Len(s.gen) + 1
        BY <1>12, <1>16, <2>3
      <3> QED
        BY <1>1, <3>1, <3>2
    <2>4. t.inbox[e] = s.inbox[e] /\ t.run[e] = s.run[e] /\ t.doc[e] = s.doc[e]
      BY <1>16, <1>17
    <2>5. \A g \in DOMAIN s.gen : g \in DOMAIN t.gen /\ t.gen[g] = s.gen[g]
      BY <1>1, <1>12, <1>16
    <2> QED
      BY <2>1, <2>2, <2>3, <2>4, <2>5 DEF Same
  <1>22. \A i \in DOMAIN s.sub :
            t.sub[i] = IF i \in ToSet(users) THEN [s.sub[i] EXCEPT !.run = First(s, c)]
                       ELSE s.sub[i]
    BY <1>14, <1>16
  <1>23. /\ t.run[c].task = Len(s.gen) + 1 /\ t.run[c].inputs = s.run[c].inputs \o users
         /\ DOMAIN t.gen = 1 .. Len(s.gen) + 1
         /\ \A g \in DOMAIN s.gen : t.gen[g] = s.gen[g]
         /\ t.gen[Len(s.gen) + 1].conversation = c /\ Alive(t, Len(s.gen) + 1)
    BY <1>12, <1>13, <1>16, <1>17 DEF Alive
  <1>24. RunJoins(s, t, c, users)
    BY <1>16, <1>20, <1>21, <1>22, <1>23 DEF RunJoins
  <1> QED
    BY <1>2, <1>19, <1>24

\* The conversation has the same run still, with what was placed beside it.
LEMMA RunJoinsSound ==
    ASSUME NEW s, WellFormed(s), Named(s), NEW t, WellFormed(t), NEW c \in Conversation,
           NEW g, Driving(s, c, g),
           NEW users \in Seq(Nat), IsInjective(users), RunJoins(s, t, c, users),
           Sound(s, c, ToSet(users), g),
           CutOff(s, c, Inputs(s, c) \cup ToSet(users)), Handed(s, c, Inputs(s, c))
    PROVE  Named(t) /\ Resting(t, c, g) /\ t.run[c].task # g
  <1>1. s \in Database /\ s.run[c].inputs \in Seq(Nat)
        /\ Len(s.gen) \in Nat /\ DOMAIN s.gen = 1 .. Len(s.gen)
    BY Fields DEF WellFormed
  <1>2. /\ OfIn(t, c) = OfIn(s, c) /\ OfIn(s, c) \subseteq DOMAIN s.sub
        /\ \A i \in OfIn(s, c) : IsWrite(t, i) <=> IsWrite(s, i)
        /\ \A i \in OfIn(s, c) : IsReset(t, i) <=> IsReset(s, i)
    BY DEF RunJoins, KeepsSub, OfIn, IsWrite, IsReset
  <1>3. ASSUME NEW i \in OfIn(s, c)
        PROVE  /\ t.sub[i].status = s.sub[i].status /\ t.sub[i].entry = s.sub[i].entry
               /\ t.sub[i].target = s.sub[i].target /\ t.sub[i].draft = s.sub[i].draft
               /\ t.sub[i].run = IF i \in ToSet(users) THEN First(s, c) ELSE s.sub[i].run
    <2>1. i \in DOMAIN s.sub /\ s.sub[i] \in SubmissionRecord
      BY <1>1, <1>2, Fields
    <2>2. t.sub[i] = IF i \in ToSet(users) THEN [s.sub[i] EXCEPT !.run = First(s, c)]
                     ELSE s.sub[i]
      BY <2>1 DEF RunJoins
    <2> QED
      BY <2>1, <2>2 DEF SubmissionRecord
  <1>4. \A status : InState(t, c, status) = InState(s, c, status)
    BY <1>2, <1>3 DEF InState
  <1>5. /\ Inputs(s, c) \cap ToSet(users) = {}
        /\ Inputs(s, c) \cup ToSet(users) = InState(s, c, "placed")
        /\ InState(s, c, "placed") \subseteq OfIn(s, c)
        /\ InState(s, c, "queued") \subseteq OfIn(s, c)
        /\ InState(s, c, "queued") \cap InState(s, c, "placed") = {}
        /\ IsInjective(s.run[c].inputs) /\ s.run[c].inputs # <<>>
    BY DEF Sound, RunSound, InState, Driving, Busy
  <1>6. /\ t.run[c].inputs # <<>> /\ IsInjective(t.run[c].inputs)
        /\ Inputs(t, c) = Inputs(s, c) \cup ToSet(users) /\ First(t, c) = First(s, c)
        /\ First(s, c) \in Inputs(s, c)
    <2>1. PICK p \in Seq(Nat) : p = s.run[c].inputs
      BY <1>1
    <2>2. t.run[c].inputs = p \o users
      BY <2>1 DEF RunJoins
    <2>3. IsInjective(p) /\ p # <<>> /\ ToSet(p) \cap ToSet(users) = {}
      BY <1>5, <2>1 DEF Inputs
    <2>4. /\ ToSet(p \o users) = ToSet(p) \cup ToSet(users) /\ IsInjective(p \o users)
          /\ p \o users # <<>> /\ Head(p \o users) = Head(p)
      BY <2>3, Joined
    <2>5. Head(p) \in ToSet(p)
      BY <2>3, NoElements
    <2> QED
      BY <2>1, <2>2, <2>4, <2>5 DEF Inputs, First
  <1>7. t.run[c].task = Len(s.gen) + 1 /\ t.run[c].task # g /\ t.run[c] # NoRun
    <2>1. g \in 1 .. Len(s.gen)
      BY <1>1 DEF Driving
    <2>2. t.run[c].task = Len(s.gen) + 1
      BY DEF RunJoins
    <2>3. NoRun.inputs = <<>>
      BY DEF NoRun
    <2>4. t.run[c] # NoRun
      BY <1>6, <2>3
    <2> QED
      BY <1>1, <2>1, <2>2, <2>4
  <1>8. Named(t)
    BY <1>1, KeptNamed DEF RunJoins
  <1>9. InboxSound(t, c)
    <2>1. ASSUME NEW i \in InState(s, c, "queued")
          PROVE  t.sub[i].entry = NoEntry /\ t.sub[i].run = NoSubmission
                 /\ t.sub[i].draft.from.what # "continue"
      <3>1. i \in OfIn(s, c) /\ i \notin ToSet(users)
        BY <1>5
      <3> QED
        BY <1>3, <3>1 DEF Sound, InboxSound
    <2> QED
      BY <1>4, <2>1 DEF Sound, InboxSound, RunJoins
  <1>10. RunSound(t, c, {})
    <2>1. \A i \in Inputs(t, c) : t.sub[i].run = First(t, c)
      BY <1>3, <1>5, <1>6 DEF Sound, RunSound
    <2>2. \A i \in InState(t, c, "placed") : ~IsWrite(t, i)
      BY <1>2, <1>4, <1>5 DEF Sound, RunSound
    <2> QED
      BY <1>4, <1>5, <1>6, <1>7, <2>1, <2>2 DEF RunSound
  <1>11. GenSound(t, c, g)
    <2>1. ASSUME NEW h \in DOMAIN t.gen, t.gen[h].conversation = c, Alive(t, h), h # g
          PROVE  t.run[c].task = h
      <3>1. CASE h \in DOMAIN s.gen
        <4>1. t.gen[h] = s.gen[h]
          BY <3>1 DEF RunJoins
        <4>2. s.run[c].task = h
          BY <2>1, <3>1, <4>1 DEF Sound, GenSound, Alive
        <4> QED
          BY <2>1, <4>2 DEF Driving
      <3>2. CASE h \notin DOMAIN s.gen
        <4>1. h \in 1 .. Len(s.gen) + 1
          BY DEF RunJoins
        <4>2. h = Len(s.gen) + 1
          BY <1>1, <3>2, <4>1
        <4> QED
          BY <1>7, <4>2
      <3> QED
        BY <3>1, <3>2
    <2>2. /\ Len(s.gen) + 1 \in DOMAIN t.gen
          /\ t.gen[Len(s.gen) + 1].conversation = c /\ Alive(t, Len(s.gen) + 1)
      BY <1>1 DEF RunJoins
    <2> QED
      BY <1>7, <2>1, <2>2 DEF GenSound
  <1>12. ResetSound(t, c)
    BY <1>2, <1>3 DEF Sound, ResetSound
  <1>13. OfIn(t, c) # {} => Born(t, c)
    BY <1>2 DEF Sound, Born, RunJoins
  <1>14. CutOff(t, c, Inputs(t, c))
    BY <1>2, <1>3, <1>5, <1>6 DEF CutOff
  <1>15. Handed(t, c, Inputs(t, c))
    <2>1. ASSUME NEW first \in RunsIn(t, c)
          PROVE  /\ first \in RunsIn(s, c)
                 /\ first \in Inputs(t, c) <=> first \in Inputs(s, c)
      <3>1. first \in OfIn(s, c) /\ t.sub[first].run = first
        BY <1>2 DEF RunsIn
      <3>2. first \notin ToSet(users)
        BY <1>3, <1>5, <1>6, <3>1
      <3> QED
        BY <1>3, <1>6, <3>1, <3>2 DEF RunsIn
    <2>2. CASE Parent[c] # NoConversation
      <3>1. KeepsSub(s, t) /\ t.lifecycle = s.lifecycle
        BY DEF RunJoins
      <3>2. ASSUME NEW i \in InState(t, c, "placed"), t.sub[i].draft.from.what = "continue"
            PROVE  t.doc[c].continued = i
        <4>1. i \in InState(s, c, "placed") /\ s.sub[i].draft.from.what = "continue"
          BY <1>3, <1>4, <1>5, <3>2
        <4> QED
          BY <2>2, <4>1 DEF Handed, HandedBack, RunJoins
      <3>3. \A first \in RunsIn(t, c) :
               IF first \in RunsIn(s, c)
               THEN first \in Inputs(t, c) <=> first \in Inputs(s, c)
               ELSE first \in Inputs(t, c)
        BY <2>1
      <3> QED
        BY <1>1, <3>1, <3>2, <3>3, KeptHanded
    <2>3. CASE Parent[c] = NoConversation
      BY <2>3 DEF Handed
    <2> QED
      BY <2>2, <2>3
  <1>16. Busy(t, c)
    BY <1>7 DEF Busy
  <1>17. Served(t, c)
    <2>1. Served(s, c) /\ ToSet(s.inbox[c]) \subseteq OfIn(s, c) /\ t.inbox[c] = s.inbox[c]
      BY DEF Sound, InboxSound, InState, RunJoins
    <2>2. ASSUME NEW i \in OfIn(s, c) PROVE ServedWell(t.sub[i])
      <3>1. i \in ToSet(users) => s.sub[i].status = "placed"
        BY <1>5 DEF InState
      <3>2. ServedWell(s.sub[i])
        BY <2>1 DEF Served
      <3> QED
        BY <1>3, <3>1, <3>2 DEF ServedWell
    <2> QED
      BY <1>2, <1>3, <2>1, <2>2, ServedStays
  <1> QED
    BY <1>7, <1>8, <1>9, <1>10, <1>11, <1>12, <1>13, <1>14, <1>15, <1>16, <1>17
       DEF Resting, Sound

\* The tools of a round are over.
LEMMA EndRound ==
    ASSUME NEW s, WellFormed(s), Named(s), NEW c \in Conversation, OthersRest(s, c),
           NEW g, Driving(s, c, g), AtRest(s, c), NEW modes
    PROVE  Ended(s, RoundFinished(s, g, modes), c, g)
  <1>1. PICK b : b = ApplyBoundary(s, c, "postTools", modes)
    OBVIOUS
  <1>2. PICK m : m = b.db
    OBVIOUS
  <1>3. PICK first : first = First(s, c)
    OBVIOUS
  <1>4. RoundFinished(s, g, modes) =
          IF b.reset THEN StartRun(EndRun(m, g, "unanswered", modes), c, b.users)
          ELSE JoinRun(CreateGeneration(m, c, first), c, b.users)
    BY <1>1, <1>2, <1>3 DEF RoundFinished, Driving, Drives, First
  <1>5. BoundaryGives(s, c, b, "postTools", g, Inputs(s, c))
    <2>1. Sound(s, c, {}, g) /\ Handed(s, c, Inputs(s, c))
      BY SoundWhile DEF AtRest, Resting, WellFormed
    <2> QED
      BY <1>1, <2>1, BoundaryWithin
  <1>6. CASE b.reset
    <2>1. Ended(s, StartRun(EndRun(b.db, g, "unanswered", modes), c, b.users), c, g)
      BY <1>5, <1>6, EndPlaced
    <2> QED
      BY <1>2, <1>4, <1>6, <2>1
  <1>7. CASE ~b.reset
    <2>1. PICK t : t = JoinRun(CreateGeneration(m, c, first), c, b.users)
      OBVIOUS
    <2>2. PICK users \in Seq(Nat) : users = b.users
      BY <1>5 DEF BoundaryGives
    <2>3. /\ Within(s, m, c) /\ m.run = s.run /\ m.gen = s.gen
          /\ IsInjective(users) /\ Sound(m, c, ToSet(users), g)
          /\ Handed(m, c, Inputs(s, c))
          /\ CutOff(m, c, Inputs(m, c) \cup ToSet(users))
      <3>1. CutOff(s, c, Inputs(s, c))
        BY DEF AtRest, Resting
      <3> QED
        BY <1>2, <1>5, <1>7, <2>2, <3>1 DEF BoundaryGives
    <2>4. /\ WellFormed(m) /\ Named(m) /\ Driving(m, c, g) /\ Inputs(m, c) = Inputs(s, c)
          /\ First(m, c) = First(s, c)
      BY <2>3 DEF Within, Driving, Busy, Inputs, First
    <2>5. WellFormed(t) /\ RunJoins(m, t, c, users)
      <3>1. /\ ToSet(users) \subseteq OfIn(m, c)
            /\ \A i \in ToSet(users) :
                 m.sub[i].run = NoSubmission /\ m.sub[i].status = "placed"
        <4>1. ToSet(users) \subseteq InState(m, c, "placed")
          BY <2>3 DEF Sound, RunSound
        <4> QED
          BY <2>3, <4>1 DEF Sound, RunSound, InState
      <3>2. m.run[c].inputs # <<>>
        BY <2>3, <2>4 DEF Sound, RunSound, Driving, Busy
      <3>3. t = JoinRun(CreateGeneration(m, c, first), c, users) /\ first = First(m, c)
        BY <1>3, <2>1, <2>2, <2>4
      <3> QED
        BY <2>4, <3>1, <3>2, <3>3, JoinRunDoes
    <2>6. Named(t) /\ Resting(t, c, g) /\ t.run[c].task # g
      <3>1. Handed(m, c, Inputs(m, c))
        BY <2>3, <2>4
      <3> QED
        BY <2>3, <2>4, <2>5, <3>1, RunJoinsSound
    <2>7. OthersRest(t, c)
      <3>1. OthersRest(m, c)
        BY <2>3, RestOthers DEF Within
      <3> QED
        BY <2>5, <3>1, RestOthers DEF RunJoins
    <2>8. Onward(s, t)
      <3>1. m.lifecycle = s.lifecycle
        BY <2>3 DEF Within
      <3>2. ASSUME NEW e \in Conversation, s.lifecycle[e] # "active", ~Busy(s, e)
            PROVE  ~Busy(t, e)
        <4>1. e # c
          BY <3>2 DEF Driving
        <4>2. Same(s, m, e) /\ Same(m, t, e)
          BY <2>3, <2>5, <4>1 DEF Within, Others, RunJoins
        <4> QED
          BY <3>2, <4>2, SameState
      <3>3. DOMAIN m.gen \subseteq DOMAIN t.gen
        <4>1. DOMAIN m.gen = 1 .. Len(m.gen) /\ Len(m.gen) \in Nat
          BY <2>4, Fields DEF WellFormed
        <4> QED
          BY <2>5, <4>1 DEF RunJoins
      <3>4. Grows(s, m) /\ Grows(m, t)
        BY <2>3, <2>5 DEF Grows, Within, KeepsSub, RunJoins
      <3>5. Grows(s, t)
        BY <3>4, GrowsTwice
      <3> QED
        BY <2>3, <2>5, <2>6, <3>1, <3>2, <3>3, <3>5 DEF Onward, RunJoins
    <2> QED
      BY <1>4, <1>7, <2>1, <2>6, <2>7, <2>8 DEF Ended
  <1> QED
    BY <1>6, <1>7

-----------------------------------------------------------------------------
(* The steps of the program, from one commit to the next. *)

\* A commit keeps what there is, and starts no run in a session that is being deleted.
Moves(s, t) ==
    /\ AllRest(t)
    /\ Grows(s, t) /\ DOMAIN s.gen \subseteq DOMAIN t.gen
    /\ t.lifecycle = s.lifecycle
    /\ \A e \in Conversation :
         Parent[e] = NoConversation /\ s.lifecycle[e] # "active" /\ ~Busy(s, e) => ~Busy(t, e)

\* Only generations change, and the rounds of a run; g is over.
GensChange(s, t, g) ==
    /\ t.sub = s.sub /\ t.inbox = s.inbox /\ t.doc = s.doc /\ t.lifecycle = s.lifecycle
    /\ DOMAIN t.gen = DOMAIN s.gen
    /\ \A h \in DOMAIN s.gen :
         /\ t.gen[h].conversation = s.gen[h].conversation
         /\ h # g => (Alive(t, h) <=> Alive(s, h))
         /\ h = g => ~Alive(t, h)
    /\ \A e \in Conversation :
         /\ t.run[e].task = s.run[e].task /\ t.run[e].inputs = s.run[e].inputs
         /\ Busy(t, e) <=> Busy(s, e)

\* Every conversation stays at rest when nothing but generations and rounds change.
LEMMA GensRest ==
    ASSUME NEW s, WellFormed(s), Named(s), NEW t, WellFormed(t), NEW g, GensChange(s, t, g),
           \A e \in Conversation : Resting(s, e, g) /\ (Busy(s, e) => s.run[e].task # g)
    PROVE  Moves(s, t)
  <1>1. Named(t)
    BY SMTT(30) DEF Named, GensChange
  <1>2. ASSUME NEW c \in Conversation
        PROVE  AtRest(t, c)
    <2>1. OfIn(t, c) = OfIn(s, c) /\ (Born(t, c) <=> Born(s, c))
          /\ Inputs(t, c) = Inputs(s, c) /\ First(t, c) = First(s, c)
          /\ (Busy(t, c) <=> Busy(s, c))
          /\ \A status : InState(t, c, status) = InState(s, c, status)
          /\ \A i : (IsWrite(t, i) <=> IsWrite(s, i)) /\ (IsReset(t, i) <=> IsReset(s, i))
      BY DEF OfIn, Born, Inputs, First, InState, IsWrite, IsReset, GensChange
    <2>2. Sound(s, c, {}, g) /\ CutOff(s, c, Inputs(s, c)) /\ Handed(s, c, Inputs(s, c))
          /\ (~Busy(s, c) => s.inbox[c] = <<>>)
      BY DEF Resting
    <2>3. InboxSound(t, c)
      BY <2>1, <2>2 DEF Sound, InboxSound, GensChange
    <2>4. RunSound(t, c, {})
      <3>1. t.run[c].inputs = <<>> <=> t.run[c] = NoRun
        BY <2>1, <2>2 DEF Sound, RunSound, GensChange, Busy
      <3> QED
        BY <2>1, <2>2, <3>1 DEF Sound, RunSound, GensChange
    <2>5. GenSound(t, c, NoTask)
      <3>1. ASSUME NEW h \in DOMAIN t.gen, t.gen[h].conversation = c, Alive(t, h)
            PROVE  t.run[c].task = h
        BY <2>2, <3>1 DEF Sound, GenSound, GensChange
      <3>2. Busy(t, c) => /\ t.run[c].task \in DOMAIN t.gen
                          /\ t.gen[t.run[c].task].conversation = c
                          /\ Alive(t, t.run[c].task)
        BY <2>1, <2>2 DEF Sound, GenSound, GensChange
      <3> QED
        BY <3>1, <3>2 DEF GenSound
    <2>6. ResetSound(t, c)
      BY <2>1, <2>2 DEF Sound, ResetSound, GensChange
    <2>7. CutOff(t, c, Inputs(t, c))
      BY <2>1, <2>2 DEF CutOff, GensChange
    <2>8. Handed(t, c, Inputs(t, c))
      BY <2>1, <2>2 DEF Handed, HandedBack, RunsIn, After, FromIn, GensChange
    <2>9. ~Busy(t, c) => t.inbox[c] = <<>>
      BY <2>1, <2>2 DEF GensChange
    <2>10. Served(t, c)
      <3>1. Served(s, c) /\ ToSet(s.inbox[c]) \subseteq OfIn(s, c)
        BY <2>2 DEF Sound, InboxSound, InState
      <3>2. t.sub = s.sub /\ t.inbox[c] = s.inbox[c] /\ OfIn(t, c) = OfIn(s, c)
        BY <2>1 DEF GensChange
      <3>3. \A i \in OfIn(s, c) : ServedWell(t.sub[i])
        BY <3>1, <3>2 DEF Served
      <3> QED
        BY <3>1, <3>2, <3>3, ServedStays
    <2> QED
      BY <2>1, <2>2, <2>3, <2>4, <2>5, <2>6, <2>7, <2>8, <2>9, <2>10 DEF AtRest, Resting, Sound
  <1>3. Grows(s, t)
    <2>1. t.sub = s.sub
      BY DEF GensChange
    <2>2. Goes(s, t)
      BY <2>1, GoesStill
    <2> QED
      BY <2>1, <2>2 DEF Grows
  <1> QED
    BY <1>1, <1>2, <1>3 DEF Moves, AllRest, GensChange

\* The generation that has ended its run is over.
LEMMA GenerationEnds ==
    ASSUME NEW s, AllRest(s), NEW c \in Conversation, NEW x, NEW g, Driving(s, c, g),
           Ended(s, x, c, g)
    PROVE  Moves(s, GenerationOver(x, g))
  <1>1. PICK t : t = GenerationOver(x, g)
    OBVIOUS
  <1>2. WellFormed(x) /\ Named(x) /\ x \in Database /\ g \in DOMAIN x.gen
        /\ x.gen[g].conversation = c
    BY DEF Ended, Onward, Driving, WellFormed
  <1>3. PICK over : over = [x.gen[g] EXCEPT !.phase = "over", !.marked = FALSE]
    OBVIOUS
  <1>4. PICK gen : gen = [x.gen EXCEPT ![g] = over]
    OBVIOUS
  <1>5. t = Base(x.sub, gen, x.inbox, x.run, x.head, x.entries, x.doc, x.lifecycle)
    <2>1. PICK k : k = [x EXCEPT !.gen[g].phase = "over"]
      OBVIOUS
    <2>2. t = [k EXCEPT !.gen[g].marked = FALSE]
      BY <1>1, <2>1 DEF GenerationOver
    <2>3. PICK first : first = [x.gen[g] EXCEPT !.phase = "over"]
      OBVIOUS
    <2>4. k = Base(x.sub, [x.gen EXCEPT ![g] = first], x.inbox, x.run, x.head, x.entries,
                   x.doc, x.lifecycle)
      BY <1>2, <2>1, <2>3 DEF Database, Base
    <2>5. over = [first EXCEPT !.marked = FALSE]
      BY <1>3, <2>3
    <2>6. [x.gen EXCEPT ![g] = first][g] = first
      BY <1>2
    <2>7. [[x.gen EXCEPT ![g] = first] EXCEPT ![g] = over] = gen
      BY <1>4
    <2> QED
      BY <2>2, <2>4, <2>5, <2>6, <2>7 DEF Base
  <1>6. /\ t.sub = x.sub /\ t.gen = gen /\ t.inbox = x.inbox /\ t.run = x.run /\ t.head = x.head
        /\ t.entries = x.entries /\ t.doc = x.doc /\ t.lifecycle = x.lifecycle
    BY <1>5 DEF Base
  <1>7. over \in GenerationRecord /\ over.conversation = c /\ over.phase = "over"
    <2>1. x.gen[g] \in GenerationRecord
      BY <1>2, Fields
    <2> QED
      BY <1>2, <1>3, <2>1 DEF GenerationRecord
  <1>8. /\ gen \in Seq(GenerationRecord) /\ DOMAIN gen = DOMAIN x.gen /\ gen[g] = over
        /\ \A h \in DOMAIN x.gen : h # g => gen[h] = x.gen[h]
    <2>1. x.gen \in Seq(GenerationRecord)
      BY <1>2, Fields
    <2> QED
      BY <1>2, <1>4, <1>7, <2>1
  <1>9. WellFormed(t)
    <2>1. t \in Database
      BY <1>2, <1>5, <1>8, Fields DEF Base, Database
    <2> QED
      BY <1>2, <1>6, <2>1 DEF WellFormed
  <1>10. GensChange(x, t, g)
    BY <1>2, <1>6, <1>7, <1>8 DEF GensChange, Alive, Busy
  <1>11. ASSUME NEW e \in Conversation
         PROVE  Resting(x, e, g) /\ (Busy(x, e) => x.run[e].task # g)
    <2>1. CASE e = c
      BY <2>1 DEF Ended
    <2>2. CASE e # c
      <3>1. AtRest(x, e)
        BY <2>2 DEF Ended, OthersRest
      <3>2. Resting(x, e, g)
        BY <1>2, <3>1, SoundWhile DEF AtRest, Resting
      <3>3. Busy(x, e) => x.run[e].task # g
        BY <1>2, <2>2, <3>1 DEF AtRest, Resting, Sound, GenSound
      <3> QED
        BY <3>2, <3>3
    <2> QED
      BY <2>1, <2>2
  <1>12. Moves(x, t)
    BY <1>2, <1>9, <1>10, <1>11, GensRest
  <1>13. Grows(s, t)
    <2>1. Grows(s, x) /\ Grows(x, t)
      BY <1>12 DEF Moves, Ended, Onward
    <2> QED
      BY <2>1, GrowsTwice
  <1> QED
    BY <1>1, <1>12, <1>13 DEF Moves, Ended, Onward

\* Two moves, one after the other, are a move.
LEMMA MovesTwice ==
    ASSUME NEW s, NEW t, NEW u, Moves(s, t), Moves(t, u)
    PROVE  Moves(s, u)
  BY GrowsTwice DEF Moves

\* A task's document changes between two runs.
LEMMA DocMoves ==
    ASSUME NEW s, AllRest(s), NEW c \in Conversation,
           NEW doc \in TaskDoc, doc.contracts \subseteq DOMAIN s.sub,
           s.doc[c].born => doc.born, doc.continued = s.doc[c].continued,
           NEW t, t = [s EXCEPT !.doc[c] = doc]
    PROVE  Moves(s, t)
  <1>1. DocIs(s, t, c, doc)
    BY DocChanges DEF AllRest
  <1>2. /\ WellFormed(t) /\ Named(t) /\ KeepsSub(s, t) /\ Others(s, t, c)
        /\ t.sub = s.sub /\ t.gen = s.gen /\ t.inbox = s.inbox /\ t.run = s.run
        /\ t.lifecycle = s.lifecycle /\ t.doc[c] = doc
    BY <1>1 DEF DocIs
  <1>3. OthersRest(t, c)
    BY <1>2, RestOthers DEF AllRest, OthersRest
  <1>4. AtRest(t, c)
    <2>1. OfIn(t, c) = OfIn(s, c) /\ (Born(s, c) => Born(t, c))
          /\ Inputs(t, c) = Inputs(s, c) /\ First(t, c) = First(s, c)
          /\ (Busy(t, c) <=> Busy(s, c))
          /\ \A status : InState(t, c, status) = InState(s, c, status)
          /\ \A i : (IsWrite(t, i) <=> IsWrite(s, i)) /\ (IsReset(t, i) <=> IsReset(s, i))
      BY <1>2 DEF OfIn, Born, Inputs, First, Busy, InState, IsWrite, IsReset
    <2>2. /\ Sound(s, c, {}, NoTask) /\ CutOff(s, c, Inputs(s, c)) /\ Handed(s, c, Inputs(s, c))
          /\ ~Busy(s, c) => s.inbox[c] = <<>>
      BY DEF AllRest, AtRest, Resting
    <2>3. InboxSound(t, c)
      BY <1>2, <2>1, <2>2 DEF Sound, InboxSound
    <2>4. RunSound(t, c, {})
      BY <1>2, <2>1, <2>2 DEF Sound, RunSound
    <2>5. GenSound(t, c, NoTask)
      BY <1>2, <2>1, <2>2 DEF Sound, GenSound, Alive
    <2>6. ResetSound(t, c)
      BY <1>2, <2>1, <2>2 DEF Sound, ResetSound
    <2>7. CutOff(t, c, Inputs(t, c))
      BY <1>2, <2>1, <2>2 DEF CutOff
    <2>8. Handed(t, c, Inputs(t, c))
      BY <1>2, <2>1, <2>2, SMTT(30) DEF Handed, HandedBack, RunsIn, After, FromIn
    <2>9. Served(t, c)
      <3>1. Served(s, c) /\ ToSet(s.inbox[c]) \subseteq OfIn(s, c)
        BY <2>2 DEF Sound, InboxSound, InState
      <3>2. \A i \in OfIn(s, c) : ServedWell(t.sub[i])
        BY <1>2, <3>1 DEF Served
      <3> QED
        BY <1>2, <2>1, <3>1, <3>2, ServedStays
    <2> QED
      BY <1>2, <2>1, <2>2, <2>3, <2>4, <2>5, <2>6, <2>7, <2>8, <2>9 DEF AtRest, Resting, Sound
  <1>5. Grows(s, t)
    BY <1>2 DEF KeepsSub, Grows
  <1> QED
    BY <1>2, <1>3, <1>4, <1>5 DEF Moves, AllRest, OthersRest, Busy

\* A submission of a client or of the task tool is admitted.
LEMMA AdmitMoves ==
    ASSUME NEW s, AllRest(s), NEW t, NEW c \in Conversation, NEW draft,
           AdmitGives(s, t, c, draft), draft.from.what # "result",
           Parent[c] # NoConversation \/ s.lifecycle[c] = "active"
    PROVE  Moves(s, t)
  <1>1. /\ WellFormed(t) /\ Named(t) /\ AtRest(t, c) /\ Others(s, t, c) /\ Grows(s, t)
        /\ t.lifecycle = s.lifecycle /\ DOMAIN s.gen \subseteq DOMAIN t.gen
        /\ \A e \in Conversation \ {c} : \A open : Handed(s, e, open) => Handed(t, e, open)
    BY DEF AdmitGives, Leaves
  <1>2. ASSUME NEW e \in Conversation \ {c}
        PROVE  AtRest(t, e) /\ (Busy(t, e) <=> Busy(s, e))
    <2>1. Same(s, t, e) /\ AtRest(s, e)
      BY <1>1 DEF Others, AllRest
    <2>2. Handed(s, e, Inputs(s, e)) => Handed(t, e, Inputs(s, e))
      BY <1>1
    <2> QED
      BY <2>1, <2>2, SameRest, SameState
  <1> QED
    BY <1>1, <1>2 DEF Moves, AllRest

\* What the task tool submits may bring a contract.
LEMMA ContractMoves ==
    ASSUME NEW s, AllRest(s), NEW t, NEW c \in Conversation, NEW draft,
           AdmitGives(s, t, c, draft), draft.from.what = "task",
           draft.kind = "input", draft.mode # "reject",
           Parent[c] # NoConversation
    PROVE  Moves(s, WithContract(t, c, draft))
  <1>1. Moves(s, t)
    BY AdmitMoves
  <1>2. CASE ~draft.contract
    BY <1>1, <1>2 DEF WithContract
  <1>3. CASE draft.contract
    <2>1. PICK n : n = Len(t.sub)
      OBVIOUS
    <2>2. PICK doc : doc = [t.doc[c] EXCEPT !.contracts = @ \cup {n}]
      OBVIOUS
    <2>3. PICK u : u = [t EXCEPT !.doc[c] = doc]
      OBVIOUS
    <2>4. n \in DOMAIN t.sub /\ n \in Nat
      <3>1. n \in DOMAIN t.sub
        BY <2>1 DEF AdmitGives
      <3>2. t \in Database
        BY DEF AdmitGives, WellFormed
      <3> QED
        BY <3>1, <3>2, Fields
    <2>5. /\ doc \in TaskDoc /\ doc.contracts \subseteq DOMAIN t.sub
          /\ doc.born = t.doc[c].born /\ doc.continued = t.doc[c].continued
      <3>1. t.doc[c] \in TaskDoc /\ t.doc[c].contracts \subseteq DOMAIN t.sub
            /\ t.doc[c].contracts \in SUBSET Nat
        BY <1>1, Fields DEF Moves, AllRest, WellFormed
      <3> QED
        BY <2>2, <2>4, <3>1 DEF TaskDoc
    <2>6. Moves(t, u)
      BY <1>1, <2>3, <2>5, DocMoves DEF Moves
    <2>7. u = WithContract(t, c, draft)
      BY <1>3, <2>1, <2>2, <2>3 DEF WithContract
    <2> QED
      BY <1>1, <2>6, <2>7, MovesTwice
  <1> QED
    BY <1>2, <1>3

\* Tasks are marked.
LEMMA MarkMoves ==
    ASSUME NEW s, AllRest(s), NEW tasks
    PROVE  Moves(s, Mark(s, tasks)) /\ DOMAIN Mark(s, tasks).gen = DOMAIN s.gen
  <1>1. PICK t : t = Mark(s, tasks)
    OBVIOUS
  <1>2. s \in Database /\ WellFormed(s) /\ Named(s)
    BY DEF AllRest, WellFormed
  <1>3. PICK gen : gen = [g \in DOMAIN s.gen |->
                            IF g \in tasks /\ Alive(s, g) THEN [s.gen[g] EXCEPT !.marked = TRUE]
                            ELSE s.gen[g]]
    OBVIOUS
  <1>4. t = Base(s.sub, gen, s.inbox, s.run, s.head, s.entries, s.doc, s.lifecycle)
    BY <1>1, <1>2, <1>3 DEF Mark, Database, Base
  <1>5. /\ t.sub = s.sub /\ t.gen = gen /\ t.inbox = s.inbox /\ t.run = s.run /\ t.head = s.head
        /\ t.entries = s.entries /\ t.doc = s.doc /\ t.lifecycle = s.lifecycle
    BY <1>4 DEF Base
  <1>6. ASSUME NEW g \in DOMAIN s.gen
        PROVE  /\ gen[g] \in GenerationRecord
               /\ gen[g].conversation = s.gen[g].conversation
               /\ gen[g].phase = s.gen[g].phase
    <2>1. s.gen[g] \in GenerationRecord
      BY <1>2, Fields
    <2>2. CASE g \in tasks /\ Alive(s, g)
      <3>1. gen[g] = [s.gen[g] EXCEPT !.marked = TRUE]
        BY <1>3, <2>2
      <3> QED
        BY <2>1, <3>1 DEF GenerationRecord
    <2>3. CASE ~(g \in tasks /\ Alive(s, g))
      <3>1. gen[g] = s.gen[g]
        BY <1>3, <2>3
      <3> QED
        BY <2>1, <3>1
    <2> QED
      BY <2>2, <2>3
  <1>7. gen \in Seq(GenerationRecord) /\ DOMAIN gen = DOMAIN s.gen
    <2>1. DOMAIN s.gen = 1 .. Len(s.gen) /\ Len(s.gen) \in Nat
      BY <1>2, Fields
    <2>2. gen = [i \in 1 .. Len(s.gen) |-> gen[i]] /\ DOMAIN gen = DOMAIN s.gen
      BY <1>3, <2>1
    <2>3. \A i \in 1 .. Len(s.gen) : gen[i] \in GenerationRecord
      BY <1>6, <2>1
    <2>4. gen \in Seq(GenerationRecord)
      BY <2>1, <2>2, <2>3, SeqOfAll
    <2> QED
      BY <2>2, <2>4
  <1>8. WellFormed(t)
    <2>1. t \in Database
      BY <1>2, <1>4, <1>7, Fields DEF Base, Database
    <2> QED
      BY <1>2, <1>5, <2>1 DEF WellFormed
  <1>9. NoTask \notin DOMAIN s.gen
    BY <1>2, Fields DEF NoTask
  <1>10. GensChange(s, t, NoTask)
    BY <1>5, <1>6, <1>7, <1>9 DEF GensChange, Alive, Busy
  <1>11. ASSUME NEW e \in Conversation
         PROVE  Resting(s, e, NoTask) /\ (Busy(s, e) => s.run[e].task # NoTask)
    BY <1>9 DEF AllRest, AtRest, Resting, Sound, GenSound
  <1>12. Moves(s, t)
    BY <1>2, <1>8, <1>10, <1>11, GensRest
  <1> QED
    BY <1>1, <1>5, <1>7, <1>12

\* The model calls tools.
InRound(s, c, g) == [s EXCEPT !.gen[g].phase = "tools", !.run[c].rounds = @ + 1]

\* A generation whose model calls tools has its round counted, and all stay at rest.
LEMMA RoundMoves ==
    ASSUME NEW s, AllRest(s), NEW g \in DOMAIN s.gen, Alive(s, g),
           NEW c \in Conversation, c = s.gen[g].conversation, s.run[c].rounds < MaxRounds
    PROVE  Moves(s, InRound(s, c, g))
  <1>1. s \in Database /\ WellFormed(s) /\ Named(s) /\ s.run[c] \in RunRecord
        /\ s.gen[g] \in GenerationRecord
    BY Fields DEF AllRest, WellFormed
  <1>2. PICK t : t = InRound(s, c, g)
    OBVIOUS
  <1>3. Busy(s, c)
    BY <1>1, AliveDrives DEF AllRest, Driving
  <1>4. PICK now : now = [s.gen[g] EXCEPT !.phase = "tools"]
    OBVIOUS
  <1>5. PICK gen : gen = [s.gen EXCEPT ![g] = now]
    OBVIOUS
  <1>6. PICK more : more = [s.run[c] EXCEPT !.rounds = @ + 1]
    OBVIOUS
  <1>7. PICK run : run = [s.run EXCEPT ![c] = more]
    OBVIOUS
  <1>8. t = Base(s.sub, gen, s.inbox, run, s.head, s.entries, s.doc, s.lifecycle)
    <2>1. PICK k : k = [s EXCEPT !.gen[g].phase = "tools"]
      OBVIOUS
    <2>2. t = [k EXCEPT !.run[c].rounds = @ + 1]
      BY <1>2, <2>1 DEF InRound
    <2>3. k = Base(s.sub, gen, s.inbox, s.run, s.head, s.entries, s.doc, s.lifecycle)
      BY <1>1, <1>4, <1>5, <2>1 DEF Database, Base
    <2> QED
      BY <1>6, <1>7, <2>2, <2>3 DEF Base
  <1>9. /\ t.sub = s.sub /\ t.gen = gen /\ t.inbox = s.inbox /\ t.run = run /\ t.head = s.head
        /\ t.entries = s.entries /\ t.doc = s.doc /\ t.lifecycle = s.lifecycle
    BY <1>8 DEF Base
  <1>10. /\ now \in GenerationRecord /\ now.conversation = c /\ now.phase = "tools"
        /\ gen \in Seq(GenerationRecord) /\ DOMAIN gen = DOMAIN s.gen /\ gen[g] = now
        /\ \A h \in DOMAIN s.gen : h # g => gen[h] = s.gen[h]
    <2>1. now \in GenerationRecord /\ now.conversation = c /\ now.phase = "tools"
      BY <1>1, <1>4 DEF GenerationRecord
    <2>2. s.gen \in Seq(GenerationRecord)
      BY <1>1, Fields
    <2> QED
      BY <1>5, <2>1, <2>2
  <1>11. /\ more \in RunRecord /\ more.task = s.run[c].task /\ more.inputs = s.run[c].inputs
         /\ more.rounds # 0
    <2>1. s.run[c].rounds \in 0 .. MaxRounds /\ MaxRounds \in Nat
      BY <1>1, BoundsAssumption DEF RunRecord
    <2>2. s.run[c].rounds + 1 \in 0 .. MaxRounds /\ s.run[c].rounds + 1 # 0
      BY <2>1
    <2> QED
      BY <1>1, <1>6, <2>2 DEF RunRecord
  <1>12. /\ run \in [Conversation -> RunRecord] /\ run[c] = more
         /\ \A e \in Conversation : e # c => run[e] = s.run[e]
    BY <1>1, <1>7, <1>11, Fields
  <1>13. WellFormed(t)
    <2>1. t \in Database
      BY <1>1, <1>8, <1>10, <1>12, Fields DEF Base, Database
    <2> QED
      BY <1>1, <1>9, <2>1 DEF WellFormed
  <1>14. NoTask \notin DOMAIN s.gen
    BY <1>1, Fields DEF NoTask
  <1>15. more # NoRun
    <2>1. NoRun.rounds = 0
      BY DEF NoRun
    <2> QED
      BY <1>11, <2>1
  <1>16. GensChange(s, t, NoTask)
    <2>1. \A h \in DOMAIN s.gen :
            /\ gen[h].conversation = s.gen[h].conversation
            /\ gen[h].phase # "over" <=> s.gen[h].phase # "over"
      BY <1>10 DEF Alive
    <2>2. ASSUME NEW e \in Conversation
          PROVE  /\ run[e].task = s.run[e].task /\ run[e].inputs = s.run[e].inputs
                 /\ run[e] # NoRun <=> s.run[e] # NoRun
      BY <1>3, <1>11, <1>12, <1>15 DEF Busy
    <2> QED
      BY <1>9, <1>10, <1>14, <2>1, <2>2 DEF GensChange, Alive, Busy
  <1>17. ASSUME NEW e \in Conversation
         PROVE  Resting(s, e, NoTask) /\ (Busy(s, e) => s.run[e].task # NoTask)
    BY <1>14 DEF AllRest, AtRest, Resting, Sound, GenSound
  <1> QED
    BY <1>1, <1>13, <1>16, <1>17, <1>2, GensRest

\* What stays is a move.
LEMMA MovesStill ==
    ASSUME NEW s, AllRest(s)
    PROVE  Moves(s, s)
  <1>1. Goes(s, s)
    BY GoesStill
  <1> QED
    BY <1>1 DEF Moves, Grows

\* An input that is still queued is withdrawn.
LEMMA WithdrawMoves ==
    ASSUME NEW s, AllRest(s), NEW i \in DOMAIN s.sub, ~IsWrite(s, i)
    PROVE  Moves(s, Withdraw(s, i))
  <1>1. s \in Database /\ WellFormed(s) /\ Named(s) /\ s.sub[i] \in SubmissionRecord
    BY Fields DEF AllRest, WellFormed
  <1>2. CASE s.sub[i].status # "queued"
    BY <1>2, MovesStill DEF Withdraw
  <1>3. CASE s.sub[i].status = "queued"
    <2>1. PICK c \in Conversation : c = s.sub[i].conversation
      BY <1>1 DEF SubmissionRecord
    <2>2. PICK t : t = Withdraw(s, i)
      OBVIOUS
    <2>3. PICK record : record = [s.sub[i] EXCEPT !.status = "withdrawn"]
      OBVIOUS
    <2>4. PICK sub : sub = [s.sub EXCEPT ![i] = record]
      OBVIOUS
    <2>5. PICK rest : rest = ToSet(s.inbox[c]) \ {i}
      OBVIOUS
    <2>6. PICK inbox : inbox = [s.inbox EXCEPT ![c] = Only(s.inbox[c], rest)]
      OBVIOUS
    <2>7. t = Base(sub, s.gen, inbox, s.run, s.head, s.entries, s.doc, s.lifecycle)
      <3>1. PICK k : k = [s EXCEPT !.sub[i].status = "withdrawn"]
        OBVIOUS
      <3>2. t = [k EXCEPT !.inbox[c] = Only(s.inbox[c], rest)]
        <4>1. k.inbox = s.inbox
          BY <1>1, <3>1 DEF Database
        <4> QED
          BY <1>3, <2>1, <2>2, <2>5, <3>1, <4>1 DEF Withdraw
      <3>3. k = Base(sub, s.gen, s.inbox, s.run, s.head, s.entries, s.doc, s.lifecycle)
        BY <1>1, <2>3, <2>4, <3>1 DEF Database, Base
      <3> QED
        BY <2>6, <3>2, <3>3 DEF Base
    <2>8. /\ t.sub = sub /\ t.gen = s.gen /\ t.inbox = inbox /\ t.run = s.run /\ t.head = s.head
          /\ t.entries = s.entries /\ t.doc = s.doc /\ t.lifecycle = s.lifecycle
      BY <2>7 DEF Base
    <2>9. /\ record \in SubmissionRecord /\ record.conversation = c
          /\ record.status = "withdrawn" /\ record.draft = s.sub[i].draft
          /\ record.target = s.sub[i].target /\ record.entry = s.sub[i].entry
          /\ record.run = s.sub[i].run
      BY <1>1, <2>1, <2>3 DEF SubmissionRecord
    <2>10. /\ sub \in Seq(SubmissionRecord) /\ DOMAIN sub = DOMAIN s.sub /\ sub[i] = record
           /\ \A j \in DOMAIN s.sub : j # i => sub[j] = s.sub[j]
      <3>1. s.sub \in Seq(SubmissionRecord)
        BY <1>1, Fields
      <3> QED
        BY <2>4, <2>9, <3>1
    <2>11. \A j \in DOMAIN s.sub :
             /\ sub[j].conversation = s.sub[j].conversation /\ sub[j].draft = s.sub[j].draft
             /\ sub[j].target = s.sub[j].target /\ sub[j].entry = s.sub[j].entry
             /\ sub[j].run = s.sub[j].run
      BY <2>1, <2>9, <2>10
    <2>12. /\ s.inbox[c] \in Seq(Nat) /\ inbox[c] \in Seq(Nat)
           /\ ToSet(inbox[c]) = ToSet(s.inbox[c]) \ {i}
           /\ Ascending(s.inbox[c]) => Ascending(inbox[c])
           /\ inbox \in [Conversation -> Seq(Nat)]
           /\ \A e \in Conversation : e # c => inbox[e] = s.inbox[e]
      <3>1. s.inbox \in [Conversation -> Seq(Nat)] /\ s.inbox[c] \in Seq(Nat)
        BY <1>1, Fields
      <3>2. inbox[c] = Only(s.inbox[c], rest)
        BY <2>6, <3>1
      <3>3. /\ Only(s.inbox[c], rest) \in Seq(Nat)
            /\ ToSet(Only(s.inbox[c], rest)) = ToSet(s.inbox[c]) \cap rest
            /\ Ascending(s.inbox[c]) => Ascending(Only(s.inbox[c], rest))
        BY <3>1, OnlyKeeps
      <3>4. ToSet(s.inbox[c]) \cap rest = ToSet(s.inbox[c]) \ {i}
        BY <2>5
      <3> QED
        BY <2>6, <3>1, <3>2, <3>3, <3>4
    <2>13. WellFormed(t)
      <3>1. t \in Database
        BY <1>1, <2>7, <2>10, <2>12, Fields DEF Base, Database
      <3> QED
        BY <1>1, <2>8, <2>10, <2>11, <3>1 DEF WellFormed
    <2>14. KeepsSub(s, t)
      <3>1. ASSUME NEW j \in DOMAIN s.sub
            PROVE  /\ Advances(s.sub[j], t.sub[j])
                   /\ s.sub[j].status = "placed" => t.sub[j].status = "placed"
        <4>1. CASE j # i
          BY <2>8, <2>10, <4>1 DEF Advances
        <4>2. CASE j = i
          <5>1. t.sub[j] = record /\ s.sub[j].status = "queued"
            BY <1>3, <2>8, <2>10, <4>2
          <5>2. s.sub[j].conversation = c
            BY <2>1, <4>2
          <5> QED
            BY <2>9, <4>2, <5>1, <5>2 DEF Advances
        <4> QED
          BY <4>1, <4>2
      <3>2. Goes(s, t)
        BY <3>1, GoesOn
      <3> QED
        BY <2>8, <2>10, <2>11, <3>2 DEF KeepsSub
    <2>15. Named(t)
      BY <1>1, <2>14, KeptNamed
    <2>16. Others(s, t, c)
      <3> SUFFICES ASSUME NEW e \in Conversation \ {c} PROVE Same(s, t, e)
        BY DEF Others
      <3>1. OfIn(t, e) = OfIn(s, e)
        BY <2>8, <2>10, <2>11 DEF OfIn
      <3>2. \A j \in OfIn(s, e) : t.sub[j] = s.sub[j]
        BY <2>1, <2>8, <2>10 DEF OfIn
      <3> QED
        BY <2>8, <2>12, <3>1, <3>2 DEF Same
    <2>17. OthersRest(t, c)
      BY <2>8, <2>14, <2>16, RestOthers DEF AllRest, OthersRest
    <2>18. AtRest(t, c)
      <3>1. /\ Sound(s, c, {}, NoTask) /\ CutOff(s, c, Inputs(s, c)) /\ Handed(s, c, Inputs(s, c))
            /\ ~Busy(s, c) => s.inbox[c] = <<>>
        BY DEF AllRest, AtRest, Resting
      <3>2. OfIn(t, c) = OfIn(s, c) /\ (Born(t, c) <=> Born(s, c))
            /\ Inputs(t, c) = Inputs(s, c) /\ First(t, c) = First(s, c)
            /\ (Busy(t, c) <=> Busy(s, c)) /\ OfIn(s, c) \subseteq DOMAIN s.sub
        BY <2>8, <2>10, <2>11 DEF OfIn, Born, Inputs, First, Busy
      <3>3. /\ \A j \in DOMAIN s.sub : (IsWrite(t, j) <=> IsWrite(s, j))
                                       /\ (IsReset(t, j) <=> IsReset(s, j))
            /\ ~IsReset(s, i)
        BY <2>8, <2>11 DEF IsWrite, IsReset
      <3>4. /\ InState(t, c, "placed") = InState(s, c, "placed")
            /\ InState(t, c, "queued") = InState(s, c, "queued") \ {i}
        BY <1>3, <2>8, <2>9, <2>10, <3>2 DEF InState
      <3>5. \A j \in DOMAIN s.sub : t.sub[j].draft = s.sub[j].draft
              /\ t.sub[j].run = s.sub[j].run /\ t.sub[j].entry = s.sub[j].entry
              /\ t.sub[j].target = s.sub[j].target
              /\ (j # i => t.sub[j].status = s.sub[j].status)
        BY <2>8, <2>10, <2>11
      <3>6. \A status : InState(s, c, status) \subseteq DOMAIN s.sub
        BY DEF InState, OfIn
      <3>7. InboxSound(t, c)
        BY <2>8, <2>12, <3>1, <3>4, <3>5, <3>6 DEF Sound, InboxSound
      <3>8. RunSound(t, c, {})
        <4>1. /\ t.run = s.run /\ IsInjective(s.run[c].inputs)
              /\ Inputs(s, c) = InState(s, c, "placed")
              /\ s.run[c].inputs = <<>> <=> s.run[c] = NoRun
              /\ \A j \in Inputs(s, c) : s.sub[j].run = First(s, c)
              /\ \A j \in InState(s, c, "placed") : ~IsWrite(s, j)
          BY <2>8, <3>1 DEF Sound, RunSound
        <4>2. \A j \in Inputs(t, c) : t.sub[j].run = First(t, c)
          BY <3>2, <3>5, <3>6, <4>1
        <4>3. \A j \in InState(t, c, "placed") : ~IsWrite(t, j)
          BY <3>3, <3>4, <3>6, <4>1
        <4> QED
          BY <3>2, <3>4, <4>1, <4>2, <4>3 DEF RunSound
      <3>9. GenSound(t, c, NoTask)
        BY <2>8, <3>1, <3>2 DEF Sound, GenSound, Alive
      <3>10. ResetSound(t, c)
        <4> SUFFICES ASSUME NEW r \in OfIn(t, c), IsReset(t, r)
                     PROVE  /\ t.sub[r].status \in {"queued", "done"}
                            /\ t.sub[r].target = NoEntry
                            /\ \A j \in OfIn(t, c) :
                                 j > r /\ t.sub[j].entry # NoEntry =>
                                   t.sub[r].status = "done" /\ t.sub[r].entry < t.sub[j].entry
          BY DEF ResetSound
        <4>1. r \in OfIn(s, c) /\ IsReset(s, r) /\ r \in DOMAIN s.sub /\ r # i
          BY <3>2, <3>3
        <4>2. /\ s.sub[r].status \in {"queued", "done"} /\ s.sub[r].target = NoEntry
              /\ \A j \in OfIn(s, c) :
                   j > r /\ s.sub[j].entry # NoEntry =>
                     s.sub[r].status = "done" /\ s.sub[r].entry < s.sub[j].entry
          BY <3>1, <4>1 DEF Sound, ResetSound
        <4> QED
          BY <3>2, <3>5, <4>1, <4>2
      <3>11. CutOff(t, c, Inputs(t, c))
        <4> SUFFICES ASSUME NEW r \in OfIn(t, c), NEW j \in Inputs(t, c), IsReset(t, r),
                            t.sub[r].status = "done"
                     PROVE  t.sub[r].entry < t.sub[j].entry
          BY DEF CutOff
        <4>1. r \in OfIn(s, c) /\ r \in DOMAIN s.sub /\ IsReset(s, r) /\ r # i
              /\ j \in Inputs(s, c) /\ j \in DOMAIN s.sub
          BY <3>1, <3>2, <3>3, <3>6 DEF Sound, RunSound
        <4> QED
          BY <3>1, <3>5, <4>1 DEF CutOff
      <3>12. Handed(t, c, Inputs(t, c))
        <4>1. RunsIn(t, c) = RunsIn(s, c) /\ RunsIn(s, c) \subseteq DOMAIN s.sub
          BY <3>2, <3>5 DEF RunsIn
        <4>2. ASSUME NEW what, NEW f
              PROVE  FromIn(t, what, c, f) = FromIn(s, what, c, f)
          BY <2>8, <2>10, <2>11 DEF FromIn
        <4>3. \A f : After(t, c, f) = After(s, c, f)
          BY <4>2 DEF After
        <4> QED
          BY <2>8, <3>1, <3>2, <3>4, <3>5, <3>6, <4>1, <4>2, <4>3 DEF Handed, HandedBack
      <3>13. ~Busy(t, c) => t.inbox[c] = <<>>
        <4>1. ASSUME ~Busy(t, c) PROVE t.inbox[c] = <<>>
          <5>1. ToSet(s.inbox[c]) = {}
            BY <2>12, <3>1, <3>2, <4>1, NoElements
          <5>2. ToSet(inbox[c]) = {}
            BY <2>12, <5>1
          <5> QED
            BY <2>8, <2>12, <5>2, NoElements
        <4> QED
          BY <4>1
      <3>14. Served(t, c)
        <4>1. Served(s, c) /\ ToSet(s.inbox[c]) = InState(s, c, "queued")
          BY <3>1 DEF Sound, InboxSound
        <4>2. KeysOnce(t, c)
          BY <3>2, <3>5, <4>1 DEF Served, KeysOnce
        <4>3. ASSUME NEW j \in OfIn(t, c) PROVE ServedWell(t.sub[j])
          <5>1. j \in OfIn(s, c) /\ ServedWell(s.sub[j])
            BY <3>2, <4>1, <4>3 DEF Served
          <5>2. CASE j # i
            BY <2>8, <2>10, <3>2, <5>1, <5>2
          <5>3. CASE j = i
            <6>1. i \in InState(s, c, "queued")
              BY <1>3, <3>2, <5>1, <5>3 DEF InState
            <6>2. s.sub[i].entry = NoEntry /\ s.sub[i].run = NoSubmission
              BY <3>1, <6>1 DEF Sound, InboxSound
            <6>3. record.draft.kind # "write"
              BY <2>9 DEF IsWrite
            <6> QED
              BY <2>8, <2>9, <2>10, <5>3, <6>2, <6>3 DEF ServedWell
          <5> QED
            BY <5>2, <5>3
        <4>4. \A j \in DOMAIN s.sub :
                t.sub[j].status = "queued" => s.sub[j].status = "queued"
          BY <1>3, <3>5
        <4>5. InTurn(t, c)
          BY <3>2, <3>5, <4>1, <4>4 DEF Served, InTurn, SameClass
        <4>6. QueuedReset(s, c) => QueuedReset(t, c)
          BY <2>8, <2>12, <3>3, <3>4, <3>6, <4>1 DEF QueuedReset
        <4>7. DisplayHeld(t, c)
          BY <3>4, <3>5, <3>6, <4>1, <4>6 DEF Served, DisplayHeld
        <4> QED
          BY <4>2, <4>3, <4>5, <4>7 DEF Served
      <3> QED
        BY <3>1, <3>2, <3>7, <3>8, <3>9, <3>10, <3>11, <3>12, <3>13, <3>14
           DEF AtRest, Resting, Sound
    <2>19. Grows(s, t)
      BY <2>14 DEF Grows, KeepsSub
    <2> QED
      BY <2>2, <2>8, <2>13, <2>15, <2>17, <2>18, <2>19
         DEF Moves, AllRest, OthersRest, Busy
  <1> QED
    BY <1>2, <1>3

-----------------------------------------------------------------------------
(* Every step keeps the invariant, and what is submitted comes in and goes on. *)

Keeps == IInv' /\ Grows(db, db')

\* A commit that no deletion makes.
LEMMA MovesKeep ==
    ASSUME IInv, Moves(db, db'), UNCHANGED <<deleter, restarts>>,
           canceller' \in CancellerRecord,
           canceller'.stage # "idle" => canceller'.conversation \in Conversation,
           canceller'.stage = "withdraw" =>
               canceller'.of \in DOMAIN db'.sub /\ ~IsWrite(db', canceller'.of)
    PROVE  Keeps
  <1>1. AllRest(db') /\ Grows(db, db') /\ DOMAIN db.gen \subseteq DOMAIN db'.gen
        /\ db'.lifecycle = db.lifecycle
    BY DEF Moves
  <1>2. WellFormed(db')
    BY <1>1 DEF AllRest
  <1>3. TypeOK'
    BY <1>1, <1>2 DEF TypeOK, IInv, WellFormed, Submissions
  <1>4. DeletionSound'
    <2> SUFFICES ASSUME NEW d \in Deletable, Parent[d] = NoConversation
                 PROVE  /\ deleter'[d].stage # "idle" => db'.lifecycle[d] # "active"
                        /\ db'.lifecycle[d] = "deleted" \/ deleter'[d].stage = "deleted" =>
                             db'.lifecycle[d] # "active" /\ ~Busy(db', d)
      BY DEF DeletionSound
    <2>1. /\ deleter[d].stage # "idle" => db.lifecycle[d] # "active"
          /\ db.lifecycle[d] = "deleted" \/ deleter[d].stage = "deleted" =>
               db.lifecycle[d] # "active" /\ ~Busy(db, d)
      BY DEF IInv, DeletionSound
    <2>2. d \in Conversation
      BY CallersAssumption
    <2> QED
      BY <1>1, <2>1, <2>2 DEF Moves
  <1>5. CallersSound'
    BY <1>1 DEF IInv, CallersSound, Grows, IsWrite
  <1> QED
    BY <1>1, <1>3, <1>4, <1>5 DEF IInv, Keeps

\* A commit of a handler, of a client or of the task tool.
LEMMA CommitKeeps ==
    ASSUME IInv, Moves(db, db'), OnlyDb
    PROVE  Keeps
  <1>1. /\ canceller' \in CancellerRecord
        /\ canceller'.stage # "idle" => canceller'.conversation \in Conversation
        /\ canceller'.stage = "withdraw" =>
             canceller'.of \in DOMAIN db'.sub /\ ~IsWrite(db', canceller'.of)
    BY DEF IInv, TypeOK, CallersSound, OnlyDb, Moves, Grows, IsWrite
  <1> QED
    BY <1>1, MovesKeep DEF OnlyDb

\* A step of a deletion.
LEMMA DeletionKeeps ==
    ASSUME IInv, AllRest(db'), Grows(db, db'), DOMAIN db.gen \subseteq DOMAIN db'.gen,
           NEW d \in Deletable, NEW new \in DeleterRecord, deleter' = [deleter EXCEPT ![d] = new],
           UNCHANGED <<canceller, restarts>>,
           new.waiting \subseteq DOMAIN db'.gen,
           ToSet(new.items) \subseteq {i \in DOMAIN db'.sub : ~IsWrite(db', i)},
           \A e \in Conversation : e # d => db'.lifecycle[e] = db.lifecycle[e],
           \A e \in Conversation :
               Parent[e] = NoConversation /\ db.lifecycle[e] # "active" /\ ~Busy(db, e) =>
                   ~Busy(db', e),
           Parent[d] = NoConversation =>
               /\ new.stage # "idle" => db'.lifecycle[d] # "active"
               /\ db'.lifecycle[d] = "deleted" \/ new.stage = "deleted" =>
                    db'.lifecycle[d] # "active" /\ ~Busy(db', d)
    PROVE  Keeps
  <1>1. deleter \in [Deletable -> DeleterRecord]
    BY DEF IInv, TypeOK
  <1>2. /\ deleter'[d] = new /\ deleter' \in [Deletable -> DeleterRecord]
        /\ \A e \in Deletable : e # d => deleter'[e] = deleter[e]
    BY <1>1
  <1>3. TypeOK'
    <2>1. \A e \in Deletable : deleter'[e].waiting \subseteq DOMAIN db'.gen
      BY <1>2 DEF IInv, TypeOK
    <2>2. /\ db' \in Database
          /\ \A c \in Conversation :
               db'.head[c] <= db'.entries /\ db'.doc[c].contracts \subseteq DOMAIN db'.sub
      BY DEF AllRest, WellFormed
    <2> QED
      BY <1>2, <2>1, <2>2 DEF IInv, TypeOK, Submissions
  <1>4. DeletionSound'
    <2> SUFFICES ASSUME NEW e \in Deletable, Parent[e] = NoConversation
                 PROVE  /\ deleter'[e].stage # "idle" => db'.lifecycle[e] # "active"
                        /\ db'.lifecycle[e] = "deleted" \/ deleter'[e].stage = "deleted" =>
                             db'.lifecycle[e] # "active" /\ ~Busy(db', e)
      BY DEF DeletionSound
    <2>1. /\ deleter[e].stage # "idle" => db.lifecycle[e] # "active"
          /\ db.lifecycle[e] = "deleted" \/ deleter[e].stage = "deleted" =>
               db.lifecycle[e] # "active" /\ ~Busy(db, e)
      BY DEF IInv, DeletionSound
    <2>2. e \in Conversation
      BY CallersAssumption
    <2> QED
      BY <1>2, <2>1, <2>2
  <1>5. CallersSound'
    <2>1. \A e \in Deletable :
            ToSet(deleter'[e].items) \subseteq {i \in DOMAIN db'.sub : ~IsWrite(db', i)}
      BY <1>2 DEF IInv, CallersSound, Grows, IsWrite
    <2> QED
      BY <2>1 DEF IInv, CallersSound, Grows, IsWrite
  <1> QED
    BY <1>3, <1>4, <1>5 DEF IInv, Keeps

\* The session of a conversation is no longer active: its background tasks have no
\* one to report to.
NowIn(s, d, state) == [s EXCEPT !.lifecycle[d] = state]
LifecycleIs(s, t, d, state) ==
    /\ AllRest(t) /\ t.sub = s.sub /\ t.gen = s.gen /\ t.run = s.run
    /\ t.lifecycle[d] = state
    /\ \A e \in Conversation : e # d => t.lifecycle[e] = s.lifecycle[e]

\* Closing or deleting a session leaves every conversation at rest.
LEMMA LifecycleMoves ==
    ASSUME NEW s, AllRest(s), NEW d \in Conversation, NEW state \in {"closing", "deleted"},
           NEW t, t = NowIn(s, d, state)
    PROVE  LifecycleIs(s, t, d, state)
  <1>1. s \in Database /\ WellFormed(s) /\ Named(s)
    BY DEF AllRest, WellFormed
  <1>2. PICK lifecycle : lifecycle = [s.lifecycle EXCEPT ![d] = state]
    OBVIOUS
  <1>3. t = Base(s.sub, s.gen, s.inbox, s.run, s.head, s.entries, s.doc, lifecycle)
    BY <1>1, <1>2 DEF Database, Base, NowIn
  <1>4. /\ t.sub = s.sub /\ t.gen = s.gen /\ t.inbox = s.inbox /\ t.run = s.run
        /\ t.head = s.head /\ t.entries = s.entries /\ t.doc = s.doc /\ t.lifecycle = lifecycle
    BY <1>3 DEF Base
  <1>5. /\ lifecycle \in [Conversation -> {"active", "closing", "deleted"}]
        /\ lifecycle[d] = state
        /\ \A e \in Conversation : e # d => lifecycle[e] = s.lifecycle[e]
        /\ \A e \in Conversation : s.lifecycle[e] # "active" => lifecycle[e] # "active"
    BY <1>1, <1>2, Fields
  <1>6. WellFormed(t)
    <2>1. t \in Database
      BY <1>1, <1>3, <1>5, Fields DEF Base, Database
    <2> QED
      BY <1>1, <1>4, <2>1 DEF WellFormed
  <1>7. Named(t)
    BY <1>1, <1>4, SMTT(30) DEF Named
  <1>8. ASSUME NEW c \in Conversation PROVE AtRest(t, c)
    <2>1. OfIn(t, c) = OfIn(s, c) /\ (Born(t, c) <=> Born(s, c))
          /\ Inputs(t, c) = Inputs(s, c) /\ First(t, c) = First(s, c)
          /\ (Busy(t, c) <=> Busy(s, c)) /\ RunsIn(t, c) = RunsIn(s, c)
          /\ \A status : InState(t, c, status) = InState(s, c, status)
          /\ \A i : (IsWrite(t, i) <=> IsWrite(s, i)) /\ (IsReset(t, i) <=> IsReset(s, i))
      BY <1>4 DEF OfIn, Born, Inputs, First, Busy, InState, IsWrite, IsReset, RunsIn
    <2>2. /\ Sound(s, c, {}, NoTask) /\ CutOff(s, c, Inputs(s, c)) /\ Handed(s, c, Inputs(s, c))
          /\ ~Busy(s, c) => s.inbox[c] = <<>>
      BY DEF AllRest, AtRest, Resting
    <2>3. InboxSound(t, c)
      BY <1>4, <2>1, <2>2 DEF Sound, InboxSound
    <2>4. RunSound(t, c, {})
      BY <1>4, <2>1, <2>2 DEF Sound, RunSound
    <2>5. GenSound(t, c, NoTask)
      BY <1>4, <2>1, <2>2 DEF Sound, GenSound, Alive
    <2>6. ResetSound(t, c)
      BY <1>4, <2>1, <2>2 DEF Sound, ResetSound
    <2>7. CutOff(t, c, Inputs(t, c))
      BY <1>4, <2>1, <2>2 DEF CutOff
    <2>8. Handed(t, c, Inputs(t, c))
      <3> SUFFICES ASSUME Parent[c] # NoConversation PROVE HandedBack(t, c, Inputs(s, c))
        BY <2>1 DEF Handed
      <3>1. HandedBack(s, c, Inputs(s, c)) /\ Parent[c] \in Conversation
        BY <2>2, ConversationAssumption DEF Handed
      <3>2. /\ \A first : After(t, c, first) = After(s, c, first)
            /\ \A first : FromIn(t, "continue", c, first) = FromIn(s, "continue", c, first)
        BY <1>4 DEF After, FromIn
      <3> QED
        BY <1>4, <1>5, <2>1, <3>1, <3>2 DEF HandedBack
    <2>9. ~Busy(t, c) => t.inbox[c] = <<>>
      BY <1>4, <2>1, <2>2
    <2>10. Served(t, c)
      <3>1. Served(s, c) /\ ToSet(s.inbox[c]) \subseteq OfIn(s, c)
        BY <2>2 DEF Sound, InboxSound, InState
      <3>2. \A i \in OfIn(s, c) : ServedWell(t.sub[i])
        BY <1>4, <3>1 DEF Served
      <3> QED
        BY <1>4, <2>1, <3>1, <3>2, ServedStays
    <2> QED
      BY <2>1, <2>2, <2>3, <2>4, <2>5, <2>6, <2>7, <2>8, <2>9, <2>10 DEF AtRest, Resting, Sound
  <1> QED
    BY <1>4, <1>5, <1>6, <1>7, <1>8 DEF AllRest, LifecycleIs

\* The step of a generation, or the scheduler settling it, keeps the invariant.
LEMMA HandlerKeeps ==
    ASSUME IInv, NEW g \in DOMAIN db.gen, HandlerStep(g) \/ SchedulerOutcome(g)
    PROVE  Keeps
  <1>1. Alive(db, g) /\ OnlyDb
    BY DEF HandlerStep, SchedulerOutcome, Answer, Fail, StartToolRound, FinishRound, AbortHandler,
           InPhase, Alive
  <1>2. AllRest(db) /\ WellFormed(db) /\ Named(db) /\ \A c \in Conversation : AtRest(db, c)
    BY DEF IInv, AllRest
  <1>3. PICK c \in Conversation : c = db.gen[g].conversation /\ Driving(db, c, g)
    BY <1>1, <1>2, AliveDrives
  <1>4. OthersRest(db, c) /\ AtRest(db, c)
    BY <1>2 DEF OthersRest
  <1>5. Drives(db, g)
    BY <1>3 DEF Driving, Drives
  <1>6. CASE Answer(g)
    <2>1. PICK unstated \in BOOLEAN, modes \in QueueModes :
             db' = GenerationOver(EndAnsweredRun(db, g, unstated, modes), g)
      BY <1>6 DEF Answer
    <2>2. Ended(db, EndAnsweredRun(db, g, unstated, modes), c, g)
      BY <1>2, <1>3, <1>4, EndAnswered
    <2>3. Moves(db, db')
      BY <1>2, <1>3, <2>1, <2>2, GenerationEnds
    <2> QED
      BY <1>1, <2>3, CommitKeeps
  <1>7. CASE Fail(g) \/ AbortHandler(g) \/ SchedulerOutcome(g)
    <2>1. PICK modes \in QueueModes : db' = GenerationOver(EndRunAbnormal(db, g, modes), g)
      BY <1>7 DEF Fail, AbortHandler, SchedulerOutcome
    <2>2. Ended(db, EndRunAbnormal(db, g, modes), c, g)
      BY <1>2, <1>3, <1>4, EndAbnormal
    <2>3. Moves(db, db')
      BY <1>2, <1>3, <2>1, <2>2, GenerationEnds
    <2> QED
      BY <1>1, <2>3, CommitKeeps
  <1>8. CASE StartToolRound(g)
    <2>1. db.run[c].rounds < MaxRounds
      BY <1>3, <1>5, <1>8 DEF StartToolRound, RoundsBelow
    <2>2. db' = InRound(db, c, g)
      BY <1>3, <1>5, <1>8 DEF StartToolRound, InRound
    <2>3. Moves(db, db')
      BY <1>1, <1>2, <1>3, <2>1, <2>2, RoundMoves
    <2> QED
      BY <1>1, <2>3, CommitKeeps
  <1>9. CASE FinishRound(g)
    <2>1. PICK modes \in QueueModes : db' = GenerationOver(RoundFinished(db, g, modes), g)
      BY <1>9 DEF FinishRound
    <2>2. Ended(db, RoundFinished(db, g, modes), c, g)
      BY <1>2, <1>3, <1>4, EndRound
    <2>3. Moves(db, db')
      BY <1>2, <1>3, <2>1, <2>2, GenerationEnds
    <2> QED
      BY <1>1, <2>3, CommitKeeps
  <1> QED
    BY <1>6, <1>7, <1>8, <1>9 DEF HandlerStep

\* A client's submission keeps the invariant.
LEMMA SubmitKeeps ==
    ASSUME IInv, NEW c \in Conversation, NEW draft \in Drafts[c], Submit(c, draft)
    PROVE  Keeps
  <1>1. AllRest(db) /\ WellFormed(db) /\ Named(db) /\ AtRest(db, c) /\ db \in Database
    BY DEF IInv, AllRest, WellFormed
  <1>2. PICK target \in Targets(c, draft), modes \in QueueModes :
           db' = Admit(db, c, draft, target, modes)
    BY DEF Submit
  <1>3. /\ draft \in SubmissionDraft /\ draft.from.what = "client"
        /\ draft.display => draft.head = "none"
    BY DraftsAssumption
  <1>4. target \in Nat /\ target <= db.entries /\ (draft.head # "at" => target = NoEntry)
    <2>1. CASE draft.head = "at"
      <3>1. PICK i \in DOMAIN db.sub : target = db.sub[i].entry
        BY <1>2, <2>1 DEF Targets, PlacedEntries
      <3>2. db.sub[i] \in SubmissionRecord
        BY <1>1, Fields
      <3> QED
        BY <1>1, <2>1, <3>1, <3>2 DEF WellFormed, SubmissionRecord
    <2>2. CASE draft.head # "at"
      <3>1. target = NoEntry /\ db.entries \in Nat
        BY <1>1, <1>2, <2>2, Fields DEF Targets
      <3> QED
        BY <2>2, <3>1 DEF NoEntry
    <2> QED
      BY <2>1, <2>2
  <1>5. Fit(db, c, draft, target)
    BY <1>3, <1>4 DEF Fit
  <1>6. Born(db, c)
    BY DEF Submit, Exists, Born
  <1>7. AdmitGives(db, db', c, draft)
    BY <1>1, <1>2, <1>5, <1>6, AdmitAtRest
  <1>8. Moves(db, db')
    BY <1>1, <1>3, <1>7, AdmitMoves DEF Submit
  <1> QED
    BY <1>8, CommitKeeps DEF Submit

\* What the task tool submits fits every conversation.
LEMMA FollowUpFits ==
    ASSUME NEW s, WellFormed(s), NEW c, NEW draft \in FollowUps
    PROVE  /\ Fit(s, c, draft, NoEntry)
           /\ draft.from.what = "task" /\ draft.kind = "input" /\ draft.mode # "reject"
           /\ ~Known(s, c, draft)
  <1>1. /\ draft \in SubmissionDraft /\ draft.from.what = "task" /\ draft.kind = "input"
        /\ draft.mode # "reject" /\ draft.from.nth = 0
    BY DraftsAssumption
  <1>2. s.entries \in Nat
    BY Fields DEF WellFormed
  <1> QED
    BY <1>1, <1>2 DEF Fit, NoEntry, Known

\* A task that is given more work keeps the invariant.
LEMMA FollowKeeps ==
    ASSUME IInv, NEW g \in DOMAIN db.gen, NEW c \in Conversation, NEW draft \in FollowUps,
           Follow(g, c, draft)
    PROVE  Keeps
  <1>1. AllRest(db) /\ WellFormed(db) /\ Named(db) /\ AtRest(db, c) /\ db \in Database
    BY DEF IInv, AllRest, WellFormed
  <1>2. PICK modes \in QueueModes :
           db' = WithContract(Admit(db, c, draft, NoEntry, modes), c, draft)
    BY DEF Follow
  <1>3. PICK t : t = Admit(db, c, draft, NoEntry, modes)
    OBVIOUS
  <1>4. Parent[c] # NoConversation /\ Born(db, c)
    <2>1. db.gen[g] \in GenerationRecord
      BY <1>1, Fields
    <2> QED
      BY <2>1, ConversationAssumption DEF Follow, Born, GenerationRecord
  <1>5. AdmitGives(db, t, c, draft)
    BY <1>1, <1>3, <1>4, FollowUpFits, AdmitAtRest
  <1>6. Moves(db, WithContract(t, c, draft))
    BY <1>1, <1>4, <1>5, FollowUpFits, ContractMoves
  <1> QED
    BY <1>2, <1>3, <1>6, CommitKeeps DEF Follow

\* A task that is spawned keeps the invariant.
LEMMA SpawnKeeps ==
    ASSUME IInv, NEW g \in DOMAIN db.gen, NEW c \in Conversation, NEW draft \in FollowUps,
           Spawn(g, c, draft)
    PROVE  Keeps
  <1>1. AllRest(db) /\ WellFormed(db) /\ Named(db) /\ AtRest(db, c) /\ db \in Database
    BY DEF IInv, AllRest, WellFormed
  <1>2. PICK doc : doc = [db.doc[c] EXCEPT !.born = TRUE, !.anchored = TRUE]
    OBVIOUS
  <1>3. PICK s : s = [db EXCEPT !.doc[c] = doc]
    OBVIOUS
  <1>4. PICK t : t = PlaceIdleInput(s, c, draft)
    OBVIOUS
  <1>5. db' = WithContract(t, c, draft)
    <2>1. s = [db EXCEPT !.doc[c].born = TRUE, !.doc[c].anchored = TRUE]
      BY <1>1, <1>2, <1>3 DEF Database
    <2> QED
      BY <1>4, <2>1 DEF Spawn
  <1>6. Parent[c] # NoConversation /\ ~db.doc[c].born
    <2>1. db.gen[g] \in GenerationRecord
      BY <1>1, Fields
    <2> QED
      BY <2>1, ConversationAssumption DEF Spawn, GenerationRecord
  <1>7. /\ doc \in TaskDoc /\ doc.contracts \subseteq DOMAIN db.sub /\ doc.born
        /\ doc.continued = db.doc[c].continued
    <2>1. db.doc[c] \in TaskDoc /\ db.doc[c].contracts \subseteq DOMAIN db.sub
      BY <1>1, Fields DEF WellFormed
    <2> QED
      BY <1>2, <2>1 DEF TaskDoc
  <1>8. DocIs(db, s, c, doc)
    BY <1>1, <1>3, <1>7, DocChanges
  <1>9. Moves(db, s)
    BY <1>1, <1>3, <1>7, DocMoves
  <1>10. AllRest(s) /\ WellFormed(s) /\ Named(s) /\ AtRest(s, c) /\ Born(s, c) /\ ~Busy(s, c)
    <2>1. OfIn(db, c) = {}
      BY <1>1, <1>6 DEF AtRest, Resting, Sound, Born
    <2>2. Inputs(db, c) = {}
      BY <1>1, <2>1 DEF AtRest, Resting, Sound, RunSound, InState
    <2>3. db.run[c].inputs = <<>>
      BY <1>1, <2>2, Fields, NoElements DEF Inputs
    <2>4. ~Busy(db, c)
      BY <1>1, <2>3 DEF AtRest, Resting, Sound, RunSound, Busy
    <2> QED
      BY <1>7, <1>8, <1>9, <2>4 DEF DocIs, Moves, AllRest, Born, Busy
  <1>11. AdmitGives(s, t, c, draft)
    <2>1. Fit(s, c, draft, NoEntry) /\ draft.kind = "input" /\ ~Known(s, c, draft)
      BY <1>10, FollowUpFits
    <2> QED
      BY <1>4, <1>10, <2>1, PlaceIdleAtRest
  <1>12. Moves(s, WithContract(t, c, draft))
    BY <1>6, <1>10, <1>11, FollowUpFits, ContractMoves
  <1>13. Moves(db, db')
    BY <1>5, <1>9, <1>12, MovesTwice
  <1> QED
    BY <1>13, CommitKeeps DEF Spawn

\* The end of a task's anchor keeps the invariant.
LEMMA AnchorKeeps ==
    ASSUME IInv, NEW c \in Conversation, AnchorEnds(c)
    PROVE  Keeps
  <1>1. AllRest(db) /\ WellFormed(db) /\ db \in Database
    BY DEF IInv, AllRest, WellFormed
  <1>2. PICK doc : doc = [db.doc[c] EXCEPT !.anchored = FALSE]
    OBVIOUS
  <1>3. db' = [db EXCEPT !.doc[c] = doc]
    BY <1>2 DEF AnchorEnds
  <1>4. /\ doc \in TaskDoc /\ doc.contracts \subseteq DOMAIN db.sub
        /\ db.doc[c].born => doc.born
        /\ doc.continued = db.doc[c].continued
    <2>1. db.doc[c] \in TaskDoc /\ db.doc[c].contracts \subseteq DOMAIN db.sub
      BY <1>1, Fields DEF WellFormed
    <2> QED
      BY <1>2, <2>1 DEF TaskDoc
  <1>5. Moves(db, db')
    BY <1>1, <1>3, <1>4, DocMoves
  <1> QED
    BY <1>5, CommitKeeps DEF AnchorEnds

\* Nothing in the database changes.
LEMMA StaysMoves ==
    ASSUME IInv, db' = db
    PROVE  Moves(db, db')
  BY MovesStill DEF IInv

\* The canceller, from taking a run to the last withdrawal, keeps the invariant.
LEMMA CancelKeeps ==
    ASSUME IInv,
           \/ \E c \in Cancellable : CancelCurrent(c)
           \/ \E i \in DOMAIN db.sub : CancelRunId(i)
           \/ CancelStep
    PROVE  Keeps
  <1>1. AllRest(db) /\ db \in Database /\ canceller \in CancellerRecord
        /\ (canceller.stage # "idle" => canceller.conversation \in Conversation)
        /\ (canceller.stage = "withdraw" =>
              canceller.of \in DOMAIN db.sub /\ ~IsWrite(db, canceller.of))
    BY DEF IInv, AllRest, WellFormed, TypeOK, CallersSound
  <1>2. /\ NoCanceller \in CancellerRecord /\ NoCanceller.stage = "idle"
        /\ NoCanceller.last = NoTask /\ NoCanceller.target = NoSubmission
        /\ NoCanceller.of = NoSubmission /\ NoCanceller.conversation = NoConversation
    BY DEF NoCanceller, CancellerRecord, NoSubmission, NoTask
  <1>3. CASE \E c \in Cancellable : CancelCurrent(c)
    <2>1. PICK c \in Cancellable : CancelCurrent(c)
      BY <1>3
    <2>2. c \in Conversation
      BY CallersAssumption
    <2>3. /\ canceller' \in CancellerRecord /\ canceller'.stage = "read"
          /\ canceller'.conversation = c
      BY <1>2, <2>1, <2>2 DEF CancelCurrent, CancellerRecord
    <2> QED
      BY <2>1, <2>2, <2>3, StaysMoves, MovesKeep DEF CancelCurrent
  <1>4. CASE \E i \in DOMAIN db.sub : CancelRunId(i)
    <2>1. PICK i \in DOMAIN db.sub : CancelRunId(i)
      BY <1>4
    <2>2. i \in Nat /\ db.sub[i] \in SubmissionRecord
      BY <1>1, Fields
    <2>3. db.sub[i].conversation \in Conversation /\ ~IsWrite(db, i)
      BY <2>1, <2>2 DEF SubmissionRecord, CancelRunId, IsWrite
    <2>4. PICK stage \in {"withdraw", "read"} :
             canceller' = [NoCanceller EXCEPT !.stage = stage, !.of = i,
                                              !.conversation = db.sub[i].conversation]
      BY <2>1 DEF CancelRunId
    <2>5. /\ canceller' \in CancellerRecord /\ canceller'.of = i
          /\ canceller'.conversation \in Conversation
      BY <1>2, <2>2, <2>3, <2>4 DEF CancellerRecord
    <2> QED
      BY <2>1, <2>3, <2>5, StaysMoves, MovesKeep DEF CancelRunId
  <1>5. CASE CancelQueued
    <2>1. Moves(db, db')
      BY <1>1, <1>5, WithdrawMoves DEF CancelQueued
    <2>2. PICK stage \in {"read", "returned"} : canceller' = [canceller EXCEPT !.stage = stage]
      BY <1>5 DEF CancelQueued
    <2>3. /\ canceller' \in CancellerRecord /\ canceller'.stage = stage
          /\ canceller'.conversation = canceller.conversation
      BY <1>1, <2>2 DEF CancellerRecord
    <2> QED
      BY <1>1, <1>5, <2>1, <2>3, MovesKeep DEF CancelQueued
  <1>6. CASE AbortRunReads
    <2>1. canceller.conversation \in Conversation /\ canceller.stage = "read"
      BY <1>1, <1>6 DEF AbortRunReads
    <2>2. PICK c \in Conversation : c = canceller.conversation
      BY <2>1
    <2>3. PICK run : run = db.run[c]
      OBVIOUS
    <2>4. run # NoRun => Head(run.inputs) \in Nat /\ run.task \in Nat
      <3>1. run.inputs \in Seq(Nat) /\ run.task \in Nat
        BY <1>1, <2>3, Fields
      <3>2. run # NoRun => run.inputs # <<>>
        BY <1>1, <2>3 DEF AllRest, AtRest, Resting, Sound, RunSound
      <3> QED
        BY <3>1, <3>2, NoElements
    <2>5. /\ canceller' \in CancellerRecord /\ canceller'.stage \in {"mark", "returned"}
          /\ canceller'.conversation = c
      <3>1. CASE canceller' = [canceller EXCEPT !.stage = "returned"]
        BY <1>1, <2>2, <3>1 DEF CancellerRecord
      <3>2. CASE /\ run # NoRun
                 /\ canceller' = [canceller EXCEPT !.stage = "mark",
                                     !.target = Head(run.inputs), !.last = run.task]
        BY <1>1, <2>2, <2>4, <3>2 DEF CancellerRecord
      <3> QED
        BY <1>6, <2>2, <2>3, <3>1, <3>2 DEF AbortRunReads
    <2> QED
      BY <1>6, <2>5, StaysMoves, MovesKeep DEF AbortRunReads
  <1>7. CASE AbortRunMarks
    <2>1. PICK tasks : tasks = {canceller.last}
      OBVIOUS
    <2>2. Moves(db, db')
      BY <1>1, <1>7, <2>1, MarkMoves DEF AbortRunMarks
    <2>3. /\ canceller' \in CancellerRecord /\ canceller'.stage = "wait"
          /\ canceller'.conversation = canceller.conversation
      BY <1>1, <1>7 DEF AbortRunMarks, CancellerRecord
    <2> QED
      BY <1>1, <1>7, <2>2, <2>3, MovesKeep DEF AbortRunMarks
  <1>8. CASE AbortRunWaited
    <2>1. /\ canceller' \in CancellerRecord /\ canceller'.stage = "read"
          /\ canceller'.conversation = canceller.conversation
      BY <1>1, <1>8 DEF AbortRunWaited, CancellerRecord
    <2> QED
      BY <1>1, <1>8, <2>1, StaysMoves, MovesKeep DEF AbortRunWaited
  <1>9. CASE CancelReturns
    BY <1>2, <1>9, StaysMoves, MovesKeep DEF CancelReturns
  <1> QED
    BY <1>3, <1>4, <1>5, <1>6, <1>7, <1>8, <1>9 DEF CancelStep

\* A step of a deletion that leaves the lifecycle as it is.
LEMMA DeletionMoves ==
    ASSUME IInv, Moves(db, db'), NEW d \in Deletable, NEW new \in DeleterRecord,
           deleter' = [deleter EXCEPT ![d] = new], UNCHANGED <<canceller, restarts>>,
           new.waiting \subseteq DOMAIN db'.gen,
           ToSet(new.items) \subseteq {i \in DOMAIN db'.sub : ~IsWrite(db', i)},
           new.stage # "idle" => deleter[d].stage # "idle" \/ db.lifecycle[d] # "active",
           new.stage = "deleted" => ~Busy(db, d)
    PROVE  Keeps
  <1>1. /\ AllRest(db') /\ Grows(db, db') /\ DOMAIN db.gen \subseteq DOMAIN db'.gen
        /\ \A e \in Conversation : db'.lifecycle[e] = db.lifecycle[e]
        /\ \A e \in Conversation :
               Parent[e] = NoConversation /\ db.lifecycle[e] # "active" /\ ~Busy(db, e) =>
                   ~Busy(db', e)
    BY DEF Moves
  <1>2. d \in Conversation
    BY CallersAssumption
  <1>3. ASSUME Parent[d] = NoConversation
        PROVE  /\ new.stage # "idle" => db'.lifecycle[d] # "active"
               /\ db'.lifecycle[d] = "deleted" \/ new.stage = "deleted" =>
                    db'.lifecycle[d] # "active" /\ ~Busy(db', d)
    BY <1>1, <1>2, <1>3 DEF IInv, DeletionSound
  <1> QED
    BY <1>1, <1>3, DeletionKeeps

\* The deletion of a session, step by step, keeps the invariant.
LEMMA DeleteKeeps ==
    ASSUME IInv, NEW d \in Deletable, Closing(d) \/ DeleteStep(d)
    PROVE  Keeps
  <1>1. AllRest(db) /\ db \in Database /\ WellFormed(db) /\ Moves(db, db)
        /\ deleter[d] \in DeleterRecord /\ d \in Conversation
        /\ deleter[d].waiting \subseteq DOMAIN db.gen
        /\ ToSet(deleter[d].items) \subseteq {i \in DOMAIN db.sub : ~IsWrite(db, i)}
    <2>1. d \in Conversation
      BY CallersAssumption
    <2> QED
      BY <2>1, MovesStill DEF IInv, AllRest, WellFormed, TypeOK, CallersSound
  <1>2. CASE Closing(d)
    <2>1. PICK now \in BOOLEAN :
             deleter' = [deleter EXCEPT ![d].stage = "inbox", ![d].now = now]
      BY <1>2 DEF Closing
    <2>2. PICK new : new = [deleter[d] EXCEPT !.stage = "inbox", !.now = now]
      OBVIOUS
    <2>3. deleter' = [deleter EXCEPT ![d] = new]
      BY <2>1, <2>2 DEF IInv, TypeOK
    <2>4. /\ new \in DeleterRecord /\ new.stage = "inbox" /\ new.waiting = deleter[d].waiting
          /\ new.items = deleter[d].items
      BY <1>1, <2>2 DEF DeleterRecord
    <2>5. db' = NowIn(db, d, "closing")
      BY <1>2 DEF Closing, NowIn
    <2>6. /\ AllRest(db') /\ db'.sub = db.sub /\ db'.gen = db.gen /\ db'.run = db.run
          /\ db'.lifecycle[d] = "closing"
          /\ \A e \in Conversation : e # d => db'.lifecycle[e] = db.lifecycle[e]
      <3>1. LifecycleIs(db, db', d, "closing")
        BY <1>1, <2>5, LifecycleMoves
      <3> QED
        BY <3>1 DEF LifecycleIs
    <2>7. /\ Grows(db, db') /\ DOMAIN db.gen \subseteq DOMAIN db'.gen
          /\ new.waiting \subseteq DOMAIN db'.gen
          /\ ToSet(new.items) \subseteq {i \in DOMAIN db'.sub : ~IsWrite(db', i)}
          /\ \A e \in Conversation : Busy(db', e) <=> Busy(db, e)
      <3>1. Goes(db, db')
        BY <2>6, GoesStill
      <3> QED
        BY <1>1, <2>4, <2>6, <3>1 DEF Grows, IsWrite, Busy
    <2> QED
      BY <1>2, <2>3, <2>4, <2>6, <2>7, DeletionKeeps DEF Closing
  <1>3. CASE FinishClosing(d)
    <2>1. PICK now \in BOOLEAN :
             deleter' = [deleter EXCEPT ![d].stage = "inbox", ![d].now = now]
      BY <1>3 DEF FinishClosing
    <2>2. PICK new : new = [deleter[d] EXCEPT !.stage = "inbox", !.now = now]
      OBVIOUS
    <2>3. deleter' = [deleter EXCEPT ![d] = new]
      BY <2>1, <2>2 DEF IInv, TypeOK
    <2>4. /\ new \in DeleterRecord /\ new.stage = "inbox" /\ new.waiting = deleter[d].waiting
          /\ new.items = deleter[d].items
      BY <1>1, <2>2 DEF DeleterRecord
    <2> QED
      BY <1>1, <1>3, <2>3, <2>4, DeletionMoves DEF FinishClosing
  <1>4. CASE ReadInbox(d)
    <2>1. PICK items : items = Only(db.inbox[d], Waiting(d) \ Writes(db, d))
      OBVIOUS
    <2>2. PICK new : new = [deleter[d] EXCEPT !.stage = "withdraw", !.items = items]
      OBVIOUS
    <2>3. deleter' = [deleter EXCEPT ![d] = new]
      BY <1>4, <2>1, <2>2 DEF ReadInbox, IInv, TypeOK
    <2>4. items \in Seq(Nat) /\ ToSet(items) \subseteq ToSet(db.inbox[d]) \ Writes(db, d)
      <3>1. PICK rest : rest = Waiting(d) \ Writes(db, d)
        OBVIOUS
      <3>2. Only(db.inbox[d], rest) \in Seq(Nat)
            /\ ToSet(Only(db.inbox[d], rest)) = ToSet(db.inbox[d]) \cap rest
        BY <1>1, Fields, OnlyKeeps
      <3> QED
        BY <2>1, <3>1, <3>2
    <2>5. ToSet(items) \subseteq {i \in DOMAIN db.sub : ~IsWrite(db, i)}
      <3>1. ToSet(db.inbox[d]) = InState(db, d, "queued")
        BY <1>1 DEF AllRest, AtRest, Resting, Sound, InboxSound
      <3> QED
        BY <2>4, <3>1 DEF Writes, InState, OfIn
    <2>6. /\ new \in DeleterRecord /\ new.stage = "withdraw"
          /\ new.waiting = deleter[d].waiting /\ new.items = items
      BY <1>1, <2>2, <2>4 DEF DeleterRecord
    <2> QED
      BY <1>1, <1>4, <2>3, <2>5, <2>6, DeletionMoves DEF ReadInbox
  <1>5. CASE WithdrawNext(d)
    <2>1. PICK items \in Seq(Nat) : items = deleter[d].items
      BY <1>1 DEF DeleterRecord
    <2>2. /\ items # <<>> /\ Tail(items) \in Seq(Nat) /\ Head(items) \in ToSet(items)
          /\ ToSet(Tail(items)) \subseteq ToSet(items)
      <3>1. items # <<>>
        BY <1>5, <2>1 DEF WithdrawNext
      <3>2. Tail(items) \in Seq(Nat) /\ Len(Tail(items)) = Len(items) - 1
            /\ \A n \in 1 .. Len(Tail(items)) : Tail(items)[n] = items[n + 1]
        BY <2>1, <3>1, HeadTailProperties
      <3>3. Len(items) \in Nat /\ DOMAIN items = 1 .. Len(items)
            /\ DOMAIN Tail(items) = 1 .. Len(Tail(items))
        BY <2>1, <3>2, LenProperties
      <3>4. ASSUME NEW n \in DOMAIN Tail(items) PROVE Tail(items)[n] \in ToSet(items)
        <4>1. n + 1 \in DOMAIN items
          BY <3>2, <3>3
        <4>2. Tail(items)[n] = items[n + 1]
          BY <3>2, <3>3
        <4> QED
          BY <4>1, <4>2 DEF ToSet
      <3>5. ToSet(Tail(items)) \subseteq ToSet(items)
        BY <3>4 DEF ToSet
      <3> QED
        BY <2>1, <3>1, <3>2, <3>5, NoElements
    <2>3. Moves(db, db')
      <3>1. Head(items) \in DOMAIN db.sub /\ ~IsWrite(db, Head(items))
        BY <1>1, <2>1, <2>2
      <3>2. db' = Withdraw(db, Head(items))
        BY <1>5, <2>1 DEF WithdrawNext
      <3> QED
        BY <1>1, <3>1, <3>2, WithdrawMoves
    <2>4. PICK new : new = [deleter[d] EXCEPT !.items = Tail(items)]
      OBVIOUS
    <2>5. deleter' = [deleter EXCEPT ![d] = new]
      BY <1>5, <2>1, <2>4 DEF WithdrawNext, IInv, TypeOK
    <2>6. /\ new \in DeleterRecord /\ new.stage = deleter[d].stage
          /\ new.stage = "withdraw"
          /\ new.waiting = deleter[d].waiting /\ new.items = Tail(items)
      BY <1>1, <1>5, <2>2, <2>4 DEF DeleterRecord, WithdrawNext
    <2>7. /\ new.waiting \subseteq DOMAIN db'.gen
          /\ ToSet(new.items) \subseteq {i \in DOMAIN db'.sub : ~IsWrite(db', i)}
      BY <1>1, <2>1, <2>2, <2>3, <2>6 DEF Moves, Grows, IsWrite
    <2> QED
      BY <1>5, <2>3, <2>5, <2>6, <2>7, DeletionMoves DEF WithdrawNext
  <1>6. CASE AbortBelow(d)
    <2>1. PICK tasks : tasks = Below(d)
      OBVIOUS
    <2>2. Moves(db, db') /\ DOMAIN db'.gen = DOMAIN db.gen
      BY <1>1, <1>6, <2>1, MarkMoves DEF AbortBelow
    <2>3. tasks \subseteq DOMAIN db.gen /\ tasks \in SUBSET Nat
      BY <1>1, <2>1, Fields DEF Below
    <2>4. Anchored(d) \in SUBSET Conversation
      BY DEF Anchored
    <2>5. PICK new : new = [deleter[d] EXCEPT !.stage = "check", !.waiting = tasks,
                                              !.anchors = Anchored(d)]
      OBVIOUS
    <2>6. deleter' = [deleter EXCEPT ![d] = new]
      BY <1>6, <2>1, <2>5 DEF AbortBelow, IInv, TypeOK
    <2>7. /\ new \in DeleterRecord /\ new.stage = "check" /\ new.waiting = tasks
          /\ new.items = deleter[d].items
      BY <1>1, <2>3, <2>4, <2>5 DEF DeleterRecord
    <2>8. /\ new.waiting \subseteq DOMAIN db'.gen
          /\ ToSet(new.items) \subseteq {i \in DOMAIN db'.sub : ~IsWrite(db', i)}
      BY <1>1, <2>2, <2>3, <2>7 DEF Moves, Grows, IsWrite
    <2> QED
      BY <1>6, <2>2, <2>6, <2>7, <2>8, DeletionMoves DEF AbortBelow
  <1>7. CASE NothingToAbort(d)
    <2>1. PICK new : new = [deleter[d] EXCEPT !.stage = "check"]
      OBVIOUS
    <2>2. deleter' = [deleter EXCEPT ![d] = new]
      BY <1>7, <2>1 DEF NothingToAbort, IInv, TypeOK
    <2>3. /\ new \in DeleterRecord /\ new.stage = "check" /\ new.waiting = deleter[d].waiting
          /\ new.items = deleter[d].items
      BY <1>1, <2>1 DEF DeleterRecord
    <2> QED
      BY <1>1, <1>7, <2>2, <2>3, DeletionMoves DEF NothingToAbort
  <1>8. CASE CheckWork(d)
    <2>1. PICK new \in {NoDeleter} \cup [stage : {"deleted", "inbox"}, now : BOOLEAN,
                                    items : {<<>>}, waiting : {{}}, anchors : {{}}] :
             /\ new.stage = "deleted" <=> ~WorkRemains(d)
             /\ new.stage = "inbox" => new.now
             /\ new # NoDeleter => new.now = deleter[d].now
             /\ deleter' = [deleter EXCEPT ![d] = new]
      BY <1>8, Zenon DEF CheckWork
    <2>2. new \in DeleterRecord /\ new.items = <<>> /\ new.waiting = {}
      <3>1. CASE new = NoDeleter
        BY <3>1 DEF NoDeleter, DeleterRecord
      <3>2. CASE new \in [stage : {"deleted", "inbox"}, now : BOOLEAN,
                          items : {<<>>}, waiting : {{}}, anchors : {{}}]
        <4>1. /\ new.stage \in {"deleted", "inbox"} /\ new.now \in BOOLEAN
              /\ new.items = <<>> /\ new.waiting = {} /\ new.anchors = {}
          BY <3>2
        <4>2. new = [stage |-> new.stage, now |-> new.now, items |-> new.items,
                     waiting |-> new.waiting, anchors |-> new.anchors]
          BY <3>2
        <4>3. new.items \in Seq(Nat)
          BY <4>1
        <4> QED
          BY <4>1, <4>2, <4>3 DEF DeleterRecord
      <3> QED
        BY <2>1, <3>1, <3>2
    <2>3. ToSet(new.items) = {}
      BY <2>2, NoElements DEF DeleterRecord
    <2>4. new.stage = "deleted" => ~Busy(db, d)
      BY <2>1 DEF WorkRemains
    <2> QED
      BY <1>1, <1>8, <2>1, <2>2, <2>3, <2>4, DeletionMoves DEF CheckWork
  <1>9. CASE Deleted(d)
    <2>1. db' = NowIn(db, d, "deleted") /\ deleter' = [deleter EXCEPT ![d] = NoDeleter]
      BY <1>9 DEF Deleted, NowIn
    <2>2. /\ AllRest(db') /\ db'.sub = db.sub /\ db'.gen = db.gen /\ db'.run = db.run
          /\ db'.lifecycle[d] = "deleted"
          /\ \A e \in Conversation : e # d => db'.lifecycle[e] = db.lifecycle[e]
      <3>1. LifecycleIs(db, db', d, "deleted")
        BY <1>1, <2>1, LifecycleMoves
      <3> QED
        BY <3>1 DEF LifecycleIs
    <2>3. NoDeleter \in DeleterRecord /\ NoDeleter.stage = "idle" /\ NoDeleter.waiting = {}
          /\ NoDeleter.items = <<>>
      BY DEF NoDeleter, DeleterRecord
    <2>4. ToSet(NoDeleter.items) = {}
      BY <2>3, NoElements DEF DeleterRecord
    <2>5. Parent[d] = NoConversation => ~Busy(db, d)
      BY <1>9 DEF Deleted, IInv, DeletionSound
    <2>6. Grows(db, db') /\ \A e \in Conversation : Busy(db', e) <=> Busy(db, e)
      <3>1. Goes(db, db')
        BY <2>2, GoesStill
      <3> QED
        BY <2>2, <3>1 DEF Grows, Busy
    <2> QED
      BY <1>1, <1>9, <2>1, <2>2, <2>3, <2>4, <2>5, <2>6, DeletionKeeps DEF Deleted
  <1> QED
    BY <1>2, <1>3, <1>4, <1>5, <1>6, <1>7, <1>8, <1>9 DEF DeleteStep

\* A restart keeps the invariant: what is in the database stays, the callers are gone.
LEMMA RestartKeeps ==
    ASSUME IInv, Restart
    PROVE  Keeps
  <1>1. AllRest(db') /\ db' = db
    BY DEF IInv, Restart
  <1>2. NoCanceller \in CancellerRecord /\ NoCanceller.stage = "idle"
    BY DEF NoCanceller, CancellerRecord, NoSubmission, NoTask
  <1>3. NoDeleter \in DeleterRecord /\ NoDeleter.stage = "idle" /\ NoDeleter.waiting = {}
        /\ NoDeleter.items = <<>>
    BY DEF NoDeleter, DeleterRecord
  <1>4. ToSet(NoDeleter.items) = {}
    BY <1>3, NoElements DEF DeleterRecord
  <1>5. restarts' \in 0 .. MaxRestarts
    BY BoundsAssumption DEF IInv, TypeOK, Restart
  <1>6. deleter' \in [Deletable -> DeleterRecord] /\ \A d \in Deletable : deleter'[d] = NoDeleter
    BY <1>3 DEF Restart
  <1>7. TypeOK'
    BY <1>1, <1>2, <1>3, <1>5, <1>6 DEF IInv, TypeOK, Restart, Submissions
  <1>8. DeletionSound'
    BY <1>1, <1>3, <1>6 DEF IInv, DeletionSound
  <1>9. CallersSound'
    BY <1>1, <1>2, <1>4, <1>6 DEF CallersSound, Restart
  <1>10. Goes(db, db')
    BY <1>1, GoesStill
  <1> QED
    BY <1>1, <1>7, <1>8, <1>9, <1>10 DEF IInv, Keeps, Grows

\* The invariant holds at the start.
LEMMA InitHolds ==
    ASSUME Init
    PROVE  IInv
  <1>1. PICK inbox : inbox = [c \in Conversation |-> <<>>]
    OBVIOUS
  <1>2. PICK run : run = [c \in Conversation |-> NoRun]
    OBVIOUS
  <1>3. PICK head : head = [c \in Conversation |-> NoEntry]
    OBVIOUS
  <1>4. PICK doc : doc = [c \in Conversation |-> NoDoc]
    OBVIOUS
  <1>5. PICK lifecycle : lifecycle = [c \in Conversation |-> "active"]
    OBVIOUS
  <1>6. db = Base(<<>>, <<>>, inbox, run, head, 0, doc, lifecycle)
    BY <1>1, <1>2, <1>3, <1>4, <1>5 DEF Init, Base
  <1>7. /\ db.sub = <<>> /\ db.gen = <<>> /\ db.inbox = inbox /\ db.run = run /\ db.head = head
        /\ db.entries = 0 /\ db.doc = doc /\ db.lifecycle = lifecycle
    BY <1>6 DEF Base
  <1>8. /\ <<>> \in Seq(SubmissionRecord) /\ <<>> \in Seq(GenerationRecord) /\ <<>> \in Seq(Nat)
        /\ DOMAIN <<>> = {}
    OBVIOUS
  <1>9. NoRun \in RunRecord /\ NoRun.inputs = <<>> /\ NoRun.task = 0
    BY BoundsAssumption DEF NoRun, RunRecord, NoTask
  <1>10. NoDoc \in TaskDoc /\ NoDoc.contracts = {}
    BY DEF NoDoc, TaskDoc, NoSubmission
  <1>11. WellFormed(db)
    <2>1. /\ inbox \in [Conversation -> Seq(Nat)] /\ run \in [Conversation -> RunRecord]
          /\ head \in [Conversation -> Nat] /\ doc \in [Conversation -> TaskDoc]
          /\ lifecycle \in [Conversation -> {"active", "closing", "deleted"}]
      BY <1>1, <1>2, <1>3, <1>4, <1>5, <1>8, <1>9, <1>10 DEF NoEntry
    <2>2. db \in Database
      BY <1>6, <1>8, <2>1 DEF Base, Database
    <2>3. \A c \in Conversation : db.head[c] <= db.entries
                                  /\ db.doc[c].contracts \subseteq DOMAIN db.sub
      BY <1>3, <1>4, <1>7, <1>10 DEF NoEntry
    <2> QED
      BY <1>7, <1>8, <2>2, <2>3 DEF WellFormed
  <1>12. Named(db)
    BY <1>7, <1>8 DEF Named
  <1>13. ASSUME NEW c \in Conversation PROVE AtRest(db, c)
    <2>1. /\ db.inbox[c] = <<>> /\ db.run[c] = NoRun /\ ~Busy(db, c)
          /\ OfIn(db, c) = {} /\ \A status : InState(db, c, status) = {}
          /\ DOMAIN db.gen = {}
      BY <1>1, <1>2, <1>7, <1>8 DEF OfIn, InState, Busy
    <2>2. ToSet(db.inbox[c]) = {} /\ Inputs(db, c) = {} /\ db.run[c].inputs = <<>>
      BY <1>8, <1>9, <2>1, NoElements DEF Inputs
    <2>3. InboxSound(db, c)
      <3>1. Ascending(db.inbox[c])
        BY <1>8, <2>1 DEF Ascending
      <3> QED
        BY <2>1, <2>2, <3>1 DEF InboxSound
    <2>4. RunSound(db, c, {})
      <3>1. IsInjective(db.run[c].inputs)
        BY <1>8, <2>2 DEF IsInjective
      <3> QED
        BY <2>1, <2>2, <3>1 DEF RunSound
    <2>5. GenSound(db, c, NoTask)
      BY <2>1 DEF GenSound
    <2>6. ResetSound(db, c) /\ CutOff(db, c, Inputs(db, c))
      BY <2>1 DEF ResetSound, CutOff
    <2>7. Handed(db, c, Inputs(db, c))
      BY <2>1 DEF Handed, HandedBack, RunsIn
    <2>8. Served(db, c)
      BY <2>1 DEF Served, KeysOnce, InTurn, DisplayHeld
    <2> QED
      BY <2>1, <2>3, <2>4, <2>5, <2>6, <2>7, <2>8 DEF AtRest, Resting, Sound
  <1>14. AllRest(db)
    BY <1>11, <1>12, <1>13 DEF AllRest
  <1>15. canceller = NoCanceller /\ NoCanceller \in CancellerRecord /\ NoCanceller.stage = "idle"
    BY DEF Init, NoCanceller, CancellerRecord, NoSubmission, NoTask
  <1>16. NoDeleter \in DeleterRecord /\ NoDeleter.stage = "idle" /\ NoDeleter.waiting = {}
         /\ NoDeleter.items = <<>>
    BY DEF NoDeleter, DeleterRecord
  <1>17. /\ deleter \in [Deletable -> DeleterRecord] /\ \A d \in Deletable : deleter[d] = NoDeleter
    BY <1>16 DEF Init
  <1>18. TypeOK
    BY <1>11, <1>15, <1>16, <1>17, BoundsAssumption DEF TypeOK, WellFormed, Submissions, Init
  <1>19. DeletionSound
    <2>1. \A d \in Deletable : db.lifecycle[d] = "active"
      BY <1>5, <1>7, CallersAssumption
    <2> QED
      BY <1>16, <1>17, <2>1 DEF DeletionSound
  <1>20. CallersSound
    <2>1. ToSet(NoDeleter.items) = {}
      BY <1>16, NoElements DEF DeleterRecord
    <2> QED
      BY <1>15, <1>17, <2>1 DEF CallersSound
  <1> QED
    BY <1>14, <1>18, <1>19, <1>20 DEF IInv

\* Every step keeps the invariant.
LEMMA NextKeeps ==
    ASSUME IInv, [Next]_vars
    PROVE  Keeps
  <1>1. CASE \E c \in Conversation : \E draft \in Drafts[c] : Submit(c, draft)
    BY <1>1, SubmitKeeps
  <1>2. CASE \E g \in DOMAIN db.gen : HandlerStep(g) \/ SchedulerOutcome(g)
    BY <1>2, HandlerKeeps
  <1>3. CASE \E g \in DOMAIN db.gen, c \in Conversation, draft \in FollowUps :
                Spawn(g, c, draft) \/ Follow(g, c, draft)
    BY <1>3, SpawnKeeps, FollowKeeps
  <1>4. CASE \E c \in Conversation : AnchorEnds(c)
    BY <1>4, AnchorKeeps
  <1>5. CASE \/ \E c \in Cancellable : CancelCurrent(c)
             \/ \E i \in DOMAIN db.sub : CancelRunId(i)
             \/ CancelStep
    BY <1>5, CancelKeeps
  <1>6. CASE \E d \in Deletable : Closing(d) \/ DeleteStep(d)
    BY <1>6, DeleteKeeps
  <1>7. CASE Restart
    BY <1>7, RestartKeeps
  <1>8. CASE UNCHANGED vars
    BY <1>8, StaysMoves, CommitKeeps DEF vars, OnlyDb
  <1> QED
    BY <1>1, <1>2, <1>3, <1>4, <1>5, <1>6, <1>7, <1>8 DEF Next

\* The inductive invariant: every conversation is at rest between two commits, a deletion has
\* counted what it has to wait for, and a caller holds what it will withdraw.
THEOREM ConversationsInvariant == Spec => []IInv
  <1>1. Init => IInv
    BY InitHolds
  <1>2. IInv /\ [Next]_vars => IInv'
    BY NextKeeps DEF Keeps
  <1> QED
    BY <1>1, <1>2, PTL DEF Spec

-----------------------------------------------------------------------------
(* What follows. *)

\* The state, the callers and what they remember have their types.
THEOREM ConversationsTypeCorrect == Spec => []TypeOK
  <1>1. IInv => TypeOK
    BY DEF IInv
  <1> QED
    BY <1>1, ConversationsInvariant, PTL

\* A submission is in exactly one place, and nothing waits for a conversation that is
\* idle: no commit loses an input or takes it up twice (inbox.rs, submit.rs, live.rs).
THEOREM EveryInputAccounted == Spec => []InputsAccounted
  <1>1. ASSUME IInv, NEW c \in Conversation
        PROVE  /\ Distinct(db.inbox[c])
               /\ Waiting(c) = {i \in Of(c) : db.sub[i].status = "queued"}
               /\ Distinct(db.run[c].inputs)
               /\ Running(c) = {i \in Of(c) : db.sub[i].status = "placed"}
               /\ ~Busy(db, c) => db.inbox[c] = <<>>
    <2>1. /\ Sound(db, c, {}, NoTask) /\ db \in Database
          /\ ~Busy(db, c) => db.inbox[c] = <<>>
      BY <1>1 DEF IInv, AllRest, AtRest, Resting, WellFormed
    <2>2. db.inbox[c] \in Seq(Nat) /\ db.run[c].inputs \in Seq(Nat)
      BY <2>1, Fields
    <2>3. Distinct(db.inbox[c])
      BY <2>1, <2>2, AscendingOnce, CountsOnce DEF Sound, InboxSound
    <2>4. Distinct(db.run[c].inputs)
      BY <2>1, <2>2, CountsOnce DEF Sound, RunSound
    <2>5. Waiting(c) = {i \in Of(c) : db.sub[i].status = "queued"}
      BY <2>1 DEF Sound, InboxSound, InState, OfIn, Waiting, Of, Submissions
    <2>6. Running(c) = {i \in Of(c) : db.sub[i].status = "placed"}
      BY <2>1 DEF Sound, RunSound, InState, OfIn, Inputs, Running, Of, Submissions
    <2> QED
      BY <2>1, <2>3, <2>4, <2>5, <2>6
  <1>2. IInv => InputsAccounted
    BY <1>1 DEF InputsAccounted
  <1> QED
    BY <1>2, ConversationsInvariant, PTL

\* A reset is a cut: what is sent after it lands after it, and no live run has inputs
\* from before it (submit.rs, inbox.rs, generation.rs).
THEOREM ResetsCutOff == Spec => []ResetCutsOff
  <1>1. ASSUME IInv, NEW r \in Submissions, IsReset(db, r)
        PROVE  /\ \A j \in Of(db.sub[r].conversation) :
                    j > r /\ db.sub[j].entry # NoEntry =>
                       db.sub[r].status = "done" /\ db.sub[r].entry < db.sub[j].entry
               /\ \A i \in Running(db.sub[r].conversation) :
                    db.sub[r].status = "done" => db.sub[r].entry < db.sub[i].entry
    <2>1. PICK c \in Conversation : c = db.sub[r].conversation
      <3>1. db.sub[r] \in SubmissionRecord
        BY <1>1, Fields DEF IInv, AllRest, WellFormed, Submissions
      <3> QED
        BY <3>1 DEF SubmissionRecord
    <2>2. ResetSound(db, c) /\ CutOff(db, c, Inputs(db, c))
      BY <1>1 DEF IInv, AllRest, AtRest, Resting, Sound
    <2>3. r \in OfIn(db, c)
      BY <2>1 DEF OfIn, Submissions
    <2>4. Of(c) = OfIn(db, c) /\ Running(c) = Inputs(db, c)
      BY DEF Of, OfIn, Running, Inputs, Submissions
    <2>5. \A j \in Of(c) : j > r /\ db.sub[j].entry # NoEntry =>
             db.sub[r].status = "done" /\ db.sub[r].entry < db.sub[j].entry
      BY <1>1, <2>2, <2>3, <2>4 DEF ResetSound
    <2>6. \A i \in Running(c) : db.sub[r].status = "done" => db.sub[r].entry < db.sub[i].entry
      BY <1>1, <2>2, <2>3, <2>4 DEF CutOff
    <2> QED
      BY <2>1, <2>5, <2>6
  <1>2. IInv => ResetCutsOff
    BY <1>1 DEF ResetCutsOff
  <1> QED
    BY <1>2, ConversationsInvariant, PTL

\* A background task reports each of its runs once to the conversation that dispatched
\* it, or goes on once by itself, and never before the run is over; only a session that
\* is being deleted gets no report (orchestration/report.rs).
THEOREM RunsHandedBackOnce == Spec => []TaskRunsHandBack
  <1>1. ASSUME IInv, NEW c \in Conversation, Parent[c] # NoConversation,
               NEW first \in RunsOf(c)
        PROVE  LET results == From("result", c, first)
                   continuations == From("continue", c, first)
                   handed == Cardinality(results \cup continuations)
               IN  IF first \in Running(c) THEN handed = 0
                   ELSE /\ handed = 1 \/ (handed = 0 /\ db.lifecycle[Parent[c]] # "active")
                        /\ results \subseteq Of(Parent[c])
                        /\ db.sub[first].draft.from.what = "continue" => continuations = {}
    <2>1. HandedBack(db, c, Inputs(db, c)) /\ Named(db)
      BY <1>1 DEF IInv, AllRest, AtRest, Resting, Handed
    <2>2. /\ RunsOf(c) = RunsIn(db, c) /\ Running(c) = Inputs(db, c)
          /\ From("result", c, first) = FromIn(db, "result", c, first)
          /\ From("continue", c, first) = FromIn(db, "continue", c, first)
      BY DEF RunsOf, RunsIn, Of, OfIn, Running, Inputs, From, FromIn, Source, Submissions
    <2>3. PICK after : after = After(db, c, first)
      OBVIOUS
    <2>4. /\ first \in Inputs(db, c) => after = {}
          /\ first \notin Inputs(db, c) =>
               \/ \E j \in after : after = {j}
               \/ after = {} /\ db.lifecycle[Parent[c]] # "active"
          /\ db.sub[first].draft.from.what = "continue" => FromIn(db, "continue", c, first) = {}
      BY <2>1, <2>2, <2>3 DEF HandedBack
    <2>5. FromIn(db, "result", c, first) \subseteq Of(Parent[c])
      <3> SUFFICES ASSUME NEW j \in FromIn(db, "result", c, first) PROVE j \in Of(Parent[c])
        OBVIOUS
      <3>1. j \in DOMAIN db.sub /\ db.sub[j].draft.from = Source("result", c, first)
        BY DEF FromIn
      <3>2. db.sub[j].draft.from.what = "result" /\ db.sub[j].draft.from.of = c
        BY <3>1 DEF Source
      <3> QED
        BY <2>1, <3>1, <3>2 DEF Named, Of, Submissions
    <2>6. Cardinality(after) = 0 \/ after # {}
      BY FS_EmptySet
    <2>7. (\E j \in after : after = {j}) => Cardinality(after) = 1
      BY FS_Singleton
    <2>8. after = From("result", c, first) \cup From("continue", c, first)
      BY <2>2, <2>3 DEF After
    <2> QED
      BY <2>2, <2>4, <2>5, <2>6, <2>7, <2>8
  <1>2. IInv => TaskRunsHandBack
    BY <1>1 DEF TaskRunsHandBack
  <1> QED
    BY <1>2, ConversationsInvariant, PTL

\* A session that was deleted is quiet: no commit gives it another run (lifecycle.rs).
\* This is about sessions of conversations that no task tool dispatched.
THEOREM DeletedStaysQuiet ==
    ASSUME \A d \in Deletable : Parent[d] = NoConversation
    PROVE  Spec => []DeletedIsQuiet
  <1>1. ASSUME IInv, NEW d \in Deletable, db.lifecycle[d] = "deleted"
        PROVE  ~Busy(db, d) /\ \A i \in Waiting(d) : IsWrite(db, i)
    <2>1. d \in Conversation /\ Parent[d] = NoConversation
      BY CallersAssumption
    <2>2. ~Busy(db, d)
      BY <1>1, <2>1 DEF IInv, DeletionSound
    <2>3. db.inbox[d] = <<>>
      BY <1>1, <2>1, <2>2 DEF IInv, AllRest, AtRest, Resting
    <2>4. Waiting(d) = {}
      BY <2>3, EmptySeq, NoElements DEF Waiting
    <2> QED
      BY <2>2, <2>4
  <1>2. IInv => DeletedIsQuiet
    BY <1>1 DEF DeletedIsQuiet
  <1> QED
    BY <1>2, ConversationsInvariant, PTL
-----------------------------------------------------------------------------
(* The refinement of SubmissionLedger. *)

\* What the ledger has of a submission.
LEMMA AcceptedIs ==
    ASSUME NEW x \in SubmissionRecord
    PROVE  /\ x.conversation \in Conversation /\ x.draft \in SubmissionDraft
           /\ Accepted(x).conversation = x.conversation
           /\ Accepted(x).class = ClassOf(x.draft) /\ Accepted(x).key = KeyOf(x.draft)
           /\ Accepted(x).entry = x.entry /\ Accepted(x).run = x.run
           /\ Accepted(x).status = "waiting" <=> x.status = "queued"
           /\ Accepted(x).status = "running" <=> x.status = "placed"
           /\ \A status \in {"done", "unanswered", "withdrawn"} :
                Accepted(x).status = status <=> x.status = status
  <1>1. /\ x.conversation \in Conversation /\ x.draft \in SubmissionDraft
        /\ x.status \in {"queued", "placed", "done", "unanswered", "withdrawn"}
    BY DEF SubmissionRecord
  <1>2. /\ StatusOf(x) = "waiting" <=> x.status = "queued"
        /\ StatusOf(x) = "running" <=> x.status = "placed"
        /\ \A status \in {"done", "unanswered", "withdrawn"} :
             StatusOf(x) = status <=> x.status = status
    BY <1>1 DEF StatusOf
  <1>3. Accepted(x).status = StatusOf(x)
    BY DEF Accepted
  <1>4. /\ Accepted(x).conversation = x.conversation
        /\ Accepted(x).class = ClassOf(x.draft) /\ Accepted(x).key = KeyOf(x.draft)
        /\ Accepted(x).entry = x.entry /\ Accepted(x).run = x.run
    BY DEF Accepted
  <1> QED
    BY <1>1, <1>2, <1>3, <1>4

\* Every submission is in one conversation, and what is placed is in its live run.
LEMMA Somewhere ==
    ASSUME NEW s, AllRest(s), NEW i \in DOMAIN s.sub
    PROVE  /\ s.sub[i] \in SubmissionRecord /\ i # NoSubmission
           /\ \E c \in Conversation : i \in OfIn(s, c) /\ AtRest(s, c)
           /\ s.sub[i].status = "placed" =>
                \E c \in Conversation :
                    /\ s.sub[i].conversation = c /\ i \in Inputs(s, c)
                    /\ s.sub[i].run = First(s, c) /\ First(s, c) # NoSubmission
                    /\ CutOff(s, c, Inputs(s, c)) /\ ~IsWrite(s, i)
  <1>1. /\ s \in Database /\ s.sub[i] \in SubmissionRecord
        /\ \A n \in DOMAIN s.sub : n # NoSubmission
    BY Fields DEF AllRest, WellFormed, NoSubmission
  <1>2. PICK c \in Conversation : c = s.sub[i].conversation
    BY <1>1 DEF SubmissionRecord
  <1>3. i \in OfIn(s, c) /\ AtRest(s, c)
    BY <1>2 DEF OfIn, AllRest
  <1>4. ASSUME s.sub[i].status = "placed"
        PROVE  /\ i \in Inputs(s, c)
               /\ s.sub[i].run = First(s, c) /\ First(s, c) # NoSubmission
               /\ CutOff(s, c, Inputs(s, c)) /\ ~IsWrite(s, i)
    <2>1. RunSound(s, c, {}) /\ CutOff(s, c, Inputs(s, c))
      BY <1>3 DEF AtRest, Resting, Sound
    <2>2. i \in InState(s, c, "placed")
      BY <1>3, <1>4 DEF InState
    <2>3. i \in Inputs(s, c) /\ s.sub[i].run = First(s, c) /\ ~IsWrite(s, i)
      BY <2>1, <2>2 DEF RunSound
    <2>4. First(s, c) # NoSubmission
      <3>1. s.run[c].inputs \in Seq(Nat)
        BY <1>1, Fields
      <3>2. s.run[c].inputs # <<>>
        BY <2>3, <3>1, NoElements DEF Inputs
      <3>3. First(s, c) \in Inputs(s, c)
        BY <3>1, <3>2, NoElements DEF First, Inputs
      <3>4. First(s, c) \in DOMAIN s.sub
        BY <2>1, <3>3 DEF RunSound, InState, OfIn
      <3> QED
        BY <1>1, <3>4
    <2> QED
      BY <2>1, <2>3, <2>4
  <1> QED
    BY <1>1, <1>2, <1>3, <1>4

\* The ledger of a database at rest is lawful.
LEMMA LedgerLawful ==
    ASSUME NEW s, AllRest(s)
    PROVE  Promise!Lawful(LedgerOf(s))
  <1>1. PICK book : book = LedgerOf(s)
    OBVIOUS
  <1>2. DOMAIN book = DOMAIN s.sub /\ \A i \in DOMAIN s.sub : book[i] = Accepted(s.sub[i])
    BY <1>1 DEF LedgerOf
  <1>3. s \in Database /\ \A i \in DOMAIN s.sub : i \in Nat
    BY Fields DEF AllRest, WellFormed
  <1>4. Promise!OncePerKey(book)
    <2> SUFFICES ASSUME NEW i \in DOMAIN s.sub, NEW j \in DOMAIN s.sub,
                        Promise!Together(book[i], book[j]), book[i].key = book[j].key,
                        book[i].key # NoKey
                 PROVE  i = j
      BY <1>2 DEF Promise!OncePerKey
    <2>1. /\ s.sub[i] \in SubmissionRecord /\ s.sub[j] \in SubmissionRecord
          /\ \E c \in Conversation : i \in OfIn(s, c) /\ AtRest(s, c)
      BY Somewhere
    <2>2. PICK c \in Conversation : i \in OfIn(s, c) /\ AtRest(s, c)
      BY <2>1
    <2>3. j \in OfIn(s, c)
      BY <1>2, <2>1, <2>2, AcceptedIs DEF OfIn, Promise!Together
    <2>4. KeyOf(s.sub[i].draft) = KeyOf(s.sub[j].draft) /\ KeyOf(s.sub[i].draft) # NoKey
      BY <1>2, <2>1, AcceptedIs
    <2>5. Keyed(s.sub[i].draft) /\ s.sub[i].draft.from = s.sub[j].draft.from
      BY <2>4 DEF KeyOf, Keyed
    <2>6. KeysOnce(s, c)
      BY <2>2 DEF AtRest, Resting, Sound, Served
    <2> QED
      BY <2>2, <2>3, <2>5, <2>6 DEF KeysOnce
  <1>5. ASSUME NEW i \in DOMAIN book PROVE Promise!Served(book[i])
    <2>1. /\ i \in DOMAIN s.sub /\ s.sub[i] \in SubmissionRecord
          /\ \E c \in Conversation : i \in OfIn(s, c) /\ AtRest(s, c)
      BY <1>2, Somewhere
    <2>2. PICK c \in Conversation : i \in OfIn(s, c) /\ AtRest(s, c)
      BY <2>1
    <2>3. PICK x \in SubmissionRecord : x = s.sub[i]
      BY <2>1
    <2>4. PICK y : y = Accepted(x)
      OBVIOUS
    <2>5. y.class \in {"steer", "followUp"} <=> x.draft.kind # "write"
      BY <2>4, AcceptedIs, ClassIs
    <2>6. ServedWell(x)
      BY <2>2, <2>3 DEF AtRest, Resting, Sound, Served
    <2>7. x.status = "queued" => x.entry = NoEntry /\ x.run = NoSubmission
      BY <2>2, <2>3 DEF AtRest, Resting, Sound, InboxSound, InState
    <2>8. x.status = "placed" => x.draft.kind # "write" /\ x.run # NoSubmission
      BY <2>1, <2>3, Somewhere DEF IsWrite
    <2>9. /\ y.entry = x.entry /\ y.run = x.run
          /\ y.status = "waiting" <=> x.status = "queued"
          /\ y.status = "running" <=> x.status = "placed"
          /\ y.status = "done" <=> x.status = "done"
          /\ y.status = "withdrawn" <=> x.status = "withdrawn"
      BY <2>4, AcceptedIs
    <2>10. Promise!Served(y)
      BY <2>5, <2>6, <2>7, <2>8, <2>9
         DEF ServedWell, Promise!Served, Promise!Nothing, NoEntry, NoSubmission
    <2> QED
      BY <1>2, <2>1, <2>3, <2>4, <2>10
  <1>6. Promise!InTurn(book)
    <2> SUFFICES ASSUME NEW i \in DOMAIN s.sub, NEW j \in DOMAIN s.sub, i < j,
                        Promise!Behind(book[i], book[j]), book[j].entry # Promise!Nothing
                 PROVE  book[i].status # "waiting" /\ book[i].entry < book[j].entry
      BY <1>2 DEF Promise!InTurn
    <2>1. /\ s.sub[i] \in SubmissionRecord /\ s.sub[j] \in SubmissionRecord
          /\ \E c \in Conversation : i \in OfIn(s, c) /\ AtRest(s, c)
      BY Somewhere
    <2>2. PICK c \in Conversation : i \in OfIn(s, c) /\ AtRest(s, c)
      BY <2>1
    <2>3. /\ j \in OfIn(s, c) /\ s.sub[j].entry # NoEntry
          /\ \/ ClassOf(s.sub[i].draft) = ClassOf(s.sub[j].draft)
             \/ ClassOf(s.sub[i].draft) = "reset"
      BY <1>2, <2>1, <2>2, AcceptedIs
         DEF OfIn, Promise!Behind, Promise!Together, Promise!Nothing, NoEntry
    <2>4. s.sub[i].status # "queued" /\ s.sub[i].entry < s.sub[j].entry
      <3>1. CASE ClassOf(s.sub[i].draft) = ClassOf(s.sub[j].draft)
        <4>1. InTurn(s, c)
          BY <2>2 DEF AtRest, Resting, Sound, Served
        <4> QED
          BY <2>2, <2>3, <3>1, <4>1 DEF InTurn, SameClass
      <3>2. CASE ClassOf(s.sub[i].draft) = "reset"
        <4>1. IsReset(s, i)
          BY <2>1, <3>2, AcceptedIs, ClassIs DEF IsReset, IsWrite
        <4>2. ResetSound(s, c)
          BY <2>2 DEF AtRest, Resting, Sound
        <4>3. s.sub[i].status = "done" /\ s.sub[i].entry < s.sub[j].entry
          BY <1>3, <2>2, <2>3, <4>1, <4>2 DEF ResetSound
        <4> QED
          BY <4>3
      <3> QED
        BY <2>3, <3>1, <3>2
    <2> QED
      BY <1>2, <2>1, <2>4, AcceptedIs
  <1>7. Promise!OneRun(book)
    <2> SUFFICES ASSUME NEW i \in DOMAIN s.sub, NEW j \in DOMAIN s.sub,
                        Promise!Together(book[i], book[j]), book[j].status = "running"
                 PROVE  /\ book[i].status = "running" => book[i].run = book[j].run
                        /\ book[i].class = "reset" /\ book[i].status = "done" =>
                             book[i].entry < book[j].entry
      BY <1>2 DEF Promise!OneRun
    <2>1. /\ s.sub[i] \in SubmissionRecord /\ s.sub[j] \in SubmissionRecord
          /\ s.sub[j].status = "placed"
      BY <1>2, Somewhere, AcceptedIs
    <2>2. PICK c \in Conversation :
            /\ s.sub[j].conversation = c /\ j \in Inputs(s, c)
            /\ s.sub[j].run = First(s, c) /\ CutOff(s, c, Inputs(s, c))
      BY <2>1, Somewhere
    <2>3. i \in OfIn(s, c)
      BY <1>2, <2>1, <2>2, AcceptedIs DEF OfIn, Promise!Together
    <2>4. ASSUME book[i].status = "running" PROVE book[i].run = book[j].run
      <3>1. s.sub[i].status = "placed"
        BY <1>2, <2>1, <2>4, AcceptedIs
      <3>2. s.sub[i].run = First(s, c)
        BY <2>3, <3>1, Somewhere DEF OfIn
      <3> QED
        BY <1>2, <2>1, <2>2, <3>2, AcceptedIs
    <2>5. ASSUME book[i].class = "reset", book[i].status = "done"
          PROVE  book[i].entry < book[j].entry
      <3>1. s.sub[i].status = "done" /\ ClassOf(s.sub[i].draft) = "reset"
        BY <1>2, <2>1, <2>5, AcceptedIs
      <3>2. IsReset(s, i)
        BY <2>1, <3>1, AcceptedIs, ClassIs DEF IsReset, IsWrite
      <3>3. s.sub[i].entry < s.sub[j].entry
        BY <2>2, <2>3, <3>1, <3>2 DEF CutOff
      <3> QED
        BY <1>2, <2>1, <3>3, AcceptedIs
    <2> QED
      BY <2>4, <2>5
  <1> QED
    BY <1>1, <1>4, <1>5, <1>6, <1>7 DEF Promise!Lawful

\* When submissions come in and go on, so does the ledger.
LEMMA LedgerGoes ==
    ASSUME NEW s, AllRest(s), NEW t, AllRest(t), Grows(s, t)
    PROVE  Promise!Goes(LedgerOf(s), LedgerOf(t))
  <1>1. PICK book : book = LedgerOf(s)
    OBVIOUS
  <1>2. PICK next : next = LedgerOf(t)
    OBVIOUS
  <1>3. /\ DOMAIN book = DOMAIN s.sub /\ \A i \in DOMAIN s.sub : book[i] = Accepted(s.sub[i])
        /\ DOMAIN next = DOMAIN t.sub /\ \A i \in DOMAIN t.sub : next[i] = Accepted(t.sub[i])
    BY <1>1, <1>2 DEF LedgerOf
  <1>4. DOMAIN s.sub \subseteq DOMAIN t.sub
    BY DEF Grows
  <1>5. ASSUME NEW i \in DOMAIN book PROVE Promise!Advances(book[i], next[i])
    <2>1. /\ i \in DOMAIN s.sub /\ i \in DOMAIN t.sub
          /\ s.sub[i] \in SubmissionRecord /\ t.sub[i] \in SubmissionRecord
      BY <1>3, <1>4, Somewhere
    <2>2. PICK x \in SubmissionRecord : x = s.sub[i]
      BY <2>1
    <2>3. PICK y \in SubmissionRecord : y = t.sub[i]
      BY <2>1
    <2>4. Advances(x, y)
      BY <2>1, <2>2, <2>3 DEF Grows, Goes
    <2>5. PICK a : a = Accepted(x)
      OBVIOUS
    <2>6. PICK b : b = Accepted(y)
      OBVIOUS
    <2>7. /\ a.conversation = x.conversation /\ a.class = ClassOf(x.draft)
          /\ a.key = KeyOf(x.draft) /\ a.entry = x.entry /\ a.run = x.run
          /\ a.status = "running" <=> x.status = "placed"
          /\ \A status \in {"done", "unanswered", "withdrawn"} :
               a.status = status <=> x.status = status
      BY <2>5, AcceptedIs
    <2>8. /\ b.conversation = y.conversation /\ b.class = ClassOf(y.draft)
          /\ b.key = KeyOf(y.draft) /\ b.entry = y.entry /\ b.run = y.run
          /\ b.status = "running" <=> y.status = "placed"
          /\ \A status \in {"done", "unanswered", "withdrawn"} :
               b.status = status <=> y.status = status
      BY <2>6, AcceptedIs
    <2>9. /\ b.conversation = a.conversation /\ b.class = a.class /\ b.key = a.key
          /\ a.entry # NoEntry => b.entry = a.entry
          /\ a.run # NoSubmission => b.run = a.run
      BY <2>4, <2>7, <2>8 DEF Advances
    <2>10. a.status = "running" => b.status \in {"running", "done", "unanswered"}
      BY <2>4, <2>7, <2>8 DEF Advances
    <2>11. a.status \in Promise!Over => b = a
      BY <2>4, <2>5, <2>6, <2>7 DEF Advances, Promise!Over
    <2>12. Promise!Advances(a, b)
      BY <2>9, <2>10, <2>11 DEF Promise!Advances, Promise!Nothing, NoEntry, NoSubmission
    <2> QED
      BY <1>3, <2>1, <2>2, <2>3, <2>5, <2>6, <2>12
  <1>6. Promise!EndTogether(book, next)
    <2> SUFFICES ASSUME NEW i \in DOMAIN s.sub, NEW j \in DOMAIN s.sub,
                        Promise!Together(book[i], book[j]),
                        book[i].status = "running", book[j].status = "running"
                 PROVE  next[i].status = next[j].status
      BY <1>3 DEF Promise!EndTogether
    <2>1. /\ s.sub[i] \in SubmissionRecord /\ s.sub[j] \in SubmissionRecord
          /\ i \in DOMAIN t.sub /\ j \in DOMAIN t.sub
          /\ s.sub[i].status = "placed" /\ s.sub[j].status = "placed"
          /\ s.sub[i].conversation = s.sub[j].conversation
      BY <1>3, <1>4, Somewhere, AcceptedIs DEF Promise!Together
    <2>2. OfOneRun(s.sub[i], s.sub[j])
      BY <2>1, Somewhere DEF OfOneRun
    <2>3. t.sub[i].status = t.sub[j].status
      BY <2>2 DEF Grows, Goes
    <2>4. Accepted(t.sub[i]).status = Accepted(t.sub[j]).status
      <3>1. StatusOf(t.sub[i]) = StatusOf(t.sub[j])
        BY <2>3, Zenon DEF StatusOf
      <3>2. \A x : Accepted(x).status = StatusOf(x)
        BY DEF Accepted
      <3> QED
        BY <3>1, <3>2
    <2> QED
      BY <1>3, <2>1, <2>4
  <1> QED
    BY <1>1, <1>2, <1>3, <1>4, <1>5, <1>6 DEF Promise!Goes

\* The conversations keep the ledger of submissions: whatever is sent, in whatever order
\* runs end, are cancelled or fail, a request key is accepted once, each class is served in
\* its order, nothing passes a reset, and the inputs of a run end together (submit.rs,
\* inbox.rs, live.rs).
THEOREM ConversationsKeepLedger == Spec => KeepsLedger
  <1>1. Init => Promise!Init
    <2> SUFFICES ASSUME Init PROVE LedgerOf(db) = <<>>
      BY DEF Promise!Init
    <2>1. db.sub = <<>>
      BY DEF Init
    <2> QED
      BY <2>1 DEF LedgerOf
  <1>2. IInv => Promise!Lawful(LedgerOf(db))
    BY LedgerLawful DEF IInv
  <1>3. IInv /\ [Next]_vars => [Promise!Step]_(LedgerOf(db))
    <2> SUFFICES ASSUME IInv, [Next]_vars PROVE Promise!Step
      OBVIOUS
    <2>1. AllRest(db) /\ AllRest(db') /\ Grows(db, db')
      BY NextKeeps DEF Keeps, IInv
    <2>2. Promise!Goes(LedgerOf(db), LedgerOf(db'))
      BY <2>1, LedgerGoes
    <2>3. LedgerOf(db)' = LedgerOf(db')
      BY DEF LedgerOf, Accepted, StatusOf, KeyOf, ClassOf
    <2> QED
      BY <2>2, <2>3 DEF Promise!Step
  <1> QED
    BY <1>1, <1>2, <1>3, ConversationsInvariant, PTL DEF Spec, KeepsLedger, Promise!Spec
=============================================================================
