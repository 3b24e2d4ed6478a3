---------------------------- MODULE SettingsProofs ----------------------------
(***************************************************************************)
(* What load_from_file() keeps of a flat file and what verify() says of a  *)
(* list, for files and lists of every length.                              *)
(*                                                                         *)
(* Both are loops, which Settings writes as recursive functions, and so is *)
(* FlattenSeq, which lines up the events of a file.  The theorems that     *)
(* unfold such functions take an operator as a parameter; the proofs here  *)
(* use sets instead.  UpTo is induction for the set of turns for which     *)
(* something holds, from the least turn for which it does not; FoldExists  *)
(* gives the values a loop goes through, and with them the CHOOSE of a     *)
(* recursive function has what it chooses.                                 *)
(***************************************************************************)
EXTENDS MCDaemon, SequenceTheorems, WellFoundedInduction, TLAPS

-----------------------------------------------------------------------------
(* Induction and loops                                                     *)

(* A set of numbers has a least one. *)
LEMMA Least ==
  ASSUME NEW T \in SUBSET Nat, T # {}
  PROVE  \E x \in T : \A y \in T : x <= y
<1> DEFINE R == OpToRel(<, Nat)
<1>1. IsWellFoundedOn(R, Nat)
  BY NatLessThanWellFounded
<1>2. \A x, y \in Nat : y < x => <<y, x>> \in R
  BY DEF OpToRel
<1> HIDE DEF R
<1>3. PICK x \in T : \A y \in T : ~ (<<y, x>> \in R)
  BY <1>1, WFMin
<1>4. \A y \in T : ~ (y < x)
  BY <1>2, <1>3
<1> QED BY <1>3, <1>4

(* What holds at 0 and passes on from n - 1 to n holds up to L. *)
LEMMA UpTo ==
  ASSUME NEW L \in Nat, NEW H, 0 \in H, \A n \in 1 .. L : n - 1 \in H => n \in H
  PROVE  0 .. L \subseteq H
<1> DEFINE T == {n \in 0 .. L : n \notin H}
<1>1. SUFFICES ASSUME T # {} PROVE FALSE
  OBVIOUS
<1>2. PICK x \in T : \A y \in T : x <= y
  <2>1. T \in SUBSET Nat
    OBVIOUS
  <2> HIDE DEF T
  <2> QED BY <1>1, <2>1, Least
<1>3. x \in 1 .. L /\ x - 1 \in 0 .. L /\ x - 1 \notin T
  BY <1>2
<1> QED BY <1>2, <1>3

(* f holds the values of a variable that starts as base, where turn n of a *)
(* loop applies step[n].                                                   *)
Fold(f, L, base, step) ==
  f[0] = base /\ \A n \in 1 .. L : f[n] = step[n][f[n - 1]]

(* Loops end: the values of a variable after each turn of a loop exist. *)
LEMMA FoldExists ==
  ASSUME NEW L \in Nat, NEW S, NEW base \in S, NEW step \in [1 .. L -> [S -> S]]
  PROVE  \E f \in [0 .. L -> S] : Fold(f, L, base, step)
<1> DEFINE H == {m \in 0 .. L : \E f \in [0 .. m -> S] : Fold(f, m, base, step)}
<1>1. 0 \in H
  <2>1. [n \in 0 .. 0 |-> base] \in [0 .. 0 -> S] /\ Fold([n \in 0 .. 0 |-> base], 0, base, step)
    BY DEF Fold
  <2> QED BY <2>1
<1>2. ASSUME NEW m \in 1 .. L, m - 1 \in H PROVE m \in H
  <2>1. PICK f \in [0 .. m - 1 -> S] : Fold(f, m - 1, base, step)
    BY <1>2
  <2> DEFINE g == [n \in 0 .. m |-> IF n = m THEN step[m][f[m - 1]] ELSE f[n]]
  <2>2. g \in [0 .. m -> S]
    BY <2>1
  <2>3. g[0] = base
    BY <2>1 DEF Fold
  <2>4. ASSUME NEW n \in 1 .. m PROVE g[n] = step[n][g[n - 1]]
    <3>1. CASE n = m
      BY <3>1
    <3>2. CASE n # m
      <4>1. n \in 1 .. m - 1 /\ n - 1 \in 0 .. m /\ n - 1 # m /\ n \in 0 .. m
        BY <3>2
      <4>2. f[n] = step[n][f[n - 1]]
        BY <2>1, <4>1 DEF Fold
      <4> QED BY <4>1, <4>2
    <3> QED BY <3>1, <3>2
  <2> HIDE DEF g
  <2>5. Fold(g, m, base, step)
    BY <2>3, <2>4 DEF Fold
  <2> QED BY <2>2, <2>5
<1> HIDE DEF H
<1>3. 0 .. L \subseteq H
  BY <1>1, <1>2, UpTo
<1> USE DEF H
<1> QED BY <1>3

-----------------------------------------------------------------------------
(* verify                                                                  *)

(* The loop of g_datalist_foreach() over keys: valid after each turn. *)
LEMMA VerifyLoop ==
  ASSUME NEW S, NEW list \in Seq(S), NEW newestFirst \in BOOLEAN,
         NEW keys, keys = Foreach(list, newestFirst)
  PROVE  /\ Len(keys) \in Nat /\ DOMAIN keys = 1 .. Len(keys)
         /\ \E valid \in [0 .. Len(keys) -> BOOLEAN] :
              /\ valid[0] = TRUE
              /\ \A n \in 1 .. Len(keys) : valid[n] = TestKeyValue(valid[n - 1], keys[n])
              /\ Verify(list, newestFirst) = valid[Len(keys)]
<1>1. Len(list) \in Nat
  OBVIOUS
<1>2. Len(keys) = Len(list) /\ DOMAIN keys = 1 .. Len(keys)
  <2>1. keys \in Seq({IF newestFirst THEN list[Len(list) + 1 - i] ELSE list[i] : i \in 1 .. Len(list)})
    BY <1>1 DEF Foreach
  <2> QED BY <1>1, <2>1 DEF Foreach
<1> DEFINE L == Len(keys)
           step == [n \in 1 .. L |-> [v \in BOOLEAN |-> TestKeyValue(v, keys[n])]]
           Turn(f) == [n \in 0 .. L |-> IF n = 0 THEN TRUE ELSE TestKeyValue(f[n - 1], keys[n])]
<1>3. L \in Nat
  BY <1>1, <1>2
<1>4. step \in [1 .. L -> [BOOLEAN -> BOOLEAN]]
  BY DEF TestKeyValue, ValidPair
<1>5. \E f \in [0 .. L -> BOOLEAN] : f = Turn(f)
  <2>1. PICK f \in [0 .. L -> BOOLEAN] : Fold(f, L, TRUE, step)
    <3> HIDE DEF L, step
    <3> QED BY <1>3, <1>4, FoldExists
  <2>2. ASSUME NEW n \in 1 .. L PROVE f[n] = TestKeyValue(f[n - 1], keys[n])
    <3>1. f[n] = step[n][f[n - 1]]
      BY <2>1, <2>2 DEF Fold
    <3>2. f[n - 1] \in BOOLEAN
      BY <1>3, <2>2
    <3>3. step[n] = [v \in BOOLEAN |-> TestKeyValue(v, keys[n])]
      BY <2>2
    <3> HIDE DEF step
    <3> QED BY <3>1, <3>2, <3>3, Zenon
  <2>3. f[0] = TRUE
    BY <2>1 DEF Fold
  <2>4. ASSUME NEW n \in 0 .. L PROVE f[n] = Turn(f)[n]
    <3>1. CASE n = 0
      BY <2>3, <3>1
    <3>2. CASE n # 0
      <4>1. n \in 1 .. L
        BY <1>3, <3>2
      <4> QED BY <2>2, <3>2, <4>1, Zenon
    <3> QED BY <3>1, <3>2
  <2>5. f = Turn(f)
    <3>1. Turn(f) = [n \in 0 .. L |-> Turn(f)[n]]
      OBVIOUS
    <3>2. f = [n \in 0 .. L |-> f[n]]
      OBVIOUS
    <3> HIDE DEF Turn
    <3> QED BY <2>4, <3>1, <3>2, Zenon
  <2> QED BY <2>5
<1>6. Verify(list, newestFirst) = (CHOOSE f : f = Turn(f))[L]
  BY DEF Verify
<1> DEFINE valid == CHOOSE f : f = Turn(f)
<1>7. valid = Turn(valid)
  <2> HIDE DEF Turn
  <2> QED BY <1>5, Zenon
<1> HIDE DEF valid
<1>8. valid[0] = TRUE
  <2>1. 0 \in 0 .. L
    BY <1>3
  <2> QED BY <1>7, <2>1
<1>9. ASSUME NEW n \in 1 .. L PROVE valid[n] = TestKeyValue(valid[n - 1], keys[n])
  <2>1. n \in 0 .. L /\ n # 0
    BY <1>3
  <2>2. valid[n] = Turn(valid)[n]
    <3> HIDE DEF Turn
    <3> QED BY <1>7, Zenon
  <2> QED BY <2>1, <2>2, Zenon
<1>10. valid \in [0 .. L -> BOOLEAN]
  <2> DEFINE H == {n \in 0 .. L : valid[n] \in BOOLEAN}
  <2>1. 0 \in H
    <3>1. 0 \in 0 .. L
      BY <1>3
    <3>2. valid[0] \in BOOLEAN
      BY <1>8, Zenon
    <3> QED BY <3>1, <3>2
  <2>2. ASSUME NEW n \in 1 .. L, n - 1 \in H PROVE n \in H
    <3>1. n \in 0 .. L
      BY <1>3
    <3>2. valid[n] \in BOOLEAN
      BY <1>9, <2>2, Zenon DEF TestKeyValue, ValidPair
    <3> QED BY <3>1, <3>2
  <2> HIDE DEF H
  <2>3. 0 .. L \subseteq H
    <3> HIDE DEF L
    <3> QED BY <1>3, <2>1, <2>2, UpTo
  <2>4. \A n \in 0 .. L : valid[n] \in BOOLEAN
    BY <2>3 DEF H
  <2>5. valid = [n \in 0 .. L |-> valid[n]]
    BY <1>7
  <2> QED BY <2>4, <2>5, Zenon
<1>11. Verify(list, newestFirst) = valid[L]
  BY <1>6 DEF valid
<1> HIDE DEF Turn
<1> QED BY <1>2, <1>3, <1>8, <1>9, <1>10, <1>11, Zenon

(* verify(): for every list, and in whichever order glib visits it, what   *)
(* it says is whether the last key it visits that is not merely recorded   *)
(* is valid; what came before does not count.                              *)
THEOREM VerifyByLast ==
  ASSUME NEW S, NEW list \in Seq(S), NEW newestFirst \in BOOLEAN
  PROVE  JudgedByLast(list, newestFirst)
<1> DEFINE keys == Foreach(list, newestFirst)
           L == Len(keys)
           J(n) == {i \in 1 .. n : keys[i].key \notin Recorded}
           Verdict(n) == \A i \in J(n) : (\A j \in J(n) : j <= i) => ValidPair(keys[i])
<1>1. /\ L \in Nat /\ DOMAIN keys = 1 .. L
      /\ \E valid \in [0 .. L -> BOOLEAN] :
           /\ valid[0] = TRUE
           /\ \A n \in 1 .. L : valid[n] = TestKeyValue(valid[n - 1], keys[n])
           /\ Verify(list, newestFirst) = valid[L]
  BY VerifyLoop
<1> HIDE DEF keys, L
<1>2. PICK valid \in [0 .. L -> BOOLEAN] :
        /\ valid[0] = TRUE
        /\ \A n \in 1 .. L : valid[n] = TestKeyValue(valid[n - 1], keys[n])
        /\ Verify(list, newestFirst) = valid[L]
  BY <1>1
<1> DEFINE H == {n \in 0 .. L : valid[n] <=> Verdict(n)}
<1>3. 0 \in H
  BY <1>1, <1>2
<1>4. ASSUME NEW n \in 1 .. L, n - 1 \in H PROVE n \in H
  <2>0. n \in 0 .. L /\ n \in Nat /\ n - 1 \in 0 .. L
    BY <1>1
  <2>1. CASE keys[n].key \in Recorded
    <3>1. J(n) = J(n - 1)
      BY <2>0, <2>1
    <3>2. valid[n] = valid[n - 1]
      BY <1>2, <2>1 DEF TestKeyValue
    <3> QED BY <1>4, <2>0, <3>1, <3>2, Zenon
  <2>2. CASE keys[n].key \notin Recorded
    <3>1. n \in J(n) /\ \A j \in J(n) : j \in Nat /\ j <= n
      BY <2>0, <2>2
    <3>2. Verdict(n) <=> ValidPair(keys[n])
      <4> HIDE DEF J
      <4>1. \A i \in J(n) : (\A j \in J(n) : j <= i) <=> i = n
        BY <2>0, <3>1
      <4> QED BY <3>1, <4>1
    <3>3. valid[n] = ValidPair(keys[n])
      BY <1>2, <2>2, Zenon DEF TestKeyValue
    <3> QED BY <2>0, <3>2, <3>3, Zenon
  <2> QED BY <2>1, <2>2
<1>5. L \in H
  <2> HIDE DEF H
  <2>1. 0 .. L \subseteq H
    BY <1>1, <1>3, <1>4, UpTo
  <2> QED BY <1>1, <2>1
<1>6. Verify(list, newestFirst) <=> Verdict(L)
  BY <1>2, <1>5, Zenon
<1>7. J(L) = {i \in DOMAIN keys : keys[i].key \notin Recorded}
  BY <1>1
<1> QED BY <1>6, <1>7 DEF JudgedByLast, keys

(* The instances of VerifyByLast that the runs of workqd check: verify()   *)
(* judges every list a process may have loaded by the last key it visits.  *)
THEOREM VerifyJudgesLastAlways == DaemonSpec => []VerifyJudgesLast
<1>1. ASSUME NEW list \in Lists PROVE list \in Seq([key : MCKeys, value : MCValues])
  <2>1. PICK n \in 0 .. 2 : list \in [1 .. n -> [key : MCKeys, value : MCValues]]
    BY DEF Lists
  <2> DEFINE P == [key : MCKeys, value : MCValues]
  <2> HIDE DEF P
  <2>2. list \in [1 .. n -> P] /\ n \in Nat
    BY <2>1 DEF P
  <2>3. list \in Seq(P)
    BY <2>2
  <2> QED BY <2>3 DEF P
<1>2. VerifyJudgesLast
  BY <1>1, VerifyByLast DEF VerifyJudgesLast, EveryListJudgedByLast
<1> QED BY <1>2, PTL

-----------------------------------------------------------------------------
(* load_from_file                                                          *)

(* The events E take the loop of load_from_file() from s to t. *)
Runs(s, E, t) ==
  \E g : /\ g[0] = s /\ g[Len(E)] = t
         /\ \A n \in 1 .. Len(E) : g[n] = Event(g[n - 1], E[n])

(* No event, one event, and the events of one sequence after another. *)
LEMMA RunsNothing == ASSUME NEW s PROVE Runs(s, <<>>, s)
<1> DEFINE g == [n \in 0 .. 0 |-> s]
<1>1. g[0] = s /\ Len(<<>>) = 0
  OBVIOUS
<1> HIDE DEF g
<1> QED BY <1>1 DEF Runs

LEMMA RunsOne == ASSUME NEW s, NEW e PROVE Runs(s, <<e>>, Event(s, e))
<1> DEFINE g == [n \in 0 .. 1 |-> IF n = 0 THEN s ELSE Event(s, e)]
<1>1. g[0] = s /\ g[1] = Event(s, e) /\ Len(<<e>>) = 1 /\ <<e>>[1] = e /\ 1 - 1 = 0
  OBVIOUS
<1> HIDE DEF g
<1>2. \A n \in 1 .. Len(<<e>>) : n = 1
  BY <1>1
<1> QED BY <1>1, <1>2 DEF Runs

LEMMA RunsOn ==
  ASSUME NEW X, NEW E \in Seq(X), NEW F \in Seq(X), NEW s, NEW t, NEW u,
         Runs(s, E, t), Runs(t, F, u)
  PROVE  Runs(s, E \o F, u)
<1>1. PICK g : /\ g[0] = s /\ g[Len(E)] = t
               /\ \A n \in 1 .. Len(E) : g[n] = Event(g[n - 1], E[n])
  BY DEF Runs
<1>2. PICK f : /\ f[0] = t /\ f[Len(F)] = u
               /\ \A n \in 1 .. Len(F) : f[n] = Event(f[n - 1], F[n])
  BY DEF Runs
<1> DEFINE L == Len(E)
           M == Len(F)
           h == [n \in 0 .. L + M |-> IF n <= L THEN g[n] ELSE f[n - L]]
<1>3. L \in Nat /\ M \in Nat /\ Len(E \o F) = L + M
  OBVIOUS
<1>4. \A n \in 1 .. L + M : (E \o F)[n] = IF n <= L THEN E[n] ELSE F[n - L]
  BY ConcatProperties
<1> DEFINE EF == E \o F
<1> HIDE DEF L, M, EF
<1>5. h[0] = s
  BY <1>1, <1>3
<1>6. h[L + M] = u
  <2>1. CASE M = 0
    BY <1>1, <1>2, <1>3, <2>1 DEF L, M
  <2>2. CASE M # 0
    <3>1. L + M \in 0 .. L + M /\ ~(L + M <= L) /\ (L + M) - L = M
      BY <1>3, <2>2
    <3>2. h[L + M] = f[(L + M) - L]
      BY <3>1
    <3> QED BY <1>2, <3>1, <3>2 DEF M
  <2> QED BY <2>1, <2>2
<1>7. ASSUME NEW n \in 1 .. L + M PROVE h[n] = Event(h[n - 1], EF[n])
  <2>0. n \in 0 .. L + M /\ n - 1 \in 0 .. L + M
    BY <1>3
  <2>1. CASE n <= L
    <3>1. h[n] = g[n] /\ h[n - 1] = g[n - 1]
      BY <1>3, <2>0, <2>1
    <3>2. g[n] = Event(g[n - 1], E[n])
      BY <1>1, <1>3, <2>1 DEF L
    <3> QED BY <1>4, <2>1, <3>1, <3>2 DEF EF
  <2>2. CASE ~(n <= L)
    <3>1. n - L \in 1 .. M /\ (n - L) - 1 = (n - 1) - L
      BY <1>3, <2>2
    <3>2. h[n] = f[n - L]
      BY <2>0, <2>2
    <3>3. h[n - 1] = f[(n - L) - 1]
      <4>1. CASE n - 1 <= L
        <5>1. n - 1 = L /\ (n - L) - 1 = 0
          BY <1>3, <2>2, <4>1
        <5>2. h[n - 1] = g[n - 1]
          BY <2>0, <4>1
        <5> QED BY <1>1, <1>2, <5>1, <5>2 DEF L
      <4>2. CASE ~(n - 1 <= L)
        BY <2>0, <3>1, <4>2
      <4> QED BY <4>1, <4>2
    <3>4. f[n - L] = Event(f[(n - L) - 1], F[n - L])
      BY <1>2, <3>1 DEF M
    <3> QED BY <1>4, <2>2, <3>2, <3>3, <3>4 DEF EF
  <2> QED BY <2>1, <2>2
<1> HIDE DEF h
<1>8. Len(EF) = L + M
  BY <1>3 DEF EF
<1>9. Runs(s, EF, u)
  BY <1>5, <1>6, <1>7, <1>8 DEF Runs
<1> QED BY <1>9 DEF EF

(* What the loop ends with is what is loaded. *)
LEMMA LoadRuns ==
  ASSUME NEW X, NEW events \in Seq(X), NEW t, Runs(Unread, events, t)
  PROVE  Load(events) = t.loaded
<1> DEFINE L == Len(events)
           Turn(f) == [n \in 0 .. L |-> IF n = 0 THEN Unread ELSE Event(f[n - 1], events[n])]
           after == CHOOSE f : f = Turn(f)
<1>1. PICK g : /\ g[0] = Unread /\ g[L] = t
               /\ \A n \in 1 .. L : g[n] = Event(g[n - 1], events[n])
  BY DEF Runs
<1>2. L \in Nat
  OBVIOUS
<1>3. Load(events) = after[L].loaded
  BY DEF Load
<1> HIDE DEF L
<1>4. \E f : f = Turn(f)
  <2> DEFINE f == [n \in 0 .. L |-> g[n]]
  <2>1. ASSUME NEW n \in 0 .. L PROVE f[n] = Turn(f)[n]
    <3>1. CASE n = 0
      BY <1>1, <3>1
    <3>2. CASE n # 0
      <4>1. n \in 1 .. L /\ n - 1 \in 0 .. L
        BY <1>2, <3>2
      <4> QED BY <1>1, <3>2, <4>1
    <3> QED BY <3>1, <3>2
  <2>2. f = [n \in 0 .. L |-> f[n]] /\ Turn(f) = [n \in 0 .. L |-> Turn(f)[n]]
    OBVIOUS
  <2> HIDE DEF f, Turn
  <2>3. f = Turn(f)
    BY <2>1, <2>2
  <2> QED BY <2>3
<1>5. after = Turn(after)
  <2> HIDE DEF Turn
  <2> QED BY <1>4
<1> HIDE DEF after
<1> DEFINE H == {n \in 0 .. L : after[n] = g[n]}
<1>6. 0 \in H
  <2>1. 0 \in 0 .. L
    BY <1>2
  <2> QED BY <1>1, <1>5, <2>1
<1>7. ASSUME NEW n \in 1 .. L, n - 1 \in H PROVE n \in H
  <2>1. n \in 0 .. L /\ n # 0
    BY <1>2
  <2>2. after[n] = Event(after[n - 1], events[n])
    BY <1>5, <2>1
  <2> QED BY <1>1, <1>7, <2>1, <2>2
<1>8. L \in H
  <2> HIDE DEF H
  <2>1. 0 .. L \subseteq H
    BY <1>2, <1>6, <1>7, UpTo
  <2> QED BY <1>2, <2>1
<1> QED BY <1>1, <1>3, <1>8

(* FlattenSeq is the loop that appends one sequence after the other. *)
LEMMA FlattenLoop ==
  ASSUME NEW X, NEW seqs \in Seq(Seq(X))
  PROVE  \E g \in [0 .. Len(seqs) -> Seq(X)] :
           /\ g[0] = <<>>
           /\ \A n \in 1 .. Len(seqs) : g[n] = g[n - 1] \o seqs[n]
           /\ FlattenSeq(seqs) = g[Len(seqs)]
<1> DEFINE L == Len(seqs)
           step == [n \in 1 .. L |-> [q \in Seq(X) |-> q \o seqs[n]]]
           Turn(f) == [i \in 1 .. L |-> IF i = 1 THEN seqs[i] ELSE f[i - 1] \o seqs[i]]
           flatten == CHOOSE f : f = Turn(f)
<1>1. L \in Nat /\ \A n \in 1 .. L : seqs[n] \in Seq(X)
  OBVIOUS
<1>2. step \in [1 .. L -> [Seq(X) -> Seq(X)]]
  <2>1. \A n \in 1 .. L : \A q \in Seq(X) : q \o seqs[n] \in Seq(X)
    BY <1>1, ConcatProperties
  <2> QED BY <2>1
<1>3. <<>> \in Seq(X)
  OBVIOUS
<1>4. FlattenSeq(seqs) = IF L = 0 THEN seqs ELSE flatten[L]
  BY DEF FlattenSeq
<1>5. L = 0 => seqs = <<>>
  BY EmptySeq
<1> HIDE DEF L
<1>6. PICK g \in [0 .. L -> Seq(X)] : Fold(g, L, <<>>, step)
  <2> HIDE DEF step
  <2> QED BY <1>1, <1>2, <1>3, FoldExists
<1>7. g[0] = <<>>
  BY <1>6 DEF Fold
<1>8. ASSUME NEW n \in 1 .. L PROVE g[n] = g[n - 1] \o seqs[n]
  <2>1. n - 1 \in 0 .. L
    BY <1>1
  <2>2. g[n] = step[n][g[n - 1]] /\ g[n - 1] \in Seq(X)
    BY <1>6, <2>1 DEF Fold
  <2> QED BY <2>2
<1>a. ASSUME 1 \in 1 .. L PROVE g[1] = seqs[1]
  <2>1. \A n \in 1 .. L : n = 1 => n - 1 = 0
    OBVIOUS
  <2>2. g[1] = <<>> \o seqs[1]
    BY <1>7, <1>8, <1>a, <2>1
  <2>3. seqs[1] \in Seq(X)
    BY <1>1, <1>a
  <2> QED BY <2>2, <2>3, ConcatEmptySeq
<1>9. \E f : f = Turn(f)
  <2> DEFINE f == [n \in 1 .. L |-> g[n]]
  <2>1. ASSUME NEW n \in 1 .. L PROVE f[n] = Turn(f)[n]
    <3>1. CASE n = 1
      BY <1>a, <3>1
    <3>2. CASE n # 1
      <4>1. n - 1 \in 1 .. L
        BY <1>1, <3>2
      <4> QED BY <1>8, <3>2, <4>1
    <3> QED BY <3>1, <3>2
  <2>2. f = [n \in 1 .. L |-> f[n]] /\ Turn(f) = [n \in 1 .. L |-> Turn(f)[n]]
    OBVIOUS
  <2> HIDE DEF f, Turn
  <2>3. f = Turn(f)
    BY <2>1, <2>2
  <2> QED BY <2>3
<1>10. flatten = Turn(flatten)
  <2> HIDE DEF Turn
  <2> QED BY <1>9
<1> HIDE DEF flatten
<1> DEFINE H == {n \in 0 .. L : n = 0 \/ flatten[n] = g[n]}
<1>11. 0 \in H
  BY <1>1
<1>12. ASSUME NEW n \in 1 .. L, n - 1 \in H PROVE n \in H
  <2>0. n \in 0 .. L
    BY <1>1
  <2>1. CASE n = 1
    <3>1. flatten[1] = seqs[1]
      BY <1>10, <2>1
    <3> QED BY <1>a, <2>0, <2>1, <3>1
  <2>2. CASE n # 1
    <3>1. n - 1 # 0
      BY <1>1, <2>2
    <3>2. flatten[n - 1] = g[n - 1]
      BY <1>12, <3>1
    <3>3. flatten[n] = flatten[n - 1] \o seqs[n]
      BY <1>10, <2>2
    <3> QED BY <1>8, <2>0, <3>2, <3>3
  <2> QED BY <2>1, <2>2
<1>13. L \in H
  <2> HIDE DEF H
  <2>1. 0 .. L \subseteq H
    BY <1>1, <1>11, <1>12, UpTo
  <2> QED BY <1>1, <2>1
<1>14. FlattenSeq(seqs) = g[L]
  BY <1>4, <1>5, <1>7, <1>13
<1> QED BY <1>6, <1>7, <1>8, <1>14 DEF L

(* The locals of load_from_file() and m_loaded. *)
State(c, k, u, l) == [count |-> c, key |-> k, use_keys |-> u, loaded |-> l]

(* use_keys, with the truth values as names. *)
Yes == TRUE
No == FALSE

(* The value of a key in the section to load. *)
LEMMA EventPuts ==
  ASSUME NEW m \in Nat, NEW k, k # NoKey, NEW l, NEW x
  PROVE  Event(State(2 * m + 1, k, Yes, l), Scalar(x)) = State(2 * (m + 1), NoKey, Yes, Put(l, k, x))
<1>0. (2 * m + 2) % 2 = 0 /\ 2 * m + 1 + 1 = 2 * (m + 1) /\ 2 * (m + 1) = 2 * m + 2
  OBVIOUS
<1> USE DEF Event, ScalarEvent, State, Scalar
<1> DEFINE c == 2 * (m + 1)
<1>1. ~(c % 2 = 1) /\ c \in Nat /\ (2 * m + 1) + 1 = c
  BY <1>0
<1> HIDE DEF c
<1>2. [State(2 * m + 1, k, Yes, l) EXCEPT !.count = @ + 1] = State(c, k, Yes, l)
  BY <1>1
<1>3. Event(State(2 * m + 1, k, Yes, l), Scalar(x)) = ScalarEvent(State(c, k, Yes, l), x)
  <2> HIDE DEF ScalarEvent, State
  <2> QED BY <1>2
<1>4. /\ State(c, k, Yes, l).count = c /\ State(c, k, Yes, l).key = k
      /\ State(c, k, Yes, l).use_keys = Yes /\ State(c, k, Yes, l).loaded = l
  OBVIOUS
<1>5. [State(c, k, Yes, l) EXCEPT !.key = NoKey, !.loaded = Put(l, k, x)]
        = State(c, NoKey, Yes, Put(l, k, x))
  <2>1. [State(c, k, Yes, l) EXCEPT !.key = NoKey] = State(c, NoKey, Yes, l)
    OBVIOUS
  <2>2. [State(c, NoKey, Yes, l) EXCEPT !.loaded = Put(l, k, x)] = State(c, NoKey, Yes, Put(l, k, x))
    OBVIOUS
  <2> HIDE DEF State
  <2> QED BY <2>1, <2>2
<1>6. ScalarEvent(State(c, k, Yes, l), x) = State(c, NoKey, Yes, Put(l, k, x))
  <2> HIDE DEF State, ScalarEvent
  <2> DEFINE s == State(c, k, Yes, l)
  <2>1. ~(s.count % 2 = 1) /\ s.key # NoKey /\ s.use_keys
    <3>1. ~(s.count % 2 = 1)
      BY <1>1, <1>4, Zenon
    <3>2. s.key # NoKey
      BY <1>4
    <3>3. s.use_keys
      BY <1>4, Zenon DEF Yes
    <3> QED BY <3>1, <3>2, <3>3
  <2>2. Put(s.loaded, s.key, x) = Put(l, k, x)
    BY <1>4
  <2> HIDE DEF s
  <2>3. ScalarEvent(s, x) = [s EXCEPT !.key = NoKey, !.loaded = Put(s.loaded, s.key, x)]
    BY <2>1 DEF ScalarEvent
  <2> QED BY <1>5, <2>2, <2>3 DEF s
<1> QED BY <1>3, <1>6 DEF c

(* The mapping of the section called k starts. *)
LEMMA EventStarts ==
  ASSUME NEW c \in Nat, NEW k, k # NoKey, NEW u, NEW l
  PROVE  Event(State(c, k, u, l), MappingStart) = State(0, k, IF k = Env THEN Yes ELSE No, l)
<1>1. (k = Env) = IF k = Env THEN Yes ELSE No
  BY DEF Yes, No
<1> DEFINE b == IF k = Env THEN Yes ELSE No
           s == State(c, k, u, l)
<1>2. [[s EXCEPT !.count = 0] EXCEPT !.use_keys = b] = State(0, k, b, l)
  <2> HIDE DEF b
  <2>1. [s EXCEPT !.count = 0] = State(0, k, u, l)
    BY DEF State
  <2>2. [State(0, k, u, l) EXCEPT !.use_keys = b] = State(0, k, b, l)
    BY DEF State
  <2> HIDE DEF s
  <2> QED BY <2>1, <2>2
<1>3. s.key = k
  BY DEF State
<1> HIDE DEF s, b
<1>4. Event(s, MappingStart) = [s EXCEPT !.count = 0, !.use_keys = s.key = Env]
  BY <1>3 DEF Event, MappingStart
<1>5. (s.key = Env) = b
  BY <1>1, <1>3 DEF b
<1>6. Event(s, MappingStart) = [s EXCEPT !.count = 0, !.use_keys = b]
  BY <1>4, <1>5
<1> QED BY <1>2, <1>6 DEF s, b

(* A scalar after an even number of them is a key, or the name of a section. *)
LEMMA EventKey ==
  ASSUME NEW m \in Nat, NEW k, NEW u \in BOOLEAN, NEW l, NEW x
  PROVE  Event(State(2 * m, k, u, l), Scalar(x)) = State(2 * m + 1, x, u, l)
<1>1. (2 * m + 1) % 2 = 1
  OBVIOUS
<1> QED BY <1>1 DEF Event, ScalarEvent, State, Scalar

(* The value of a key in a section that is not loaded. *)
LEMMA EventSkips ==
  ASSUME NEW m \in Nat, NEW k, NEW u \in BOOLEAN, ~u, NEW l, NEW x
  PROVE  Event(State(2 * m + 1, k, u, l), Scalar(x)) = State(2 * (m + 1), k, u, l)
<1>1. (2 * m + 2) % 2 = 0 /\ 2 * m + 1 + 1 = 2 * (m + 1) /\ 2 * (m + 1) = 2 * m + 2
  OBVIOUS
<1> QED BY <1>1 DEF Event, ScalarEvent, State, Scalar

(* The end of a mapping changes nothing. *)
LEMMA EventEnds ==
  ASSUME NEW c, NEW k, NEW u, NEW l
  PROVE  Event(State(c, k, u, l), MappingEnd) = State(c, k, u, l)
BY DEF Event, State, MappingEnd

(* Pairs of keys and values, what a list has of them, and the events. *)
Pairs(K, V) == [key : K, value : V]
Contents(l) == {l[i] : i \in DOMAIN l}
EventsOver(W) == {Scalar(x) : x \in W} \union {MappingStart, MappingEnd}

(* A key that is set replaces what the list had for it, and nothing else. *)
LEMMA PutContents ==
  ASSUME NEW K, NEW V, NEW l \in Seq(Pairs(K, V)), NEW k \in K, NEW v \in V
  PROVE  /\ Put(l, k, v) \in Seq(Pairs(K, V))
         /\ Contents(Put(l, k, v)) =
              {p \in Contents(l) : p.key # k} \union {[key |-> k, value |-> v]}
<1> DEFINE new == [key |-> k, value |-> v]
<1>0. /\ new \in Pairs(K, V) /\ new.key = k
      /\ Len(l) \in Nat /\ DOMAIN l = 1 .. Len(l) /\ \A i \in 1 .. Len(l) : l[i] \in Pairs(K, V)
  <2>1. new \in Pairs(K, V) /\ new.key = k
    BY DEF Pairs
  <2>2. Len(l) \in Nat /\ DOMAIN l = 1 .. Len(l) /\ \A i \in 1 .. Len(l) : l[i] \in Pairs(K, V)
    OBVIOUS
  <2> QED BY <2>1, <2>2
<1>1. CASE \E i \in DOMAIN l : l[i].key = k
  <2> DEFINE r == [i \in DOMAIN l |-> IF l[i].key = k THEN [l[i] EXCEPT !.value = v] ELSE l[i]]
  <2>1. Put(l, k, v) = r
    BY <1>1 DEF Put
  <2>2. \A p \in Pairs(K, V) : p.key = k => [p EXCEPT !.value = v] = new
    BY DEF Pairs
  <2>3. \A i \in 1 .. Len(l) : r[i] = IF l[i].key = k THEN new ELSE l[i]
    BY <1>0, <2>2
  <2>4. r \in [1 .. Len(l) -> Pairs(K, V)]
    <3> HIDE DEF new
    <3>1. r = [i \in 1 .. Len(l) |-> r[i]]
      BY <1>0
    <3> HIDE DEF r
    <3> QED BY <1>0, <2>3, <3>1
  <2>5. DOMAIN r = 1 .. Len(l)
    BY <1>0
  <2> HIDE DEF r, new
  <2>6. Contents(r) = {p \in Contents(l) : p.key # k} \union {new}
    BY <1>0, <1>1, <2>3, <2>5 DEF Contents
  <2>7. r \in Seq(Pairs(K, V))
    BY <1>0, <2>4
  <2> QED BY <2>1, <2>6, <2>7 DEF new
<1>2. CASE ~ \E i \in DOMAIN l : l[i].key = k
  <2> HIDE DEF new
  <2>1. Put(l, k, v) = Append(l, new)
    BY <1>2 DEF Put, new
  <2> DEFINE r == Append(l, new)
  <2>2. /\ r \in Seq(Pairs(K, V)) /\ DOMAIN r = 1 .. Len(l) + 1
        /\ \A i \in 1 .. Len(l) : r[i] = l[i]
        /\ r[Len(l) + 1] = new
    BY <1>0, AppendProperties
  <2> HIDE DEF r
  <2>3. Contents(r) = Contents(l) \union {new}
    <3>1. ASSUME NEW i \in 1 .. Len(l) + 1 PROVE r[i] \in Contents(l) \union {new}
      <4>1. CASE i = Len(l) + 1
        BY <2>2, <4>1
      <4>2. CASE i # Len(l) + 1
        <5>1. i \in 1 .. Len(l)
          BY <1>0, <4>2
        <5> QED BY <1>0, <2>2, <5>1 DEF Contents
      <4> QED BY <4>1, <4>2
    <3>2. new \in Contents(r)
      <4>1. Len(l) + 1 \in 1 .. Len(l) + 1
        BY <1>0
      <4> QED BY <2>2, <4>1 DEF Contents
    <3>3. ASSUME NEW i \in 1 .. Len(l) PROVE l[i] \in Contents(r)
      <4>1. i \in 1 .. Len(l) + 1
        BY <1>0
      <4> QED BY <2>2, <4>1 DEF Contents
    <3> QED BY <1>0, <2>2, <3>1, <3>2, <3>3 DEF Contents
  <2>4. Contents(l) = {p \in Contents(l) : p.key # k}
    BY <1>2 DEF Contents
  <2> QED BY <2>1, <2>2, <2>3, <2>4 DEF r, new
<1> QED BY <1>1, <1>2

(* The pairs a list has after the first n of pairs are put into one with C. *)
Latest(pairs, n) == {j \in 1 .. n : \A h \in 1 .. n : pairs[h].key = pairs[j].key => h <= j}
After(pairs, n, C) ==
  {p \in C : \A j \in 1 .. n : pairs[j].key # p.key} \union {pairs[j] : j \in Latest(pairs, n)}

(* After no pair, and after one more. *)
LEMMA AfterNone == ASSUME NEW pairs, NEW C PROVE After(pairs, 0, C) = C
BY DEF After, Latest

LEMMA AfterOne ==
  ASSUME NEW pairs, NEW C, NEW n \in Nat \ {0}
  PROVE  After(pairs, n, C) =
           {p \in After(pairs, n - 1, C) : p.key # pairs[n].key} \union {pairs[n]}
<1>1. n \in 1 .. n /\ 1 .. n = 1 .. n - 1 \union {n} /\ \A j \in 1 .. n : j <= n
  OBVIOUS
<1>2. n \in Latest(pairs, n)
  BY <1>1 DEF Latest
<1>3. ASSUME NEW j \in 1 .. n - 1
      PROVE  j \in Latest(pairs, n) <=> j \in Latest(pairs, n - 1) /\ pairs[j].key # pairs[n].key
  <2>1. ~ (n <= j) /\ j \in 1 .. n
    BY <1>3
  <2> QED BY <1>1, <2>1 DEF Latest
<1>4. \A m \in Nat : Latest(pairs, m) \subseteq 1 .. m
  BY DEF Latest
<1>5. ASSUME NEW p \in After(pairs, n, C)
      PROVE  p \in {q \in After(pairs, n - 1, C) : q.key # pairs[n].key} \union {pairs[n]}
  <2>1. CASE p \in C /\ \A j \in 1 .. n : pairs[j].key # p.key
    BY <1>1, <2>1 DEF After
  <2>2. CASE \E j \in Latest(pairs, n) : p = pairs[j]
    BY <1>1, <1>3, <1>4, <2>2 DEF After
  <2> QED BY <1>5, <2>1, <2>2 DEF After
<1>6. ASSUME NEW p \in After(pairs, n - 1, C), p.key # pairs[n].key
      PROVE  p \in After(pairs, n, C)
  <2>1. CASE p \in C /\ \A j \in 1 .. n - 1 : pairs[j].key # p.key
    BY <1>1, <1>6, <2>1 DEF After
  <2>2. CASE \E j \in Latest(pairs, n - 1) : p = pairs[j]
    <3>1. n - 1 \in Nat
      OBVIOUS
    <3> QED BY <1>3, <1>4, <1>6, <2>2, <3>1 DEF After
  <2> QED BY <1>6, <2>1, <2>2 DEF After
<1>7. pairs[n] \in After(pairs, n, C)
  BY <1>2 DEF After
<1> QED BY <1>5, <1>6, <1>7

(* Two events are one and then the other. *)
LEMMA TwoEvents ==
  ASSUME NEW X, NEW a \in X, NEW b \in X
  PROVE  /\ <<a>> \in Seq(X) /\ <<b>> \in Seq(X) /\ <<a, b>> \in Seq(X)
         /\ <<a>> \o <<b>> = <<a, b>>
<1>1. <<a>> \in Seq(X) /\ <<b>> \in Seq(X)
  OBVIOUS
<1>2. <<a, b>> \in Seq(X)
  OBVIOUS
<1> DEFINE q == <<a>> \o <<b>>
           r == <<a, b>>
<1>3. q \in Seq(X) /\ Len(q) = 2 /\ q[1] = a /\ q[2] = b
  BY <1>1, ConcatProperties
<1>4. r \in Seq(X) /\ Len(r) = 2 /\ r[1] = a /\ r[2] = b
  BY <1>2
<1> HIDE DEF q, r
<1>5. q = r
  BY <1>3, <1>4, SeqEqual
<1> QED BY <1>1, <1>2, <1>5 DEF q, r

(* The events of one pair: in the section to load the pair is put. *)
LEMMA PairRuns ==
  ASSUME NEW K, NEW V, NoKey \notin K, NEW m \in Nat, NEW k, NEW u \in BOOLEAN, NEW l,
         NEW p \in Pairs(K, V)
  PROVE  /\ PairEvents(p) \in Seq(EventsOver(K \union V))
         /\ \E q : Runs(State(2 * m, k, u, l), PairEvents(p),
                        State(2 * (m + 1), q, u, IF u THEN Put(l, p.key, p.value) ELSE l))
<1> DEFINE X == EventsOver(K \union V)
           a == Scalar(p.key)
           b == Scalar(p.value)
<1>1. p.key \in K /\ p.value \in V /\ p.key # NoKey
  BY DEF Pairs
<1>2. a \in X /\ b \in X
  BY <1>1 DEF EventsOver
<1> DEFINE s == State(2 * m, k, u, l)
           t == State(2 * m + 1, p.key, u, l)
<1>3. Event(s, a) = t
  BY EventKey
<1>4. Runs(s, <<a>>, t)
  BY <1>3, RunsOne
<1>5. \E q : Runs(t, <<b>>, State(2 * (m + 1), q, u, IF u THEN Put(l, p.key, p.value) ELSE l))
  <2>1. Runs(t, <<b>>, Event(t, b))
    BY RunsOne
  <2>2. CASE u
    <3>1. Event(t, b) = State(2 * (m + 1), NoKey, u, Put(l, p.key, p.value))
      <4> DEFINE k0 == p.key
                 v0 == p.value
      <4>1. k0 # NoKey
        BY <1>1
      <4> HIDE DEF k0, v0
      <4>2. Event(State(2 * m + 1, k0, Yes, l), Scalar(v0)) = State(2 * (m + 1), NoKey, Yes, Put(l, k0, v0))
        BY <4>1, EventPuts
      <4>3. u = Yes
        BY <2>2 DEF Yes
      <4> QED BY <4>2, <4>3 DEF k0, v0
    <3> HIDE DEF t, b
    <3> QED BY <1>1, <2>1, <2>2, <3>1
  <2>3. CASE ~u
    <3>1. Event(t, b) = State(2 * (m + 1), p.key, u, l)
      BY <2>3, EventSkips
    <3> HIDE DEF t, b
    <3> QED BY <2>1, <2>3, <3>1
  <2> QED BY <2>2, <2>3
<1> HIDE DEF a, b, s, t, X
<1>6. <<a>> \in Seq(X) /\ <<b>> \in Seq(X) /\ <<a, b>> \in Seq(X) /\ <<a>> \o <<b>> = <<a, b>>
  BY <1>2, TwoEvents
<1>7. PICK q : Runs(t, <<b>>, State(2 * (m + 1), q, u, IF u THEN Put(l, p.key, p.value) ELSE l))
  BY <1>5
<1>8. Runs(s, <<a, b>>, State(2 * (m + 1), q, u, IF u THEN Put(l, p.key, p.value) ELSE l))
  BY <1>4, <1>6, <1>7, RunsOn
<1>9. PairEvents(p) = <<a, b>>
  BY DEF PairEvents, a, b
<1> QED BY <1>6, <1>8, <1>9 DEF s, X

(* What the pairs of a section leave in the list: in the section to load  *)
(* they are put one after the other, in any other one they are skipped.   *)
Kept(u, pairs, n, C) == IF u THEN After(pairs, n, C) ELSE C

(* One more pair of a section. *)
LEMMA KeptOne ==
  ASSUME NEW K, NEW V, NEW u \in BOOLEAN, NEW pairs \in Seq(Pairs(K, V)), NEW C,
         NEW n \in 1 .. Len(pairs), NEW l \in Seq(Pairs(K, V)), Contents(l) = Kept(u, pairs, n - 1, C),
         NEW m, m = IF u THEN Put(l, pairs[n].key, pairs[n].value) ELSE l
  PROVE  m \in Seq(Pairs(K, V)) /\ Contents(m) = Kept(u, pairs, n, C)
<1>1. pairs[n] \in Pairs(K, V) /\ n \in Nat \ {0}
  OBVIOUS
<1>2. /\ pairs[n].key \in K /\ pairs[n].value \in V
      /\ pairs[n] = [key |-> pairs[n].key, value |-> pairs[n].value]
  <2> DEFINE p == pairs[n]
  <2> HIDE DEF p
  <2>1. p \in Pairs(K, V) => p.key \in K /\ p.value \in V /\ p = [key |-> p.key, value |-> p.value]
    BY DEF Pairs
  <2> QED BY <1>1, <2>1 DEF p
<1>3. CASE u
  <2>1. m = Put(l, pairs[n].key, pairs[n].value)
    BY <1>3
  <2>2. m \in Seq(Pairs(K, V)) /\ Contents(m) = {p \in Contents(l) : p.key # pairs[n].key} \union {pairs[n]}
    <3> DEFINE k == pairs[n].key
               v == pairs[n].value
    <3>1. k \in K /\ v \in V /\ pairs[n] = [key |-> k, value |-> v] /\ m = Put(l, k, v)
      BY <1>2, <2>1
    <3> HIDE DEF k, v
    <3>2. /\ m \in Seq(Pairs(K, V))
          /\ Contents(m) = {p \in Contents(l) : p.key # k} \union {[key |-> k, value |-> v]}
      BY <3>1, PutContents
    <3> QED BY <3>1, <3>2 DEF k
  <2>3. Contents(l) = After(pairs, n - 1, C)
    BY <1>3 DEF Kept
  <2>4. Contents(m) = After(pairs, n, C)
    <3>1. After(pairs, n, C) =
            {p \in After(pairs, n - 1, C) : p.key # pairs[n].key} \union {pairs[n]}
      BY <1>1, AfterOne
    <3> QED BY <2>2, <2>3, <3>1
  <2> QED BY <1>3, <2>2, <2>4 DEF Kept
<1>4. CASE ~u
  BY <1>4 DEF Kept
<1> QED BY <1>3, <1>4

(* The pairs of a section. *)
LEMMA PairsRun ==
  ASSUME NEW K, NEW V, NoKey \notin K, NEW pairs \in Seq(Pairs(K, V)),
         NEW k0, NEW u \in BOOLEAN, NEW l0 \in Seq(Pairs(K, V)),
         NEW E, E = FlattenSeq([i \in 1 .. Len(pairs) |-> PairEvents(pairs[i])])
  PROVE  /\ E \in Seq(EventsOver(K \union V))
         /\ \E k, l : /\ l \in Seq(Pairs(K, V))
                      /\ Contents(l) = Kept(u, pairs, Len(pairs), Contents(l0))
                      /\ Runs(State(0, k0, u, l0), E, State(2 * Len(pairs), k, u, l))
<1> DEFINE X == EventsOver(K \union V)
           S == Pairs(K, V)
           L == Len(pairs)
           C == Contents(l0)
           seqs == [i \in 1 .. L |-> PairEvents(pairs[i])]
<1>1. L \in Nat /\ \A i \in 1 .. L : pairs[i] \in S
  OBVIOUS
<1>2. \A i \in 1 .. L : PairEvents(pairs[i]) \in Seq(X)
  BY <1>1, PairRuns
<1>3. seqs \in Seq(Seq(X)) /\ Len(seqs) = L
  <2> HIDE DEF X, L
  <2>1. seqs \in [1 .. L -> Seq(X)]
    BY <1>2
  <2> HIDE DEF seqs
  <2>2. seqs \in Seq(Seq(X))
    BY <1>1, <2>1
  <2>3. DOMAIN seqs = 1 .. L
    BY <2>1
  <2> QED BY <1>1, <2>2, <2>3, LenProperties
<1>4. \A i \in 1 .. L : seqs[i] = PairEvents(pairs[i])
  OBVIOUS
<1>5. E = FlattenSeq(seqs)
  OBVIOUS
<1> HIDE DEF X, S, L, C, seqs
<1>6. PICK g \in [0 .. L -> Seq(X)] :
        /\ g[0] = <<>>
        /\ \A n \in 1 .. L : g[n] = g[n - 1] \o seqs[n]
        /\ E = g[L]
  BY <1>3, <1>5, FlattenLoop
<1> DEFINE s == State(0, k0, u, l0)
           H == {n \in 0 .. L : \E k, l : /\ l \in Seq(S) /\ Contents(l) = Kept(u, pairs, n, C)
                                          /\ Runs(s, g[n], State(2 * n, k, u, l))}
<1>7. 0 \in H
  <2>1. Kept(u, pairs, 0, C) = C
    BY AfterNone DEF Kept
  <2>2. Runs(s, <<>>, State(2 * 0, k0, u, l0))
    BY RunsNothing
  <2> HIDE DEF s
  <2> QED BY <1>1, <1>6, <2>1, <2>2 DEF S, C
<1>8. ASSUME NEW n \in 1 .. L, n - 1 \in H PROVE n \in H
  <2>0. n \in 0 .. L /\ n - 1 \in 0 .. L /\ n - 1 \in Nat /\ (n - 1) + 1 = n
    BY <1>1
  <2>1. PICK k, l : /\ l \in Seq(S) /\ Contents(l) = Kept(u, pairs, n - 1, C)
                    /\ Runs(s, g[n - 1], State(2 * (n - 1), k, u, l))
    BY <1>8
  <2> DEFINE m == IF u THEN Put(l, pairs[n].key, pairs[n].value) ELSE l
  <2>2. m \in Seq(S) /\ Contents(m) = Kept(u, pairs, n, C)
    BY <2>1, KeptOne DEF S, L
  <2>3. PICK q : Runs(State(2 * (n - 1), k, u, l), PairEvents(pairs[n]), State(2 * n, q, u, m))
    <3>1. pairs[n] \in Pairs(K, V)
      BY <1>1 DEF S
    <3>2. \E q : Runs(State(2 * (n - 1), k, u, l), PairEvents(pairs[n]), State(2 * ((n - 1) + 1), q, u, m))
      BY <2>0, <3>1, PairRuns
    <3> QED BY <2>0, <3>2
  <2> HIDE DEF m, s
  <2>4. g[n - 1] \in Seq(X) /\ PairEvents(pairs[n]) \in Seq(X)
    BY <1>2, <1>6, <2>0
  <2>5. Runs(s, g[n - 1] \o PairEvents(pairs[n]), State(2 * n, q, u, m))
    BY <2>1, <2>3, <2>4, RunsOn
  <2>6. g[n] = g[n - 1] \o PairEvents(pairs[n])
    BY <1>4, <1>6
  <2> QED BY <2>0, <2>2, <2>5, <2>6
<1>9. L \in H
  <2> HIDE DEF H
  <2>1. 0 .. L \subseteq H
    BY <1>1, <1>7, <1>8, UpTo
  <2> QED BY <1>1, <2>1
<1>10. E \in Seq(X)
  BY <1>1, <1>6
<1>11. \E k, l : /\ l \in Seq(S) /\ Contents(l) = Kept(u, pairs, L, C)
                 /\ Runs(s, E, State(2 * L, k, u, l))
  BY <1>6, <1>9
<1> QED BY <1>10, <1>11 DEF X, S, L, C, s

(* Sections, what one leaves in a list that had C, and the events of one,  *)
(* which lead from s to a state with that list.                            *)
Sections(N, K, V) == [name : N, pairs : Seq(Pairs(K, V))]
OfSection(section, C) == Kept(section.name = Env, section.pairs, Len(section.pairs), C)
SectionLeads(section, s, C, S) ==
  \E c \in Nat, u \in BOOLEAN, l \in Seq(S) : \E k :
    /\ Contents(l) = OfSection(section, C)
    /\ Runs(s, SectionEvents(section), State(2 * c, k, u, l))

(* A section: the scalar before its mapping names it. *)
LEMMA SectionRuns ==
  ASSUME NEW N, NEW K, NEW V, NoKey \notin N, NoKey \notin K,
         NEW section \in Sections(N, K, V),
         NEW m \in Nat, NEW k0, NEW u0 \in BOOLEAN, NEW l0 \in Seq(Pairs(K, V))
  PROVE  /\ SectionEvents(section) \in Seq(EventsOver(N \union K \union V))
         /\ SectionLeads(section, State(2 * m, k0, u0, l0), Contents(l0), Pairs(K, V))
<1> DEFINE X == EventsOver(N \union K \union V)
           S == Pairs(K, V)
           name == section.name
           pairs == section.pairs
           u == name = Env
           a == Scalar(name)
           E == FlattenSeq([i \in 1 .. Len(pairs) |-> PairEvents(pairs[i])])
           s == State(2 * m, k0, u0, l0)
           t == State(0, name, u, l0)
<1>1. name \in N /\ name # NoKey /\ pairs \in Seq(S)
  BY DEF Sections
<1>2. a \in X /\ MappingStart \in X /\ MappingEnd \in X
  BY <1>1 DEF EventsOver
<1>3. Runs(s, <<a>>, State(2 * m + 1, name, u0, l0))
  <2>1. Event(s, a) = State(2 * m + 1, name, u0, l0)
    BY EventKey
  <2> QED BY <2>1, RunsOne
<1>4. Runs(State(2 * m + 1, name, u0, l0), <<MappingStart>>, t)
  <2>1. Event(State(2 * m + 1, name, u0, l0), MappingStart) = t
    <3> DEFINE c == 2 * m + 1
    <3>1. c \in Nat
      OBVIOUS
    <3>3. u = IF name = Env THEN Yes ELSE No
      BY DEF Yes, No
    <3>4. name # NoKey
      BY <1>1
    <3> HIDE DEF name, u, c
    <3>5. Event(State(c, name, u0, l0), MappingStart) = State(0, name, u, l0)
      BY <3>1, <3>3, <3>4, EventStarts
    <3> QED BY <3>5 DEF c
  <2> QED BY <2>1, RunsOne
<1>5. Len(pairs) \in Nat
  BY <1>1
<1>6. /\ E \in Seq(EventsOver(K \union V))
      /\ \E k, l : /\ l \in Seq(S) /\ Contents(l) = Kept(u, pairs, Len(pairs), Contents(l0))
                   /\ Runs(t, E, State(2 * Len(pairs), k, u, l))
  <2>1. u \in BOOLEAN
    OBVIOUS
  <2> HIDE DEF name, pairs, u
  <2> QED BY <1>1, <2>1, PairsRun
<1>7. E \in Seq(X)
  <2> HIDE DEF E
  <2>1. EventsOver(K \union V) \subseteq X
    BY DEF EventsOver
  <2> DEFINE Y == EventsOver(K \union V)
  <2>2. E \in Seq(Y) /\ Y \subseteq X
    BY <1>6, <2>1
  <2> HIDE DEF X, Y
  <2>3. Len(E) \in Nat /\ E \in [1 .. Len(E) -> Y]
    BY <2>2
  <2>4. E \in [1 .. Len(E) -> X]
    BY <2>2, <2>3
  <2> QED BY <2>3, <2>4
<1>8. PICK k, l : /\ l \in Seq(S) /\ Contents(l) = Kept(u, pairs, Len(pairs), Contents(l0))
                  /\ Runs(t, E, State(2 * Len(pairs), k, u, l))
  BY <1>6
<1> DEFINE r == State(2 * Len(pairs), k, u, l)
<1>9. Runs(r, <<MappingEnd>>, r)
  <2>1. Event(r, MappingEnd) = r
    <3> HIDE DEF u, pairs
    <3> QED BY EventEnds
  <2> HIDE DEF r
  <2>2. Runs(r, <<MappingEnd>>, Event(r, MappingEnd))
    BY RunsOne
  <2> QED BY <2>1, <2>2
<1>10. SectionEvents(section) = (<<a, MappingStart>> \o E) \o <<MappingEnd>>
  BY DEF SectionEvents
<1>11. u \in BOOLEAN
  OBVIOUS
<1> HIDE DEF X, S, name, pairs, u, a, E, s, t, r
<1>12. /\ <<a>> \in Seq(X) /\ <<MappingStart>> \in Seq(X) /\ <<a, MappingStart>> \in Seq(X)
       /\ <<a>> \o <<MappingStart>> = <<a, MappingStart>>
  BY <1>2, TwoEvents
<1>13. <<MappingEnd>> \in Seq(X)
  BY <1>2, TwoEvents
<1>14. Runs(s, <<a, MappingStart>>, t)
  BY <1>3, <1>4, <1>12, RunsOn
<1>15. Runs(s, <<a, MappingStart>> \o E, r) /\ <<a, MappingStart>> \o E \in Seq(X)
  <2>1. Runs(t, E, r)
    BY <1>8 DEF r
  <2> QED BY <1>7, <1>12, <1>14, <2>1, RunsOn, ConcatProperties
<1>16. /\ Runs(s, (<<a, MappingStart>> \o E) \o <<MappingEnd>>, r)
       /\ (<<a, MappingStart>> \o E) \o <<MappingEnd>> \in Seq(X)
  BY <1>9, <1>13, <1>15, RunsOn, ConcatProperties
<1>17. Contents(l) = OfSection(section, Contents(l0))
  BY <1>8 DEF OfSection, u, name, pairs
<1>18. \E c \in Nat, w \in BOOLEAN, n \in Seq(S) : \E q :
         /\ Contents(n) = OfSection(section, Contents(l0))
         /\ Runs(s, SectionEvents(section), State(2 * c, q, w, n))
  BY <1>5, <1>8, <1>10, <1>11, <1>16, <1>17 DEF r
<1>19. SectionLeads(section, s, Contents(l0), S)
  BY <1>18 DEF SectionLeads
<1> QED BY <1>10, <1>16, <1>19 DEF X, S, s

(* What the first n sections say, as Says does of all of them. *)
SaidUpTo(sections, n, p) ==
  \E m \in 1 .. n : \E i \in DOMAIN sections[m].pairs :
    /\ sections[m].name = Env
    /\ sections[m].pairs[i] = p
    /\ \A q \in m .. n : \A j \in DOMAIN sections[q].pairs :
         sections[q].name = Env /\ sections[q].pairs[j].key = p.key => q = m /\ j <= i

SaidPairs(sections, n, S) == {p \in S : SaidUpTo(sections, n, p)}

(* Without sections nothing is said. *)
LEMMA SaidNothing == ASSUME NEW sections, NEW S PROVE SaidPairs(sections, 0, S) = {}
BY DEF SaidPairs, SaidUpTo

(* One more section changes what is said just as its pairs, put into the   *)
(* list one after the other, change what is kept.                          *)
LEMMA SaidOne ==
  ASSUME NEW sections, NEW n \in Nat \ {0}, NEW S, NEW pairs \in Seq(S),
         pairs = sections[n].pairs, NEW u \in BOOLEAN, u <=> sections[n].name = Env
  PROVE  SaidPairs(sections, n, S) = Kept(u, pairs, Len(pairs), SaidPairs(sections, n - 1, S))
<1> DEFINE L == Len(pairs)
           Earlier == SaidPairs(sections, n - 1, S)
<1>1. L \in Nat /\ DOMAIN pairs = 1 .. L /\ \A i \in 1 .. L : pairs[i] \in S
  OBVIOUS
<1> HIDE DEF L
<1>2. /\ n \in 1 .. n /\ 1 .. n = 1 .. n - 1 \union {n} /\ n \notin 1 .. n - 1
      /\ \A m \in 1 .. n - 1 : m .. n = m .. n - 1 \union {n}
      /\ n .. n = {n}
      /\ \A m \in 1 .. n - 1 : n # m
  OBVIOUS
<1>3. CASE ~u
  <2>1. ASSUME NEW p PROVE SaidUpTo(sections, n, p) <=> SaidUpTo(sections, n - 1, p)
    BY <1>2, <1>3 DEF SaidUpTo
  <2> QED BY <1>3, <2>1 DEF Kept, SaidPairs
<1>4. CASE u
  <2>1. ASSUME NEW p \in S, SaidUpTo(sections, n, p) PROVE p \in After(pairs, L, Earlier)
    <3>1. PICK m \in 1 .. n : \E i \in DOMAIN sections[m].pairs :
            /\ sections[m].name = Env
            /\ sections[m].pairs[i] = p
            /\ \A q \in m .. n : \A j \in DOMAIN sections[q].pairs :
                 sections[q].name = Env /\ sections[q].pairs[j].key = p.key => q = m /\ j <= i
      BY <2>1 DEF SaidUpTo
    <3>2. PICK i \in DOMAIN sections[m].pairs :
            /\ sections[m].name = Env
            /\ sections[m].pairs[i] = p
            /\ \A q \in m .. n : \A j \in DOMAIN sections[q].pairs :
                 sections[q].name = Env /\ sections[q].pairs[j].key = p.key => q = m /\ j <= i
      BY <3>1
    <3>3. CASE m = n
      <4>1. i \in 1 .. L /\ pairs[i] = p
        BY <1>1, <3>2, <3>3
      <4>2. \A j \in 1 .. L : pairs[j].key = p.key => j <= i
        BY <1>1, <1>2, <1>4, <3>2, <3>3
      <4>3. i \in Latest(pairs, L)
        BY <4>1, <4>2 DEF Latest
      <4> QED BY <4>1, <4>3 DEF After
    <3>4. CASE m # n
      <4>1. m \in 1 .. n - 1
        BY <1>2, <3>4
      <4>2. SaidUpTo(sections, n - 1, p)
        BY <1>2, <3>2, <4>1 DEF SaidUpTo
      <4>3. \A j \in 1 .. L : pairs[j].key # p.key
        BY <1>1, <1>2, <1>4, <3>2, <4>1
      <4> QED BY <4>2, <4>3 DEF After, SaidPairs
    <3> QED BY <3>3, <3>4
  <2>2. ASSUME NEW p \in After(pairs, L, Earlier) PROVE p \in S /\ SaidUpTo(sections, n, p)
    <3>1. CASE p \in Earlier /\ \A j \in 1 .. L : pairs[j].key # p.key
      <4>1. p \in S /\ SaidUpTo(sections, n - 1, p)
        BY <3>1 DEF SaidPairs
      <4>2. PICK m \in 1 .. n - 1 : \E i \in DOMAIN sections[m].pairs :
              /\ sections[m].name = Env
              /\ sections[m].pairs[i] = p
              /\ \A q \in m .. n - 1 : \A j \in DOMAIN sections[q].pairs :
                   sections[q].name = Env /\ sections[q].pairs[j].key = p.key => q = m /\ j <= i
        BY <4>1 DEF SaidUpTo
      <4>3. PICK i \in DOMAIN sections[m].pairs :
              /\ sections[m].name = Env
              /\ sections[m].pairs[i] = p
              /\ \A q \in m .. n - 1 : \A j \in DOMAIN sections[q].pairs :
                   sections[q].name = Env /\ sections[q].pairs[j].key = p.key => q = m /\ j <= i
        BY <4>2
      <4>4. m \in 1 .. n
        BY <1>2
      <4>5. \A q \in m .. n : \A j \in DOMAIN sections[q].pairs :
              sections[q].name = Env /\ sections[q].pairs[j].key = p.key => q = m /\ j <= i
        BY <1>1, <1>2, <3>1, <4>3
      <4> QED BY <4>1, <4>3, <4>4, <4>5 DEF SaidUpTo
    <3>2. CASE \E j \in Latest(pairs, L) : p = pairs[j]
      <4>1. PICK i \in Latest(pairs, L) : p = pairs[i]
        BY <3>2
      <4>2. i \in 1 .. L /\ \A j \in 1 .. L : pairs[j].key = p.key => j <= i
        BY <4>1 DEF Latest
      <4>3. \A q \in n .. n : \A j \in DOMAIN sections[q].pairs :
              sections[q].name = Env /\ sections[q].pairs[j].key = p.key => q = n /\ j <= i
        BY <1>1, <1>2, <4>2
      <4>4. i \in DOMAIN sections[n].pairs /\ sections[n].name = Env /\ sections[n].pairs[i] = p
        BY <1>1, <1>4, <4>1, <4>2
      <4>5. SaidUpTo(sections, n, p)
        BY <1>2, <4>3, <4>4 DEF SaidUpTo
      <4> QED BY <1>1, <4>1, <4>2, <4>5
    <3> QED BY <2>2, <3>1, <3>2 DEF After
  <2>3. SaidPairs(sections, n, S) = After(pairs, L, Earlier)
    BY <2>1, <2>2 DEF SaidPairs
  <2> QED BY <1>4, <2>3 DEF Kept, L
<1> QED BY <1>3, <1>4

(* The sections of a file. *)
LEMMA SectionsRun ==
  ASSUME NEW N, NEW K, NEW V, NoKey \notin N, NoKey \notin K,
         NEW sections \in Seq(Sections(N, K, V)),
         NEW E, E = FlattenSeq([n \in 1 .. Len(sections) |-> SectionEvents(sections[n])])
  PROVE  /\ E \in Seq(EventsOver(N \union K \union V))
         /\ \E c \in Nat, u \in BOOLEAN, l \in Seq(Pairs(K, V)) : \E k :
              /\ Contents(l) = SaidPairs(sections, Len(sections), Pairs(K, V))
              /\ Runs(Unread, E, State(2 * c, k, u, l))
<1> DEFINE X == EventsOver(N \union K \union V)
           S == Pairs(K, V)
           L == Len(sections)
           seqs == [n \in 1 .. L |-> SectionEvents(sections[n])]
<1>0. 0 \in Nat /\ FALSE \in BOOLEAN /\ <<>> \in Seq(S)
  OBVIOUS
<1>1. L \in Nat /\ \A n \in 1 .. L : sections[n] \in Sections(N, K, V)
  OBVIOUS
<1>2. \A n \in 1 .. L : SectionEvents(sections[n]) \in Seq(X)
  BY <1>0, <1>1, SectionRuns
<1>3. seqs \in Seq(Seq(X)) /\ Len(seqs) = L
  <2> HIDE DEF X, L
  <2>1. seqs \in [1 .. L -> Seq(X)]
    BY <1>2
  <2> HIDE DEF seqs
  <2>2. seqs \in Seq(Seq(X))
    BY <1>1, <2>1
  <2>3. DOMAIN seqs = 1 .. L
    BY <2>1
  <2> QED BY <1>1, <2>2, <2>3, LenProperties
<1>4. \A n \in 1 .. L : seqs[n] = SectionEvents(sections[n])
  OBVIOUS
<1>5. E = FlattenSeq(seqs)
  OBVIOUS
<1> HIDE DEF X, S, L, seqs
<1>6. PICK g \in [0 .. L -> Seq(X)] :
        /\ g[0] = <<>>
        /\ \A n \in 1 .. L : g[n] = g[n - 1] \o seqs[n]
        /\ E = g[L]
  BY <1>3, <1>5, FlattenLoop
<1> DEFINE Reached(n, c, u, l, k) ==
             /\ Contents(l) = SaidPairs(sections, n, S)
             /\ Runs(Unread, g[n], State(2 * c, k, u, l))
           H == {n \in 0 .. L : \E c \in Nat, u \in BOOLEAN, l \in Seq(S) : \E k : Reached(n, c, u, l, k)}
<1>7. 0 \in H
  <2>1. Unread = State(2 * 0, NoKey, FALSE, <<>>)
    BY DEF Unread, State
  <2>2. Contents(<<>>) = SaidPairs(sections, 0, S)
    BY SaidNothing DEF Contents
  <2>3. Runs(Unread, g[0], State(2 * 0, NoKey, FALSE, <<>>))
    <3>1. Runs(Unread, g[0], Unread)
      BY <1>6, RunsNothing
    <3> QED BY <2>1, <3>1, Zenon
  <2>4. Reached(0, 0, FALSE, <<>>, NoKey)
    BY <2>2, <2>3
  <2> HIDE DEF Reached
  <2>5. \E c \in Nat, u \in BOOLEAN, l \in Seq(S) : \E k : Reached(0, c, u, l, k)
    BY <1>0, <2>4, Zenon
  <2> QED BY <1>1, <2>5
<1>8. ASSUME NEW n \in 1 .. L, n - 1 \in H PROVE n \in H
  <2>0. n \in 0 .. L /\ n - 1 \in 0 .. L /\ n \in Nat \ {0}
    BY <1>1
  <2>1a. PICK c \in Nat, u \in BOOLEAN, l \in Seq(S) : \E k : Reached(n - 1, c, u, l, k)
    BY <1>8
  <2>1. PICK k : Reached(n - 1, c, u, l, k)
    BY <2>1a
  <2> DEFINE section == sections[n]
             e == section.name = Env
  <2>2. /\ section \in Sections(N, K, V) /\ section.pairs \in Seq(S) /\ e \in BOOLEAN
    <3>1. section \in Sections(N, K, V)
      BY <1>1
    <3> QED BY <3>1 DEF Sections, S
  <2>3a. PICK d \in Nat, w \in BOOLEAN, r \in Seq(S) : \E q :
          /\ Contents(r) = OfSection(section, Contents(l))
          /\ Runs(State(2 * c, k, u, l), SectionEvents(section), State(2 * d, q, w, r))
    <3> HIDE DEF section, Reached
    <3>1. l \in Seq(Pairs(K, V)) /\ section \in Sections(N, K, V)
      BY <2>2 DEF S
    <3>2. SectionLeads(section, State(2 * c, k, u, l), Contents(l), S)
      BY <3>1, SectionRuns DEF S
    <3> QED BY <3>2 DEF SectionLeads
  <2>3. PICK q :
          /\ Contents(r) = OfSection(section, Contents(l))
          /\ Runs(State(2 * c, k, u, l), SectionEvents(section), State(2 * d, q, w, r))
    BY <2>3a
  <2>4. Contents(r) = SaidPairs(sections, n, S)
    <3>1. e <=> sections[n].name = Env
      OBVIOUS
    <3>2. OfSection(section, Contents(l)) = Kept(e, section.pairs, Len(section.pairs), Contents(l))
      BY DEF OfSection
    <3> HIDE DEF e
    <3>3. SaidPairs(sections, n, S) =
            Kept(e, section.pairs, Len(section.pairs), SaidPairs(sections, n - 1, S))
      BY <2>0, <2>2, <3>1, SaidOne
    <3> QED BY <2>1, <2>3, <3>2, <3>3
  <2>5. Runs(Unread, g[n], State(2 * d, q, w, r))
    <3>1. g[n - 1] \in Seq(X) /\ SectionEvents(section) \in Seq(X)
      BY <1>2, <1>6, <2>0
    <3>2. g[n] = g[n - 1] \o SectionEvents(section)
      BY <1>4, <1>6
    <3> HIDE DEF section
    <3> QED BY <2>1, <2>3, <3>1, <3>2, RunsOn
  <2>6. Reached(n, d, w, r, q)
    BY <2>4, <2>5
  <2> HIDE DEF Reached
  <2> QED BY <2>0, <2>6
<1>9. L \in H
  <2> HIDE DEF H
  <2>1. 0 .. L \subseteq H
    BY <1>1, <1>7, <1>8, UpTo
  <2> QED BY <1>1, <2>1
<1>10. E \in Seq(X)
  BY <1>1, <1>6
<1>11. \E c \in Nat, u \in BOOLEAN, l \in Seq(S) : \E k : Reached(L, c, u, l, k)
  BY <1>9
<1> QED BY <1>6, <1>10, <1>11 DEF X, S, L

(* load_from_file(): of every flat file, with any number of sections and   *)
(* keys, it keeps exactly the keys of the section for the environment,     *)
(* each with the value given last.                                         *)
THEOREM FlatFileLoaded ==
  ASSUME NEW N, NEW K, NEW V, NoKey \notin N, NoKey \notin K,
         NEW sections \in Seq(Sections(N, K, V)), NEW key \in K, NEW value \in V
  PROVE  LoadedAsSaid(sections, key, value)
<1> DEFINE X == EventsOver(N \union K \union V)
           S == Pairs(K, V)
           E == FlattenSeq([n \in 1 .. Len(sections) |-> SectionEvents(sections[n])])
           p == [key |-> key, value |-> value]
<1>1. /\ E \in Seq(X)
      /\ \E c \in Nat, u \in BOOLEAN, l \in Seq(S) : \E k :
           /\ Contents(l) = SaidPairs(sections, Len(sections), S)
           /\ Runs(Unread, E, State(2 * c, k, u, l))
  BY SectionsRun
<1>2a. PICK c \in Nat, u \in BOOLEAN, l \in Seq(S) : \E k :
         /\ Contents(l) = SaidPairs(sections, Len(sections), S)
         /\ Runs(Unread, E, State(2 * c, k, u, l))
  BY <1>1
<1>2. PICK k :
        /\ Contents(l) = SaidPairs(sections, Len(sections), S)
        /\ Runs(Unread, E, State(2 * c, k, u, l))
  BY <1>2a
<1> DEFINE t == State(2 * c, k, u, l)
<1>3. Flat(sections) = (<<MappingStart>> \o E) \o <<MappingEnd>>
  BY DEF Flat
<1>4. Runs(Unread, <<MappingStart>>, Unread)
  <2>1. Event(Unread, MappingStart) = Unread
    BY DEF Event, MappingStart, Unread
  <2> QED BY <2>1, RunsOne
<1>5. Runs(t, <<MappingEnd>>, t)
  <2>1. Event(t, MappingEnd) = t
    BY DEF Event, MappingEnd, State
  <2> HIDE DEF t
  <2>2. Runs(t, <<MappingEnd>>, Event(t, MappingEnd))
    BY RunsOne
  <2> QED BY <2>1, <2>2
<1>6. t.loaded = l
  BY DEF State
<1>7. p \in S
  BY DEF Pairs
<1>8. MappingStart \in X /\ MappingEnd \in X
  BY DEF EventsOver
<1> HIDE DEF X, E, t
<1>9. <<MappingStart>> \in Seq(X) /\ <<MappingEnd>> \in Seq(X)
  BY <1>8, TwoEvents
<1>10. Runs(Unread, <<MappingStart>> \o E, t) /\ <<MappingStart>> \o E \in Seq(X)
  BY <1>1, <1>2, <1>4, <1>9, RunsOn, ConcatProperties DEF t
<1>11. Runs(Unread, Flat(sections), t) /\ Flat(sections) \in Seq(X)
  BY <1>3, <1>5, <1>9, <1>10, RunsOn, ConcatProperties
<1>12. Load(Flat(sections)) = l
  BY <1>6, <1>11, LoadRuns
<1>13. p \in Contents(l) <=> SaidUpTo(sections, Len(sections), p)
  BY <1>2, <1>7 DEF SaidPairs
<1>14. DOMAIN sections = 1 .. Len(sections) /\ p.key = key
  OBVIOUS
<1>15. SaidUpTo(sections, Len(sections), p) <=> Says(sections, key, value)
  BY <1>14 DEF SaidUpTo, Says
<1> HIDE DEF p
<1>16. (\E i \in DOMAIN l : l[i] = p) <=> Says(sections, key, value)
  BY <1>13, <1>15 DEF Contents
<1> QED BY <1>12, <1>16 DEF LoadedAsSaid, p

(* The instances of FlatFileLoaded that the runs of workqd check:          *)
(* load_from_file() loads what each file a process may be given says.      *)
THEOREM SectionLoadedAlways == DaemonSpec => []SectionLoaded
<1> DEFINE N == {Env, "test"}
           P == Pairs(MCKeys, MCValues)
<1>1. NoKey \notin N
  BY QuarkAssumption
<1>2. NoKey \notin MCKeys
  BY QuarkAssumption DEF MCKeys
<1>3. Lists \subseteq Seq(P)
  <2>1. ASSUME NEW list \in Lists PROVE list \in Seq(P)
    <3>1. PICK n \in 0 .. 2 : list \in [1 .. n -> P]
      BY DEF Lists, Pairs
    <3> HIDE DEF P
    <3>2. n \in Nat
      OBVIOUS
    <3> QED BY <3>1, <3>2
  <2> QED BY <2>1
<1>4. ASSUME NEW sections \in FlatFiles PROVE sections \in Seq(Sections(N, MCKeys, MCValues))
  <2> DEFINE Y == Sections(N, MCKeys, MCValues)
  <2>1. PICK n \in 0 .. 2 : sections \in [1 .. n -> [name : N, pairs : Lists]]
    BY DEF FlatFiles
  <2>2. [name : N, pairs : Lists] \subseteq Y
    BY <1>3 DEF Sections
  <2>3. n \in Nat
    OBVIOUS
  <2> DEFINE Z == [name : N, pairs : Lists]
  <2>4. sections \in [1 .. n -> Z] /\ Z \subseteq Y
    BY <2>1, <2>2
  <2> HIDE DEF Y, Z
  <2>5. sections \in [1 .. n -> Y]
    BY <2>4
  <2>6. sections \in Seq(Y)
    BY <2>3, <2>5
  <2> QED BY <2>6 DEF Y
<1>5. SectionLoaded
  <2> HIDE DEF N
  <2> QED BY <1>1, <1>2, <1>4, FlatFileLoaded DEF SectionLoaded, EveryFileLoaded
<1> QED BY <1>5, PTL
=============================================================================
