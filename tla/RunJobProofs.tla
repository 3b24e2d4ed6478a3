----------------------------- MODULE RunJobProofs -----------------------------
(***************************************************************************)
(* Proofs about RunJob, for any commands, any sizes of the pipes and       *)
(* buffers, any number of descriptors and of files of other threads: what  *)
(* becomes of the descriptors, whatever numbers they are given and         *)
(* whichever of them other threads close; then, on top of it, that what    *)
(* was written is collected, that a success is reported as one, and what   *)
(* can take the worker down.                                               *)
(***************************************************************************)
EXTENDS RunJob, SequenceTheorems, TLAPS

FdTypeOK ==
  /\ num \in [Ends -> Fds \union {0}]
  /\ fds \in [Fds -> Ends \union {<<"other">>, <<"free">>}]
  /\ again \subseteq Fds /\ hit \subseteq Ends
  /\ lost \in BOOLEAN /\ raced \in BOOLEAN

(* Only ends in D are open, each under the number the thread remembers. *)
Owns(D) == \A n \in Fds : fds[n] \in Ends => fds[n] \in D /\ num[fds[n]] = n

(* The ends in D are open. *)
Has(D) == \A e \in D : num[e] \in Fds /\ fds[num[e]] = e

PipeEnds(s) == {<<s, "r">>, <<s, "w">>}
ReadEnds == {<<"out", "r">>, <<"err", "r">>}
WriteEnds == {<<"out", "w">>, <<"err", "w">>}

LEMMA EndFacts ==
  /\ Ends = {<<"out", "r">>, <<"out", "w">>, <<"err", "r">>, <<"err", "w">>}
  /\ <<"other">> \notin Ends /\ <<"free">> \notin Ends /\ <<"other">> # <<"free">>
  /\ \A s \in Streams : {s} \X {"r", "w"} = PipeEnds(s) /\ PipeEnds(s) \subseteq Ends
  /\ Streams \X {"r"} = ReadEnds /\ Streams \X {"w"} = WriteEnds
<1>1. Ends = {<<"out", "r">>, <<"out", "w">>, <<"err", "r">>, <<"err", "w">>}
  BY DEF Ends
<1>2. <<"other">> \notin Ends /\ <<"free">> \notin Ends /\ <<"other">> # <<"free">>
  BY DEF Ends
<1>3. \A s \in Streams : {s} \X {"r", "w"} = PipeEnds(s) /\ PipeEnds(s) \subseteq Ends
  BY DEF PipeEnds, Ends, Streams
<1>4. Streams \X {"r"} = ReadEnds /\ Streams \X {"w"} = WriteEnds
  BY DEF ReadEnds, WriteEnds, Streams
<1> QED BY <1>1, <1>2, <1>3, <1>4

(* close() of ends C: what is left is what was open without C, and if all  *)
(* of it was open no file of another thread is closed.                     *)
LEMMA CloseStep ==
  ASSUME FdTypeOK, NEW D \in SUBSET Ends, NEW C \in SUBSET Ends, Owns(D), Close(C),
         UNCHANGED <<hit, raced>>
  PROVE  /\ FdTypeOK' /\ Owns(D \ C)'
         /\ Has(D) /\ C \subseteq D => Has(D \ C)' /\ lost' = lost
         /\ \A e \in C : num[e] \in Fds => fds'[num'[e]] = <<"free">>
         /\ \A n \in Fds : fds'[n] = <<"other">> => fds[n] = <<"other">>
         /\ (\A e \in C : num[e] \in Fds => fds[num[e]] # <<"other">>) => lost' = lost
<1> DEFINE numbers == {num[e] : e \in C}
           others == {n \in numbers : At(n) = <<"other">>}
<1>1. /\ fds' = [n \in Fds |-> IF n \in numbers THEN <<"free">> ELSE fds[n]]
      /\ again' = again \union others
      /\ lost' = (lost \/ others # {})
      /\ num' = num
  BY DEF Close
<1>2. /\ num \in [Ends -> Fds \union {0}]
      /\ fds \in [Fds -> Ends \union {<<"other">>, <<"free">>}]
      /\ lost \in BOOLEAN /\ raced \in BOOLEAN /\ again \subseteq Fds /\ hit \subseteq Ends
  BY DEF FdTypeOK
<1>a. others \subseteq Fds
  BY <1>2, EndFacts DEF At
<1>3. FdTypeOK'
  <2>1. fds' \in [Fds -> Ends \union {<<"other">>, <<"free">>}]
    BY <1>1, <1>2
  <2>2. lost' \in BOOLEAN
    BY <1>1
  <2> HIDE DEF others
  <2> QED BY <1>1, <1>2, <1>a, <2>1, <2>2 DEF FdTypeOK
<1>4. \A n \in Fds : fds'[n] # <<"free">> => fds'[n] = fds[n] /\ n \notin numbers
  BY <1>1
<1>5. \A n \in Fds : fds'[n] = <<"other">> => fds[n] = <<"other">>
  BY <1>4, EndFacts
<1>6. Owns(D \ C)'
  <2> SUFFICES ASSUME NEW n \in Fds, fds'[n] \in Ends
               PROVE  fds'[n] \in D \ C /\ num'[fds'[n]] = n
    BY DEF Owns
  <2>1. fds'[n] = fds[n] /\ n \notin numbers
    BY <1>4, EndFacts
  <2> QED BY <1>1, <2>1 DEF Owns
<1>7. \A e \in C : num[e] \in Fds => fds'[num'[e]] = <<"free">>
  BY <1>1
<1>8. ASSUME \A e \in C : num[e] \in Fds => fds[num[e]] # <<"other">>
      PROVE  lost' = lost
  <2>1. others = {}
    BY <1>8, EndFacts DEF At
  <2> HIDE DEF others
  <2> QED BY <1>1, <1>2, <2>1
<1>9. ASSUME Has(D), C \subseteq D
      PROVE  Has(D \ C)' /\ lost' = lost
  <2>1. lost' = lost
    BY <1>8, <1>9, EndFacts DEF Has
  <2>2. ASSUME NEW e \in D \ C PROVE num'[e] \in Fds /\ fds'[num'[e]] = e
    <3>1. num[e] \in Fds /\ fds[num[e]] = e
      BY <1>9 DEF Has
    <3>2. num[e] \notin numbers
      BY <1>9, <3>1 DEF Has
    <3> QED BY <1>1, <3>1, <3>2
  <2> QED BY <2>1, <2>2 DEF Has
<1> QED BY <1>3, <1>5, <1>6, <1>7, <1>8, <1>9

(* pipe() gives two numbers that are in use for nothing else. *)
LEMMA OpenPipeStep ==
  ASSUME FdTypeOK, NEW s \in Streams, NEW D, D = {} \/ (s = "err" /\ D = PipeEnds("out")),
         Owns(D), OpenPipe(s), UNCHANGED <<hit, raced>>
  PROVE  /\ FdTypeOK' /\ Owns(D \union PipeEnds(s))' /\ lost' = lost
         /\ Has(D) => Has(D \union PipeEnds(s))'
<1>0. /\ num \in [Ends -> Fds \union {0}]
      /\ fds \in [Fds -> Ends \union {<<"other">>, <<"free">>}]
  BY DEF FdTypeOK
<1>1. PICK r \in Free, w \in Free :
        /\ IsLowest(w, Free \ {r})
        /\ num' = [num EXCEPT ![<<s, "r">>] = r, ![<<s, "w">>] = w]
        /\ fds' = [fds EXCEPT ![r] = <<s, "r">>, ![w] = <<s, "w">>]
        /\ UNCHANGED <<again, lost>>
  BY DEF OpenPipe
<1>2. w # r /\ r \in Fds /\ w \in Fds /\ fds[r] = <<"free">> /\ fds[w] = <<"free">>
  BY <1>1 DEF Free, IsLowest
<1>7. /\ <<s, "r">> \in Ends /\ <<s, "w">> \in Ends /\ <<s, "r">> # <<s, "w">>
      /\ PipeEnds(s) = {<<s, "r">>, <<s, "w">>}
      /\ D \subseteq Ends /\ D \cap PipeEnds(s) = {}
  BY EndFacts DEF PipeEnds, Streams
<1>8. /\ num'[<<s, "r">>] = r /\ num'[<<s, "w">>] = w
      /\ fds'[r] = <<s, "r">> /\ fds'[w] = <<s, "w">>
      /\ \A e \in Ends : e \notin PipeEnds(s) => num'[e] = num[e]
      /\ \A n \in Fds : n # r /\ n # w => fds'[n] = fds[n]
  BY <1>0, <1>1, <1>2, <1>7
<1>9. FdTypeOK'
  BY <1>0, <1>1, <1>2, <1>7 DEF FdTypeOK
<1>11. Owns(D \union PipeEnds(s))'
  <2> SUFFICES ASSUME NEW n \in Fds, fds'[n] \in Ends
               PROVE  fds'[n] \in D \union PipeEnds(s) /\ num'[fds'[n]] = n
    BY DEF Owns
  <2>1. CASE n \in {r, w}
    BY <1>7, <1>8, <2>1
  <2>2. CASE n \notin {r, w}
    BY <1>7, <1>8, <2>2 DEF Owns
  <2> QED BY <2>1, <2>2
<1>12. ASSUME Has(D) PROVE Has(D \union PipeEnds(s))'
  <2>1. ASSUME NEW e \in D PROVE num'[e] \in Fds /\ fds'[num'[e]] = e
    <3>1. num[e] \in Fds /\ fds[num[e]] = e /\ e \in Ends /\ num'[e] = num[e]
      BY <1>7, <1>8, <1>12 DEF Has
    <3> QED BY <1>2, <1>8, <3>1, EndFacts
  <2>2. ASSUME NEW e \in PipeEnds(s) PROVE num'[e] \in Fds /\ fds'[num'[e]] = e
    BY <1>2, <1>7, <1>8
  <2> QED BY <2>1, <2>2 DEF Has
<1> QED BY <1>1, <1>9, <1>11, <1>12

(* The ends that may be open at a place in execute(),                      *)
OpenAt(label) ==
  CASE label = "pipe_err" -> PipeEnds("out")
    [] label \in {"fork", "close"} -> Ends
    [] label \in {"fdopen", "read_out", "read_err", "fclose_out", "crashed"} -> ReadEnds
    [] label = "fclose_err" -> {<<"err", "r">>}
    [] OTHER -> {}

(* and those that fclose() has closed and close() will be called for.      *)
ClosedOnce(label) ==
  CASE label = "fclose_err" -> {<<"out", "r">>}
    [] label = "close_out" -> ReadEnds
    [] label = "close_err" -> {<<"err", "r">>}
    [] OTHER -> {}

(* No file of another thread is, or was, where close() will look. *)
Undisturbed ==
  /\ ~lost
  /\ \A e \in ClosedOnce(pc) : num[e] \in Fds => fds[num[e]] # <<"other">>

(* As long as no other thread closes an end, all of them are under their   *)
(* numbers.                                                                *)
FdInv ==
  /\ FdTypeOK /\ Owns(OpenAt(pc))
  /\ hit = {} /\ pc # "crashed" => Has(OpenAt(pc))
  /\ hit = {} /\ ~raced => Undisturbed

LEMMA OpenAtType == \A label : OpenAt(label) \in SUBSET Ends
BY EndFacts DEF OpenAt, ReadEnds, Streams

(* A step that leaves the descriptors alone. *)
LEMMA StillStep ==
  ASSUME FdInv, UNCHANGED <<endvars, hit, raced>>,
         OpenAt(pc') = OpenAt(pc), ClosedOnce(pc') = ClosedOnce(pc),
         pc = "crashed" => pc' = "crashed"
  PROVE  FdInv'
BY DEF FdInv, FdTypeOK, Owns, Has, Undisturbed, endvars

(* A step that closes what is open, and not again at another place. *)
LEMMA ClosingStep ==
  ASSUME FdInv, NEW C \in SUBSET Ends, Close(C), C \subseteq OpenAt(pc), pc # "crashed",
         OpenAt(pc') = OpenAt(pc) \ C,
         ClosedOnce(pc') \subseteq ClosedOnce(pc) \union C,
         UNCHANGED <<hit, raced>>
  PROVE  FdInv'
<1>1. /\ FdTypeOK' /\ Owns(OpenAt(pc) \ C)'
      /\ Has(OpenAt(pc)) => Has(OpenAt(pc) \ C)' /\ lost' = lost
      /\ \A e \in C : num[e] \in Fds => fds'[num'[e]] = <<"free">>
      /\ \A n \in Fds : fds'[n] = <<"other">> => fds[n] = <<"other">>
  BY CloseStep, OpenAtType DEF FdInv
<1>2. Owns(OpenAt(pc))'
  BY <1>1 DEF Owns
<1>3. hit' = {} => Has(OpenAt(pc))' /\ lost' = lost
  BY <1>1 DEF FdInv, Has
<1>4. ASSUME ~raced, hit = {} PROVE Undisturbed'
  <2>1. Undisturbed
    BY <1>4 DEF FdInv
  <2>2. \A e \in ClosedOnce(pc') : num'[e] \in Fds => fds'[num'[e]] # <<"other">>
    BY <1>1, <2>1, EndFacts DEF Undisturbed, Close
  <2> QED BY <1>3, <1>4, <2>1, <2>2 DEF Undisturbed
<1> QED BY <1>1, <1>2, <1>3, <1>4 DEF FdInv

(* The second close() finds nothing of the job's, and of another thread's  *)
(* only what was opened in between.                                        *)
LEMMA ClosingAgainStep ==
  ASSUME FdInv, NEW C \in SUBSET Ends, Close(C), OpenAt(pc) = {}, OpenAt(pc') = {},
         C \subseteq ClosedOnce(pc), ClosedOnce(pc') \subseteq ClosedOnce(pc),
         UNCHANGED <<hit, raced>>
  PROVE  FdInv'
<1>1. /\ FdTypeOK' /\ Owns({})'
      /\ \A n \in Fds : fds'[n] = <<"other">> => fds[n] = <<"other">>
      /\ (\A e \in C : num[e] \in Fds => fds[num[e]] # <<"other">>) => lost' = lost
  <2>1. {} \in SUBSET Ends /\ Owns({}) /\ FdTypeOK
    BY DEF FdInv
  <2>2. /\ FdTypeOK' /\ Owns({} \ C)'
        /\ \A n \in Fds : fds'[n] = <<"other">> => fds[n] = <<"other">>
        /\ (\A e \in C : num[e] \in Fds => fds[num[e]] # <<"other">>) => lost' = lost
    BY <2>1, CloseStep
  <2> QED BY <2>2 DEF Owns
<1>2. ASSUME ~raced, hit = {} PROVE Undisturbed'
  BY <1>1, <1>2 DEF FdInv, Undisturbed, Close
<1>3. Owns(OpenAt(pc))' /\ Has(OpenAt(pc))'
  BY <1>1 DEF Owns, Has
<1> QED BY <1>1, <1>2, <1>3 DEF FdInv

(* The thread's own steps keep the descriptors in order. *)
LEMMA ThreadFds == ASSUME FdInv, Execute PROVE FdInv'
<1> USE DEF OpenAt, ClosedOnce
<1>1. CASE LoadData \/ ParseCommand \/ Wait
  BY <1>1, StillStep DEF LoadData, ParseCommand, Wait, Returns, worldvars
<1>2. CASE ReadOut \/ ReadErr
  BY <1>2, StillStep DEF ReadOut, ReadErr, worldvars
<1>a. CASE Fdopen
  BY <1>a, StillStep DEF Fdopen, worldvars
<1>b. CASE Destroy
  <2>1. UNCHANGED <<num, fds, again, lost, hit, raced>> /\ OpenAt(pc) = {} /\ ClosedOnce(pc') = {}
        /\ ClosedOnce(pc) = {}
    BY <1>b DEF Destroy, endvars, worldvars
  <2>2. pc' # "crashed" => OpenAt(pc') = {}
    BY <1>b DEF Destroy
  <2> HIDE DEF OpenAt, ClosedOnce
  <2> QED BY <2>1, <2>2 DEF FdInv, FdTypeOK, Owns, Has, Undisturbed
<1>3. ASSUME NEW s \in Streams, NEW D, D = {} \/ (s = "err" /\ D = PipeEnds("out")),
             D = OpenAt(pc), OpenPipe(s), OpenAt(pc') = D \union PipeEnds(s),
             ClosedOnce(pc') = {}, UNCHANGED <<hit, raced>>, pc # "crashed"
      PROVE  FdInv'
  <2>1. /\ FdTypeOK' /\ Owns(D \union PipeEnds(s))' /\ lost' = lost
        /\ Has(D) => Has(D \union PipeEnds(s))'
    <3>1. FdTypeOK /\ Owns(D)
      BY <1>3 DEF FdInv
    <3> QED BY <1>3, <3>1, OpenPipeStep
  <2> HIDE DEF OpenAt, ClosedOnce
  <2> QED BY <1>3, <2>1 DEF FdInv, Undisturbed, Owns, Has
<1>4. CASE PipeOut
  <2>1. CASE OpenPipe("out") /\ pc = "pipe_out" /\ pc' = "pipe_err"
    BY <1>3, <1>4, <2>1 DEF PipeOut, Streams, worldvars
  <2>2. CASE UNCHANGED endvars /\ pc = "pipe_out" /\ pc' = "destroy"
    BY <1>4, <2>2, StillStep DEF PipeOut, worldvars
  <2> QED BY <1>4, <2>1, <2>2 DEF PipeOut, Returns
<1>5. CASE PipeErr
  <2>1. CASE OpenPipe("err") /\ pc = "pipe_err" /\ pc' = "fork"
    <3>1. PipeEnds("out") \union PipeEnds("err") = Ends
      BY EndFacts DEF PipeEnds
    <3> QED BY <1>3, <1>5, <2>1, <3>1 DEF PipeErr, Streams, worldvars
  <2>2. CASE Close({"out"} \X {"r", "w"}) /\ pc = "pipe_err" /\ pc' = "destroy"
    <3>1. {"out"} \X {"r", "w"} = PipeEnds("out") /\ PipeEnds("out") \in SUBSET Ends
      BY EndFacts DEF Streams
    <3> QED BY <1>5, <2>2, <3>1, ClosingStep DEF PipeErr, worldvars
  <2> QED BY <1>5, <2>1, <2>2 DEF PipeErr, Returns
<1>6. CASE Fork
  <2>1. CASE UNCHANGED endvars /\ pc = "fork" /\ pc' = "close"
    BY <1>6, <2>1, StillStep DEF Fork, worldvars
  <2>2. CASE Close(Ends) /\ pc = "fork" /\ pc' = "destroy"
    BY <1>6, <2>2, ClosingStep DEF Fork, worldvars
  <2> QED BY <1>6, <2>1, <2>2 DEF Fork, Returns
<1>7. CASE CloseWriteEnds
  <2>1. Streams \X {"w"} = WriteEnds /\ WriteEnds \in SUBSET Ends /\ ReadEnds = Ends \ WriteEnds
    BY EndFacts DEF WriteEnds, ReadEnds
  <2> QED BY <1>7, <2>1, ClosingStep DEF CloseWriteEnds, worldvars
<1>8. CASE FcloseOut
  <2>1. {<<"out", "r">>} \in SUBSET Ends /\ {<<"err", "r">>} = ReadEnds \ {<<"out", "r">>}
    BY EndFacts DEF ReadEnds
  <2> QED BY <1>8, <2>1, ClosingStep DEF FcloseOut, worldvars, ReadEnds
<1>9. CASE FcloseErr
  <2>1. {<<"err", "r">>} \in SUBSET Ends
    BY EndFacts
  <2> QED BY <1>9, <2>1, ClosingStep DEF FcloseErr, worldvars, ReadEnds
<1>10. CASE CloseAgain
  <2>1. {<<"out", "r">>} \in SUBSET Ends /\ {<<"err", "r">>} \in SUBSET Ends
    BY EndFacts
  <2> QED BY <1>10, <2>1, ClosingAgainStep DEF CloseAgain, worldvars, ReadEnds
<1> QED BY <1>1, <1>2, <1>a, <1>b, <1>4, <1>5, <1>6, <1>7, <1>8, <1>9, <1>10 DEF Execute

(* So do the child and the rest of the process. *)
LEMMA WorldFds ==
  ASSUME FdInv,
         \/ Child \/ LibevReaps \/ HeirsExit \/ SiblingForks \/ OtherOpens
         \/ \E n \in Fds : OtherCloses(n) \/ SiblingCloses(n)
  PROVE  FdInv'
<1>0. /\ num \in [Ends -> Fds \union {0}]
      /\ fds \in [Fds -> Ends \union {<<"other">>, <<"free">>}]
      /\ again \subseteq Fds /\ hit \subseteq Ends
      /\ lost \in BOOLEAN /\ raced \in BOOLEAN
  BY DEF FdInv, FdTypeOK
<1>1. CASE Child \/ LibevReaps \/ HeirsExit \/ SiblingForks
  BY <1>1, StillStep DEF Child, ChildWrites, ChildExits, LibevReaps, HeirsExit, SiblingForks, worldvars
<1>2. CASE OtherOpens
  <2>1. PICK r \in Free : fds' = [fds EXCEPT ![r] = <<"other">>]
    BY <1>2 DEF OtherOpens
  <2>3. UNCHANGED <<pc, num, again, lost, hit>>
    BY <1>2 DEF OtherOpens
  <2>4. r \in Fds /\ fds[r] = <<"free">>
    BY <2>1 DEF Free
  <2>5. fds'[r] = <<"other">> /\ \A n \in Fds : n # r => fds'[n] = fds[n]
    BY <1>0, <2>1, <2>4
  <2>a. raced' \in BOOLEAN
    BY <1>2 DEF OtherOpens
  <2>6. FdTypeOK'
    BY <1>0, <2>1, <2>3, <2>4, <2>a DEF FdTypeOK
  <2>7. Owns(OpenAt(pc))'
    BY <2>3, <2>5, EndFacts DEF FdInv, Owns
  <2>8. hit' = {} /\ pc' # "crashed" => Has(OpenAt(pc))'
    BY <2>3, <2>4, <2>5, OpenAtType, EndFacts DEF FdInv, Has
  <2>9. ASSUME ~raced', hit' = {} PROVE Undisturbed'
    <3>1. ~raced /\ pc \notin {"fclose_err", "close_out", "close_err"}
      BY <1>2, <2>9 DEF OtherOpens
    <3>2. Undisturbed /\ ClosedOnce(pc') = {}
      BY <2>3, <2>9, <3>1 DEF FdInv, ClosedOnce
    <3> QED BY <2>3, <3>2 DEF Undisturbed
  <2> QED BY <2>6, <2>7, <2>8, <2>9 DEF FdInv
<1>3. ASSUME NEW n \in Fds, OtherCloses(n) PROVE FdInv'
  <2>1. fds[n] = <<"other">> /\ fds' = [fds EXCEPT ![n] = <<"free">>]
        /\ UNCHANGED <<pc, num, lost, hit, raced>> /\ again' \subseteq Fds
    BY <1>0, <1>3 DEF OtherCloses, worldvars
  <2>2. fds'[n] = <<"free">> /\ \A m \in Fds : m # n => fds'[m] = fds[m]
    BY <1>0, <2>1
  <2>3. FdTypeOK'
    BY <1>0, <2>1 DEF FdTypeOK
  <2>4. Owns(OpenAt(pc))'
    BY <2>1, <2>2, EndFacts DEF FdInv, Owns
  <2>5. hit' = {} /\ pc' # "crashed" => Has(OpenAt(pc))'
    BY <2>1, <2>2, OpenAtType, EndFacts DEF FdInv, Has
  <2>6. ASSUME ~raced', hit' = {} PROVE Undisturbed'
    BY <2>1, <2>2, <2>6, EndFacts DEF FdInv, Undisturbed
  <2> QED BY <2>3, <2>4, <2>5, <2>6 DEF FdInv
<1>4. ASSUME NEW n \in Fds, SiblingCloses(n) PROVE FdInv'
  <2>1. /\ fds' = [fds EXCEPT ![n] = <<"free">>] /\ again' \subseteq Fds
        /\ hit' = hit \union ({fds[n]} \intersect Ends)
        /\ UNCHANGED <<pc, num, lost, raced>>
    BY <1>0, <1>4 DEF SiblingCloses
  <2>2. fds'[n] = <<"free">> /\ \A m \in Fds : m # n => fds'[m] = fds[m]
    BY <1>0, <2>1
  <2>3. FdTypeOK'
    BY <1>0, <2>1 DEF FdTypeOK
  <2>4. Owns(OpenAt(pc))'
    BY <2>1, <2>2, EndFacts DEF FdInv, Owns
  <2>5. hit' = {} => hit = {} /\ fds[n] \notin Ends
    BY <2>1
  <2>6. hit' = {} /\ pc' # "crashed" => Has(OpenAt(pc))'
    BY <2>1, <2>2, <2>5, OpenAtType DEF FdInv, Has
  <2>7. ASSUME ~raced', hit' = {} PROVE Undisturbed'
    BY <2>1, <2>2, <2>5, <2>7, EndFacts DEF FdInv, Undisturbed
  <2> QED BY <2>3, <2>4, <2>6, <2>7 DEF FdInv
<1> QED BY <1>1, <1>2, <1>3, <1>4

LEMMA FdInvAlways == RunJobSpec => []FdInv
<1>1. RunJobInit => FdInv
  <2> SUFFICES ASSUME RunJobInit PROVE FdInv
    OBVIOUS
  <2>1. OpenAt(pc) = {} /\ ClosedOnce(pc) = {}
    BY DEF RunJobInit, OpenAt, ClosedOnce
  <2>2. FdTypeOK
    BY DEF RunJobInit, FdTypeOK
  <2> QED BY <2>1, <2>2, EndFacts DEF RunJobInit, FdInv, Owns, Has, Undisturbed
<1>2. FdInv /\ [RunJobNext]_jobVars => FdInv'
  <2> SUFFICES ASSUME FdInv, [RunJobNext]_jobVars PROVE FdInv'
    OBVIOUS
  <2>1. CASE UNCHANGED jobVars
    BY <2>1, StillStep DEF jobVars, worldvars
  <2>2. CASE RunJobNext
    BY <2>2, ThreadFds, WorldFds DEF RunJobNext
  <2> QED BY <2>1, <2>2
<1> QED BY <1>1, <1>2, PTL DEF RunJobSpec

(* Every way out of execute(), with the first or the second pipe() or the  *)
(* fork() failing, or with other threads closing descriptors at any time,  *)
(* gives all descriptors back.                                             *)
THEOREM NoLeakAlways == RunJobSpec => []NoDescriptorLeak
<1>1. FdInv => NoDescriptorLeak
  BY DEF FdInv, Owns, OpenAt, NoDescriptorLeak
<1> QED BY <1>1, FdInvAlways, PTL

(* A job closes a descriptor of another thread only in the window between  *)
(* fclose() and the second close() of the same number, or after the same   *)
(* was done to it, at any place between its pipe() and its last close().   *)
THEOREM OthersKeepAlways == RunJobSpec => []OthersKeepDescriptors
<1>1. FdInv => OthersKeepDescriptors
  BY DEF FdInv, Undisturbed, OthersKeepDescriptors
<1> QED BY <1>1, FdInvAlways, PTL

-----------------------------------------------------------------------------
(* The streams                                                             *)

StreamTypeOK ==
  /\ pc \in Labels
  /\ record \in {"empty", "bad", "no_command", "unbalanced", "good"}
  /\ data \in {"null", "garbage", "object"}
  /\ pipe \in [Streams -> 0 .. Capacity] /\ buf \in [Streams -> 0 .. Stdio]
  /\ collected \in [Streams -> Nat] /\ written \in [Streams -> Nat]
  /\ ended \subseteq Streams
  /\ child \in {"none", "running", "zombie", "reaped"}
  /\ script \in Seq(Streams)
  /\ sink \in [Streams -> Ends \union {<<"none">>}] /\ heirs \subseteq Ends
  /\ code \in 0 .. 1 /\ result \in 0 .. 2

BeforeFork == {"load", "command", "pipe_out", "pipe_err", "fork"}
AfterReading == {"fclose_out", "fclose_err", "close_out", "close_err", "wait"}
Returned == {"destroy", "done"}

(* The child exists between fork() and waitpid(). *)
ChildInv ==
  /\ pc \in BeforeFork => child = "none"
  /\ pc \notin BeforeFork \union Returned \union {"crashed"} => child # "none"
  /\ pc \in Returned => child \in {"none", "reaped"}
  /\ pc \in BeforeFork \union {"close", "fdopen"} => ended = {}
  /\ pc \in AfterReading => ended = Streams

(* If nobody closed an end: no piece is lost or made up on its way; the    *)
(* child has the write ends of its own streams while it runs, and writes   *)
(* to the end; a stream at its end is empty, and stays so because nobody   *)
(* can write.                                                              *)
StreamInv ==
  /\ \A s \in Streams : written[s] = pipe[s] + buf[s] + collected[s]
  /\ child = "running" => \A s \in Streams : sink[s] = <<s, "w">>
  /\ child \in {"zombie", "reaped"} => script = <<>>
  /\ \A s \in ended : pipe[s] = 0 /\ buf[s] = 0 /\ child \in {"zombie", "reaped"}
  /\ pc = "crashed" => child \in {"none", "reaped"}

ResultInv == pc \in Returned /\ child = "reaped" /\ code = 0 => result = 1
DataInv ==
  /\ data = "garbage" => pc = "load" \/ record = "empty"
  /\ pc = "crashed" => record = "empty" \/ hit # {}

RunJobInv ==
  StreamTypeOK /\ ChildInv /\ (hit = {} => StreamInv) /\ ResultInv /\ DataInv

LEMMA RunJobInitInv == RunJobInit => RunJobInv
<1> SUFFICES ASSUME RunJobInit PROVE RunJobInv
  OBVIOUS
<1>1. StreamTypeOK
  <2>1. 0 \in 0 .. Capacity /\ 0 \in 0 .. Stdio
    BY RunJobAssumption
  <2>2. pipe \in [Streams -> 0 .. Capacity] /\ buf \in [Streams -> 0 .. Stdio]
    BY <2>1 DEF RunJobInit
  <2>4. script \in Seq(Streams)
    BY RunJobAssumption DEF RunJobInit
  <2>5. sink \in [Streams -> Ends \union {<<"none">>}]
    BY DEF RunJobInit
  <2> QED BY <2>2, <2>4, <2>5 DEF RunJobInit, StreamTypeOK, Labels, Over
<1>2. StreamInv
  BY DEF RunJobInit, StreamInv
<1>3. ChildInv
  BY DEF RunJobInit, ChildInv, BeforeFork, AfterReading, Returned
<1>4. ResultInv /\ DataInv
  BY DEF RunJobInit, ResultInv, DataInv, Returned
<1> QED BY <1>1, <1>2, <1>3, <1>4 DEF RunJobInv

(* A refill takes no more than there is and than the buffer holds. *)
LEMMA RefillStep ==
  ASSUME StreamTypeOK, NEW s \in Streams, NEW t \in Streams, Refill(s, t), buf[s] = 0
  PROVE  /\ pipe' \in [Streams -> 0 .. Capacity] /\ buf' \in [Streams -> 0 .. Stdio]
         /\ collected' \in [Streams -> Nat] /\ ended' \subseteq Streams
         /\ pipe[s] + buf[s] + collected[s] = written[s] /\ t = s
              => pipe'[s] + buf'[s] + collected'[s] = written[s]
         /\ \A u \in Streams \ {s, t} :
              pipe'[u] = pipe[u] /\ buf'[u] = buf[u] /\ collected'[u] = collected[u]
         /\ \/ ended' = ended
            \/ ended' = ended \union {s} /\ pipe[t] = 0 /\ Gone(<<t, "w">>) /\ UNCHANGED <<pipe, buf>>
<1> DEFINE got == IF pipe[t] < Stdio THEN pipe[t] ELSE Stdio
<1>0. /\ pipe \in [Streams -> 0 .. Capacity] /\ buf \in [Streams -> 0 .. Stdio]
      /\ collected \in [Streams -> Nat] /\ ended \subseteq Streams /\ written \in [Streams -> Nat]
      /\ Capacity \in Nat \ {0} /\ Stdio \in Nat \ {0}
  BY RunJobAssumption DEF StreamTypeOK
<1>1. /\ got \in 0 .. Stdio /\ got <= pipe[t] /\ pipe[t] \in 0 .. Capacity /\ collected[s] \in Nat
      /\ got = 0 => pipe[t] = 0
  BY <1>0
<1>2. CASE /\ got > 0
           /\ pipe' = [pipe EXCEPT ![t] = @ - got]
           /\ buf' = [buf EXCEPT ![s] = got - 1]
           /\ collected' = [collected EXCEPT ![s] = @ + 1]
           /\ UNCHANGED ended
  <2> HIDE DEF got
  <2>1. pipe[t] - got \in 0 .. Capacity /\ got - 1 \in 0 .. Stdio /\ collected[s] + 1 \in Nat
    BY <1>0, <1>1, <1>2
  <2>2. /\ pipe' \in [Streams -> 0 .. Capacity] /\ buf' \in [Streams -> 0 .. Stdio]
        /\ collected' \in [Streams -> Nat]
    BY <1>0, <1>2, <2>1
  <2>3. /\ pipe'[t] = pipe[t] - got /\ buf'[s] = got - 1 /\ collected'[s] = collected[s] + 1
        /\ \A u \in Streams \ {s, t} :
             pipe'[u] = pipe[u] /\ buf'[u] = buf[u] /\ collected'[u] = collected[u]
    BY <1>0, <1>2
  <2>4. t = s => pipe'[s] + buf'[s] + collected'[s] = pipe[s] + buf[s] + collected[s]
    BY <1>0, <1>1, <2>3
  <2> QED BY <1>0, <1>2, <2>2, <2>3, <2>4
<1>3. CASE /\ got = 0 /\ Gone(<<t, "w">>)
           /\ ended' = ended \union {s}
           /\ UNCHANGED <<pipe, buf, collected>>
  BY <1>0, <1>1, <1>3
<1> QED BY <1>2, <1>3 DEF Refill

(* fgets() keeps the account of the pieces, and finds the end of a stream  *)
(* only when it is empty and the child has ended.                          *)
LEMMA FgetsStep ==
  ASSUME FdInv, RunJobInv, NEW s \in Streams, s \notin ended, Fgets(s), pc \in {"read_out", "read_err"}
  PROVE  /\ pipe' \in [Streams -> 0 .. Capacity] /\ buf' \in [Streams -> 0 .. Stdio]
         /\ collected' \in [Streams -> Nat] /\ ended' \subseteq Streams
         /\ hit = {} =>
              /\ \A t \in Streams : written[t] = pipe'[t] + buf'[t] + collected'[t]
              /\ \A t \in ended' :
                   pipe'[t] = 0 /\ buf'[t] = 0 /\ child \in {"zombie", "reaped"}
<1>0. /\ pipe \in [Streams -> 0 .. Capacity] /\ buf \in [Streams -> 0 .. Stdio]
      /\ collected \in [Streams -> Nat] /\ ended \subseteq Streams /\ written \in [Streams -> Nat]
      /\ Capacity \in Nat \ {0} /\ Stdio \in Nat \ {0} /\ StreamTypeOK
      /\ child \in {"none", "running", "zombie", "reaped"} /\ child # "none"
  BY RunJobAssumption DEF RunJobInv, StreamTypeOK, ChildInv, BeforeFork, Returned
<1>1. hit = {} =>
        /\ \A t \in Streams : written[t] = pipe[t] + buf[t] + collected[t]
        /\ \A t \in ended : pipe[t] = 0 /\ buf[t] = 0 /\ child \in {"zombie", "reaped"}
        /\ child = "running" => \A t \in Streams : sink[t] = <<t, "w">>
  BY DEF RunJobInv, StreamInv
<1>2. hit = {} => At(num[<<s, "r">>]) = <<s, "r">>
  <2>1. <<s, "r">> \in OpenAt(pc)
    BY DEF OpenAt, ReadEnds, Streams
  <2> QED BY <2>1 DEF FdInv, Has, At
<1>3. CASE /\ buf[s] > 0
           /\ buf' = [buf EXCEPT ![s] = @ - 1]
           /\ collected' = [collected EXCEPT ![s] = @ + 1]
           /\ UNCHANGED <<pipe, ended>>
  <2>1. buf[s] \in 0 .. Stdio /\ buf[s] - 1 \in 0 .. Stdio /\ collected[s] + 1 \in Nat
    BY <1>0, <1>3
  <2>2. buf' \in [Streams -> 0 .. Stdio] /\ collected' \in [Streams -> Nat]
    BY <1>0, <1>3, <2>1
  <2>3. /\ buf'[s] = buf[s] - 1 /\ collected'[s] = collected[s] + 1 /\ pipe' = pipe
        /\ \A t \in Streams : t # s => buf'[t] = buf[t] /\ collected'[t] = collected[t]
    BY <1>0, <1>3
  <2>4. pipe[s] + buf[s] + collected[s] = pipe'[s] + buf'[s] + collected'[s]
    BY <1>0, <2>1, <2>3
  <2> QED BY <1>0, <1>1, <1>3, <2>2, <2>3, <2>4
<1>4. ASSUME NEW t \in Streams, buf[s] = 0, At(num[<<s, "r">>]) = <<t, "r">>, Refill(s, t)
      PROVE  /\ pipe' \in [Streams -> 0 .. Capacity] /\ buf' \in [Streams -> 0 .. Stdio]
             /\ collected' \in [Streams -> Nat] /\ ended' \subseteq Streams
             /\ hit = {} =>
                  /\ \A u \in Streams : written[u] = pipe'[u] + buf'[u] + collected'[u]
                  /\ \A u \in ended' :
                       pipe'[u] = 0 /\ buf'[u] = 0 /\ child \in {"zombie", "reaped"}
  <2>1. /\ pipe' \in [Streams -> 0 .. Capacity] /\ buf' \in [Streams -> 0 .. Stdio]
        /\ collected' \in [Streams -> Nat] /\ ended' \subseteq Streams
        /\ pipe[s] + buf[s] + collected[s] = written[s] /\ t = s
              => pipe'[s] + buf'[s] + collected'[s] = written[s]
        /\ \A u \in Streams \ {s, t} :
              pipe'[u] = pipe[u] /\ buf'[u] = buf[u] /\ collected'[u] = collected[u]
        /\ \/ ended' = ended
           \/ ended' = ended \union {s} /\ pipe[t] = 0 /\ Gone(<<t, "w">>) /\ UNCHANGED <<pipe, buf>>
    BY <1>0, <1>4, RefillStep
  <2>2. ASSUME hit = {}
        PROVE  /\ \A u \in Streams : written[u] = pipe'[u] + buf'[u] + collected'[u]
               /\ \A u \in ended' :
                    pipe'[u] = 0 /\ buf'[u] = 0 /\ child \in {"zombie", "reaped"}
    <3>1. t = s
      BY <1>2, <1>4, <2>2
    <3>2. Gone(<<s, "w">>) => child # "running"
      BY <1>1, <2>2 DEF Gone
    <3>3. \A u \in Streams : written[u] = pipe'[u] + buf'[u] + collected'[u]
      BY <1>1, <2>1, <2>2, <3>1
    <3>4. \A u \in ended : pipe'[u] = 0 /\ buf'[u] = 0 /\ child \in {"zombie", "reaped"}
      BY <1>0, <1>1, <2>1, <2>2, <3>1
    <3> QED BY <1>0, <1>4, <2>1, <3>1, <3>2, <3>3, <3>4
  <2> QED BY <2>1, <2>2
<1>5. CASE /\ At(num[<<s, "r">>]) \notin Streams \X {"r"}
           /\ ended' = ended \union {s}
           /\ UNCHANGED <<pipe, buf, collected>>
  BY <1>0, <1>2, <1>5
<1>6. CASE UNCHANGED iovars
  BY <1>0, <1>1, <1>6 DEF iovars
<1> QED BY <1>3, <1>4, <1>5, <1>6 DEF Fgets

(* A turn of the loop keeps the invariant. *)
LEMMA ReadStep == ASSUME FdInv, RunJobInv, ReadOut \/ ReadErr PROVE RunJobInv'
<1>0. pc \in {"read_out", "read_err"} /\ pc' \in {"read_out", "read_err", "fclose_out"}
  BY DEF ReadOut, ReadErr
<1>1. UNCHANGED <<record, data, result, child, script, written, sink, code, heirs, hit, raced>>
  BY DEF ReadOut, ReadErr, childvars, worldvars
<1>2. /\ pipe' \in [Streams -> 0 .. Capacity] /\ buf' \in [Streams -> 0 .. Stdio]
      /\ collected' \in [Streams -> Nat] /\ ended' \subseteq Streams
      /\ hit = {} =>
           /\ \A t \in Streams : written[t] = pipe'[t] + buf'[t] + collected'[t]
           /\ \A t \in ended' :
                pipe'[t] = 0 /\ buf'[t] = 0 /\ child \in {"zombie", "reaped"}
  <2>1. CASE UNCHANGED iovars
    BY <2>1 DEF iovars, RunJobInv, StreamTypeOK, StreamInv
  <2>2. CASE \E s \in Streams : s \notin ended /\ Fgets(s)
    BY <1>0, <2>2, FgetsStep
  <2> QED BY <2>1, <2>2 DEF ReadOut, ReadErr, Streams
<1>3. StreamTypeOK'
  BY <1>0, <1>1, <1>2 DEF RunJobInv, StreamTypeOK, Labels
<1>4. ChildInv'
  <2>1. pc' = "fclose_out" => ended' = Streams
    BY <1>0 DEF ReadOut, ReadErr
  <2> QED BY <1>0, <1>1, <2>1 DEF RunJobInv, ChildInv, BeforeFork, AfterReading, Returned
<1>5. hit' = {} => StreamInv'
  BY <1>0, <1>1, <1>2 DEF RunJobInv, StreamInv
<1>6. ResultInv' /\ DataInv'
  BY <1>0, <1>1 DEF RunJobInv, ResultInv, DataInv, Returned
<1> QED BY <1>3, <1>4, <1>5, <1>6 DEF RunJobInv

(* fork(): with its four numbers in order the child has the write ends of  *)
(* its own streams.                                                        *)
LEMMA ForkSinks ==
  ASSUME FdInv, pc = "fork",
         sink' = [s \in Streams |->
           IF s = "out" THEN Dup2(num[<<"out", "w">>], {num[<<"out", "r">>]})
           ELSE Dup2(num[<<"err", "w">>],
                     {num[<<"out", "r">>], num[<<"out", "w">>]} \union {num[<<"err", "r">>]})]
  PROVE  /\ sink' \in [Streams -> Ends \union {<<"none">>}]
         /\ hit = {} => \A s \in Streams : sink'[s] = <<s, "w">>
<1>1. \A n, closed : Dup2(n, closed) \in Ends \union {<<"none">>}
  BY DEF Dup2
<1>2. ASSUME hit = {} PROVE \A s \in Streams : sink'[s] = <<s, "w">>
  <2>1. \A e \in Ends : num[e] \in Fds /\ fds[num[e]] = e
    BY <1>2 DEF FdInv, Has, OpenAt
  <2>2. /\ num[<<"out", "w">>] # num[<<"out", "r">>]
        /\ num[<<"err", "w">>] \notin
             {num[<<"out", "r">>], num[<<"out", "w">>]} \union {num[<<"err", "r">>]}
    BY <2>1, EndFacts
  <2>3. At(num[<<"out", "w">>]) = <<"out", "w">> /\ At(num[<<"err", "w">>]) = <<"err", "w">>
    BY <2>1, EndFacts DEF At
  <2> QED BY <2>2, <2>3, EndFacts DEF Dup2, Streams
<1> QED BY <1>1, <1>2

(* fdopen() is given two read ends. *)
LEMMA FdopenFinds ==
  ASSUME FdInv, pc = "fdopen", hit = {}
  PROVE  {At(num[<<s, "r">>]) : s \in Streams} \subseteq Streams \X {"r"}
<1>1. \A s \in Streams : <<s, "r">> \in OpenAt(pc)
  BY DEF OpenAt, ReadEnds, Streams
<1>2. \A s \in Streams : At(num[<<s, "r">>]) = <<s, "r">>
  BY <1>1 DEF FdInv, Has, At
<1>3. \A s \in Streams : <<s, "r">> \in Streams \X {"r"}
  OBVIOUS
<1>4. \A s \in Streams : At(num[<<s, "r">>]) \in Streams \X {"r"}
  BY <1>2, <1>3, Zenon
<1> QED BY <1>4, Zenon

(* The other steps of the thread keep the invariant. *)
LEMMA ExecuteStep == ASSUME FdInv, RunJobInv, Execute PROVE RunJobInv'
<1>0. StreamTypeOK /\ ChildInv /\ (hit = {} => StreamInv) /\ ResultInv /\ DataInv
  BY DEF RunJobInv
<1> USE <1>0 DEF RunJobInv, StreamTypeOK, ChildInv, StreamInv, ResultInv, DataInv,
                 BeforeFork, AfterReading, Returned, Over, Labels, iovars, childvars,
                 worldvars, Returns
<1>1. CASE LoadData
  BY <1>1 DEF LoadData
<1>2. CASE ParseCommand \/ PipeOut \/ PipeErr
  <2>1. CASE ParseCommand
    BY <2>1 DEF ParseCommand
  <2>2. CASE PipeOut
    BY <2>2 DEF PipeOut
  <2>3. CASE PipeErr
    BY <2>3 DEF PipeErr
  <2> QED BY <1>2, <2>1, <2>2, <2>3
<1>3. CASE Fork
  <2>1. CASE pc' = "destroy" /\ result' = 0 /\ UNCHANGED <<child, sink>>
    BY <1>3, <2>1 DEF Fork
  <2>2. CASE child' = "running" /\ pc' = "close" /\ UNCHANGED <<endvars, result>>
    <3>1. /\ sink' \in [Streams -> Ends \union {<<"none">>}]
          /\ hit = {} => \A s \in Streams : sink'[s] = <<s, "w">>
      BY <1>3, <2>2, ForkSinks DEF Fork
    <3> QED BY <1>3, <2>2, <3>1 DEF Fork
  <2> QED BY <1>3, <2>1, <2>2 DEF Fork
<1>4. CASE CloseWriteEnds \/ FcloseOut \/ FcloseErr \/ CloseAgain
  <2>1. CASE CloseWriteEnds
    BY <2>1 DEF CloseWriteEnds
  <2>2. CASE FcloseOut \/ FcloseErr
    BY <2>2 DEF FcloseOut, FcloseErr
  <2>3. CASE CloseAgain
    BY <2>3 DEF CloseAgain
  <2> QED BY <1>4, <2>1, <2>2, <2>3
<1>a. CASE Fdopen
  <2>1. hit = {} => pc' # "crashed"
    BY <1>a, FdopenFinds DEF Fdopen
  <2> QED BY <1>a, <2>1 DEF Fdopen
<1>5. CASE Wait
  BY <1>5 DEF Wait
<1>6. CASE Destroy
  BY <1>6 DEF Destroy
<1> QED BY <1>1, <1>2, <1>3, <1>4, <1>a, <1>5, <1>6, ReadStep DEF Execute

(* A piece written by the command: into the pipe of its own stream, if no  *)
(* other thread closed an end.                                             *)
LEMMA ChildWritesStep == ASSUME FdInv, RunJobInv, ChildWrites PROVE RunJobInv'
<1> DEFINE h == Head(script)
<1>0. /\ pipe \in [Streams -> 0 .. Capacity] /\ buf \in [Streams -> 0 .. Stdio]
      /\ collected \in [Streams -> Nat] /\ written \in [Streams -> Nat]
      /\ Capacity \in Nat \ {0} /\ Stdio \in Nat \ {0}
  BY RunJobAssumption DEF RunJobInv, StreamTypeOK
<1>1. /\ h \in Streams /\ Tail(script) \in Seq(Streams)
      /\ child = "running" /\ pc \notin BeforeFork \union Returned
  BY HeadTailProperties DEF ChildWrites, RunJobInv, StreamTypeOK, ChildInv
<1>2. /\ written' = [written EXCEPT ![h] = @ + 1] /\ script' = Tail(script)
      /\ UNCHANGED <<pc, record, data, num, fds, result, buf, ended, collected, heirs, hit, raced>>
  BY DEF ChildWrites, endvars, worldvars
<1>3. \/ UNCHANGED <<child, code, sink>>
      \/ child' = "zombie" /\ code' = 1 /\ sink' = [s \in Streams |-> <<"none">>]
  BY DEF ChildWrites, Exits
<1>4. \/ pipe' = pipe
      \/ \E t \in Streams : pipe[t] < Capacity /\ pipe' = [pipe EXCEPT ![t] = @ + 1]
  BY DEF ChildWrites
<1>5. ASSUME hit = {}
      PROVE  UNCHANGED <<child, code, sink>> /\ pipe' = [pipe EXCEPT ![h] = @ + 1]
  <2>1. sink[h] = <<h, "w">> /\ pc # "crashed" /\ pc \notin AfterReading
    BY <1>1, <1>5 DEF RunJobInv, StreamInv, ChildInv, Streams
  <2>2. <<h, "r">> \in OpenAt(pc)
    BY <1>1, <2>1, EndFacts
       DEF RunJobInv, StreamTypeOK, Labels, Over, BeforeFork, Returned, AfterReading, OpenAt,
           ReadEnds, Streams
  <2>3. ~Gone(<<h, "r">>)
    BY <1>5, <2>1, <2>2 DEF FdInv, Has, Gone
  <2>4. \A t : <<h, "w">> = <<t, "w">> => t = h
    OBVIOUS
  <2>5. <<h, "w">> \in Streams \X {"w"}
    BY <1>1
  <2> QED BY <2>1, <2>3, <2>4, <2>5 DEF ChildWrites
<1> HIDE DEF h
<1>6. StreamTypeOK'
  <2>1. pipe' \in [Streams -> 0 .. Capacity]
    <3>1. ASSUME NEW t \in Streams, pipe[t] < Capacity, pipe' = [pipe EXCEPT ![t] = @ + 1]
          PROVE  pipe' \in [Streams -> 0 .. Capacity]
      <4>1. pipe[t] + 1 \in 0 .. Capacity
        BY <1>0, <3>1
      <4> QED BY <1>0, <3>1, <4>1
    <3> QED BY <1>0, <1>4, <3>1
  <2>2. written' \in [Streams -> Nat]
    BY <1>0, <1>1, <1>2
  <2>3. child' \in {"none", "running", "zombie", "reaped"} /\ code' \in 0 .. 1
        /\ sink' \in [Streams -> Ends \union {<<"none">>}]
    BY <1>3 DEF RunJobInv, StreamTypeOK
  <2> QED BY <1>1, <1>2, <2>1, <2>2, <2>3 DEF RunJobInv, StreamTypeOK
<1>7. ChildInv'
  BY <1>1, <1>2, <1>3 DEF RunJobInv, ChildInv
<1>8. hit' = {} => StreamInv'
  <2> SUFFICES ASSUME hit = {} PROVE StreamInv'
    BY <1>2
  <2>1. UNCHANGED <<child, code, sink>> /\ pipe' = [pipe EXCEPT ![h] = @ + 1]
    BY <1>5
  <2>2. StreamInv
    BY DEF RunJobInv
  <2>3. ended = {} /\ pc # "crashed"
    BY <1>1, <2>2 DEF StreamInv
  <2>4. \A s \in Streams : written'[s] = pipe'[s] + buf'[s] + collected'[s]
    BY <1>0, <1>1, <1>2, <2>1, <2>2 DEF StreamInv
  <2> QED BY <1>1, <1>2, <2>1, <2>2, <2>3, <2>4 DEF StreamInv
<1>9. ResultInv' /\ DataInv'
  BY <1>1, <1>2 DEF RunJobInv, ResultInv, DataInv
<1> QED BY <1>6, <1>7, <1>8, <1>9 DEF RunJobInv

(* The steps of the child and of the rest of the process keep it. *)
LEMMA OtherStep ==
  ASSUME FdInv, RunJobInv,
         \/ Child \/ LibevReaps \/ HeirsExit \/ SiblingForks \/ OtherOpens
         \/ \E n \in Fds : OtherCloses(n) \/ SiblingCloses(n)
  PROVE  RunJobInv'
<1>0. StreamTypeOK /\ ChildInv /\ (hit = {} => StreamInv) /\ ResultInv /\ DataInv
  BY DEF RunJobInv
<1> USE <1>0 DEF RunJobInv, BeforeFork, AfterReading, Returned, Over, iovars, childvars, worldvars
<1>2. CASE ChildExits
  <2>1. heirs' \subseteq Ends
    BY <1>2 DEF ChildExits, StreamTypeOK
  <2>2. sink' \in [Streams -> Ends \union {<<"none">>}] /\ child' = "zombie" /\ code' \in 0 .. 1
    BY <1>2 DEF ChildExits, Exits
  <2> QED BY <1>2, <2>1, <2>2 DEF ChildExits, StreamTypeOK, ChildInv, StreamInv, ResultInv, DataInv
<1>3. CASE LibevReaps
  BY <1>3 DEF LibevReaps, StreamTypeOK, ChildInv, StreamInv, ResultInv, DataInv
<1>4. CASE HeirsExit \/ SiblingForks
  <2>1. heirs' \subseteq Ends
    BY <1>4 DEF HeirsExit, SiblingForks, StreamTypeOK
  <2>2. UNCHANGED <<pc, record, data, result, iovars, childvars, hit>>
    BY <1>4 DEF HeirsExit, SiblingForks
  <2> QED BY <2>1, <2>2 DEF StreamTypeOK, ChildInv, StreamInv, ResultInv, DataInv
<1>5. CASE OtherOpens
  BY <1>5 DEF OtherOpens, StreamTypeOK, ChildInv, StreamInv, ResultInv, DataInv
<1>6. ASSUME NEW n \in Fds, OtherCloses(n) \/ SiblingCloses(n) PROVE RunJobInv'
  <2>1. hit' = {} => hit = {}
    BY <1>6 DEF OtherCloses, SiblingCloses
  <2>2. UNCHANGED <<pc, record, data, result, iovars, childvars, heirs>>
    BY <1>6 DEF OtherCloses, SiblingCloses
  <2>3. StreamTypeOK' /\ ChildInv' /\ ResultInv'
    BY <2>2 DEF StreamTypeOK, ChildInv, ResultInv
  <2>4. DataInv' /\ (hit' = {} => StreamInv')
    BY <2>1, <2>2 DEF StreamInv, DataInv
  <2> QED BY <2>3, <2>4
<1> QED BY <1>2, <1>3, <1>4, <1>5, <1>6, ChildWritesStep DEF Child

LEMMA RunJobInvAlways == RunJobSpec => []RunJobInv
<1>1. FdInv /\ RunJobInv /\ [RunJobNext]_jobVars => RunJobInv'
  <2> SUFFICES ASSUME FdInv, RunJobInv, [RunJobNext]_jobVars PROVE RunJobInv'
    OBVIOUS
  <2>1. CASE UNCHANGED jobVars
    BY <2>1 DEF jobVars, iovars, childvars, worldvars, RunJobInv, StreamTypeOK, ChildInv,
                StreamInv, ResultInv, DataInv
  <2>2. CASE RunJobNext
    BY <2>2, ExecuteStep, OtherStep DEF RunJobNext
  <2> QED BY <2>1, <2>2
<1> QED BY <1>1, RunJobInitInv, FdInvAlways, PTL DEF RunJobSpec

(* The loop over the streams: whatever the command writes, in whatever     *)
(* order, and however small the pipes are, all of it has been collected    *)
(* when the loop ends, unless another thread closed a descriptor under it. *)
THEOREM OutputCompleteAlways == RunJobSpec => []OutputComplete
<1>1. RunJobInv => OutputComplete
  <2> SUFFICES ASSUME RunJobInv, pc \in AfterReading, hit = {}
               PROVE  collected = written /\ script = <<>>
    BY DEF OutputComplete, AfterReading
  <2>1. \A s \in Streams : pipe[s] = 0 /\ buf[s] = 0 /\ child \in {"zombie", "reaped"}
    BY DEF RunJobInv, StreamInv, ChildInv
  <2>2. \A s \in Streams : collected[s] = written[s]
    BY <2>1 DEF RunJobInv, StreamTypeOK, StreamInv
  <2>3. collected = written
    BY <2>2 DEF RunJobInv, StreamTypeOK
  <2>4. script = <<>>
    BY <2>1 DEF RunJobInv, StreamInv, Streams
  <2> QED BY <2>3, <2>4
<1> QED BY <1>1, RunJobInvAlways, PTL

(* execute(): a command that succeeds is reported as a success, whether    *)
(* its own thread or the event loop waits for it.                          *)
THEOREM NoFalseFailureAlways == RunJobSpec => []NoFalseFailure
<1>1. RunJobInv => NoFalseFailure
  BY DEF RunJobInv, ResultInv, NoFalseFailure, Returned
<1> QED BY <1>1, RunJobInvAlways, PTL

(* The destructor and fdopen(): only a row without data leaves m_data      *)
(* unassigned, and a stream is NULL only after another thread's close().   *)
THEOREM DataProtectsAlways == RunJobSpec => []DataProtectsWorker
<1>1. RunJobInv => DataProtectsWorker
  BY DEF RunJobInv, DataInv, DataProtectsWorker
<1> QED BY <1>1, RunJobInvAlways, PTL

(* The variables of RunJob have their types in every reachable state: no   *)
(* pipe or buffer overflows, and execute() returns 0 or 1.                 *)
THEOREM RunJobTypeCorrect == RunJobSpec => []RunJobTypeOK
<1>1. RunJobInv /\ FdInv => RunJobTypeOK
  BY DEF RunJobInv, StreamTypeOK, FdInv, FdTypeOK, RunJobTypeOK
<1> QED BY <1>1, RunJobInvAlways, FdInvAlways, PTL
=============================================================================
