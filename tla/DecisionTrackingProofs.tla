----------------------- MODULE DecisionTrackingProofs -----------------------
(***************************************************************************)
(* Proofs about DecisionTracking, for any number of candidates, requests,  *)
(* background tasks, sessions of the clock and failures.                   *)
(***************************************************************************)
EXTENDS DecisionTracking, TLAPS

(* A synchronisation that waits for a price knows what it was called with. *)
CallKnown == \A p \in Procs : proc[p].pc = "price" => proc[p].call # None

Base == TypeOK /\ CallKnown

-----------------------------------------------------------------------------
(* A coroutine that has ended is a coroutine.                              *)
LEMMA IdleType == Idle \in ProcRow
BY TrackingAssumption DEF Idle, ProcRow, ProcPc

(* Where a coroutine goes when day 3 is done is a legal state of it, and   *)
(* not the one that waits for a price.                                     *)
LEMMA OnwardType ==
  ASSUME NEW p \in Procs, proc[p] \in ProcRow
  PROVE  Onward(p) \in ProcRow /\ Onward(p).pc # "price"
BY IdleType, ZenonT(60) DEF Onward, Idle, ProcRow, ProcPc

(* The table that a pass of day 3, a deactivation or a completion leaves is *)
(* one of episodes.                                                         *)
LEMMA TrackTypes ==
  ASSUME TypeOK
  PROVE  /\ \A ts : Deactivated(ts) \in [TrackIds -> TrackRow]
         /\ \A t \in TrackIds : Reopen(track[t]) \in TrackRow
         /\ \A t \in TrackIds : [track[t] EXCEPT !.completed = TRUE] \in TrackRow
         /\ \A t \in TrackIds : [track[t] EXCEPT !.active = FALSE] \in TrackRow
BY ZenonT(60) DEF TypeOK, TrackRow, Deactivated, Reopen

(* The program starts in its types.                                        *)
LEMMA InitBase == Init => Base
<1> SUFFICES ASSUME Init PROVE Base
  OBVIOUS
<1>1. cand \in [Candidates -> CandRow]
  BY TrackingAssumption DEF Init, CandRow, Decisions
<1>2. track \in [TrackIds -> TrackRow]
  <2>1. PICK done \in SUBSET Legacy :
          track = [t \in TrackIds |->
            IF t \in Legacy
            THEN [candidate |-> t, decision |-> "pass", active |-> TRUE,
                  completed |-> t \in done, day |-> 0]
            ELSE NoTrack]
    BY DEF Init
  <2>2. NoTrack \in TrackRow
    BY TrackingAssumption DEF NoTrack, TrackRow, TrackedDecisions
  <2>3. \A t \in Legacy :
          [candidate |-> t, decision |-> "pass", active |-> TRUE,
           completed |-> t \in done, day |-> 0] \in TrackRow
    BY TrackingAssumption DEF TrackRow, TrackedDecisions
  <2> QED
    BY <2>1, <2>2, <2>3
<1>3. cp \in [TrackIds -> [Points -> CpStatus]]
  BY DEF Init, CpStatus
<1>4. proc = [p \in Procs |-> Idle]
  BY DEF Init
<1>5. proc \in [Procs -> ProcRow] /\ CallKnown
  BY <1>4, IdleType DEF CallKnown, Idle
<1>6. /\ clock \in 0..Horizon /\ decisionsLeft \in 0..MaxDecisions
      /\ crashesLeft \in Nat /\ faultsLeft \in Nat
  BY TrackingAssumption DEF Init, Start
<1>7. crossed \subseteq Symbols /\ timely \subseteq TrackIds \X Points
  BY DEF Init
<1> QED
  BY <1>1, <1>2, <1>3, <1>5, <1>6, <1>7 DEF Base, TypeOK

(* A step of a coroutine moves that coroutine only.                        *)
LEMMA OneMoves ==
  ASSUME Base, NEW p \in Procs, NEW row \in ProcRow, Become(p, row),
         row.pc = "price" => row.call # None
  PROVE  proc' \in [Procs -> ProcRow] /\ CallKnown'
BY DEF Base, TypeOK, CallKnown, Become

(* The steps of a synchronisation keep the types.                          *)
LEMMA SyncBase ==
  ASSUME Base, NEW p \in Procs, StartSync(p) \/ CreateTrack(p)
  PROVE  Base'
<1>1. CASE StartSync(p)
  <2>1. PICK call \in proc[p].todo : \E old \in TrackIds \union {0}, pc \in {"third", "price"} :
          Become(p, [[proc[p] EXCEPT !.todo = @ \ {call}, !.call = call, !.now = clock]
                       EXCEPT !.pc = pc, !.old = old])
    <3>1. PICK call \in proc[p].todo :
            \/ Become(p, [[proc[p] EXCEPT !.todo = @ \ {call}, !.call = call, !.now = clock]
                            EXCEPT !.pc = "third"])
            \/ \E t \in TrackIds :
                 Become(p, [[proc[p] EXCEPT !.todo = @ \ {call}, !.call = call, !.now = clock]
                              EXCEPT !.pc = "price", !.old = t])
            \/ Become(p, [[proc[p] EXCEPT !.todo = @ \ {call}, !.call = call, !.now = clock]
                            EXCEPT !.pc = "price", !.old = 0])
      BY <1>1, ZenonT(60) DEF StartSync
    <3>2. proc[p] \in ProcRow
      BY DEF Base, TypeOK
    <3>3. [[proc[p] EXCEPT !.todo = @ \ {call}, !.call = call, !.now = clock]
             EXCEPT !.pc = "third"]
          = [[proc[p] EXCEPT !.todo = @ \ {call}, !.call = call, !.now = clock]
               EXCEPT !.pc = "third", !.old = proc[p].old]
      BY <3>2 DEF ProcRow
    <3>4. proc[p].old \in TrackIds \union {0}
      BY <3>2 DEF ProcRow
    <3> QED
      BY <3>1, <3>3, <3>4, ZenonT(60)
  <2>2. PICK old \in TrackIds \union {0}, pc \in {"third", "price"} :
          Become(p, [[proc[p] EXCEPT !.todo = @ \ {call}, !.call = call, !.now = clock]
                       EXCEPT !.pc = pc, !.old = old])
    BY <2>1
  <2> DEFINE row == [[proc[p] EXCEPT !.todo = @ \ {call}, !.call = call, !.now = clock]
                       EXCEPT !.pc = pc, !.old = old]
  <2>3. proc[p] \in ProcRow /\ call \in Candidates \X TrackedDecisions /\ clock \in 0..Horizon
    BY DEF Base, TypeOK, ProcRow
  <2>4. row \in ProcRow /\ row.call # None
    <3>1. row = [proc[p] EXCEPT !.todo = @ \ {call}, !.call = call, !.now = clock,
                                !.pc = pc, !.old = old]
      BY <2>3 DEF ProcRow
    <3>2. call # None
      BY <2>3, TrackingAssumption
    <3> QED
      BY <3>1, <3>2, <2>3 DEF ProcRow, ProcPc
  <2>5. proc' \in [Procs -> ProcRow] /\ CallKnown'
    BY <2>2, <2>4, OneMoves
  <2> QED
    BY <1>1, <2>5, ZenonT(60) DEF StartSync, Base, TypeOK, budgets
<1>2. CASE CreateTrack(p)
  <2> DEFINE new == [candidate |-> proc[p].call[1], decision |-> EpisodeDecision(p),
                     active |-> TRUE, completed |-> FALSE, day |-> proc[p].now]
             begun == [x \in Points |-> IF x[1] = 3 THEN "none" ELSE "pending"]
  <2>1. proc[p] \in ProcRow /\ proc[p].call \in Candidates \X TrackedDecisions
    BY <1>2 DEF Base, TypeOK, CallKnown, CreateTrack, ProcRow
  <2>2. new \in TrackRow
    BY <2>1 DEF TrackRow, ProcRow, EpisodeDecision
  <2>3. begun \in [Points -> CpStatus]
    BY DEF CpStatus
  <2>4. track' \in [TrackIds -> TrackRow]
    <3>1. PICK id \in TrackIds : track' = [t \in TrackIds |->
            IF t = id THEN new
            ELSE IF t = proc[p].old \/ Rivals(proc[p].call[1], t)
                 THEN [track[t] EXCEPT !.active = FALSE] ELSE track[t]]
      BY <1>2 DEF CreateTrack
    <3>2. \A t \in TrackIds : track[t] \in TrackRow
                              /\ [track[t] EXCEPT !.active = FALSE] \in TrackRow
      BY TrackTypes DEF Base, TypeOK
    <3> HIDE DEF new
    <3> QED
      BY <2>2, <3>1, <3>2
  <2>5. cp' \in [TrackIds -> [Points -> CpStatus]]
    <3>1. PICK id \in TrackIds : cp' = [cp EXCEPT ![id] = begun]
      BY <1>2 DEF CreateTrack
    <3> HIDE DEF begun
    <3> QED
      BY <2>3, <3>1 DEF Base, TypeOK
  <2>6. [proc[p] EXCEPT !.pc = "third"] \in ProcRow
        /\ [proc[p] EXCEPT !.pc = "third"].pc = "third"
    BY <2>1 DEF ProcRow, ProcPc
  <2>7. proc' \in [Procs -> ProcRow] /\ CallKnown'
    BY <1>2, <2>6, OneMoves DEF CreateTrack
  <2> QED
    BY <1>2, <2>4, <2>5, <2>7 DEF CreateTrack, Base, TypeOK, budgets
<1> QED
  BY <1>1, <1>2

(* The steps of day 3 keep the types.                                      *)
LEMMA ThirdBase ==
  ASSUME Base, NEW p \in Procs, ReadThird(p) \/ ExtendThird(p)
  PROVE  Base'
<1>0. /\ proc[p] \in ProcRow
      /\ Onward(p) \in ProcRow /\ Onward(p).pc # "price"
  BY OnwardType DEF Base, TypeOK
<1>1. CASE ReadThird(p)
  <2>1. PICK rows \in SUBSET TrackIds :
          Become(p, IF rows = {} THEN Onward(p)
                    ELSE [proc[p] EXCEPT !.pc = "calendar", !.rows = rows])
    BY <1>1 DEF ReadThird
  <2>2. /\ [proc[p] EXCEPT !.pc = "calendar", !.rows = rows] \in ProcRow
        /\ [proc[p] EXCEPT !.pc = "calendar", !.rows = rows].pc # "price"
    BY <1>0 DEF ProcRow, ProcPc
  <2>3. proc' \in [Procs -> ProcRow] /\ CallKnown'
    BY <1>0, <2>1, <2>2, OneMoves
  <2> QED
    BY <1>1, <2>3 DEF ReadThird, Base, TypeOK, budgets
<1>2. CASE ExtendThird(p)
  <2>1. track' \in [TrackIds -> TrackRow]
    BY <1>2, TrackTypes DEF ExtendThird, Base, TypeOK
  <2>2. cp' \in [TrackIds -> [Points -> CpStatus]]
    BY <1>2 DEF ExtendThird, Base, TypeOK, CpStatus
  <2>3. proc' \in [Procs -> ProcRow] /\ CallKnown'
    BY <1>0, <1>2, OneMoves DEF ExtendThird
  <2> QED
    BY <1>2, <2>1, <2>2, <2>3 DEF ExtendThird, Base, TypeOK, budgets
<1> QED
  BY <1>1, <1>2

(* The steps of a capture keep the types.                                  *)
LEMMA CaptureBase ==
  ASSUME Base, NEW p \in Procs,
         SelectDue(p) \/ CaptureGroup(p) \/ GroupFails(p) \/ CompleteTracks(p)
  PROVE  Base'
<1>0. proc[p] \in ProcRow /\ Idle \in ProcRow /\ Idle.pc = "idle"
  BY IdleType DEF Base, TypeOK, Idle
<1>1. \A g \in SUBSET proc[p].due :
        AfterGroup(p, g) \in ProcRow /\ AfterGroup(p, g).pc # "price"
  BY <1>0 DEF AfterGroup, ProcRow, ProcPc
<1>2. CASE SelectDue(p)
  <2>1. PICK due \in SUBSET (TrackIds \X Points) :
          Become(p, IF due = {} THEN Idle
                    ELSE [proc[p] EXCEPT !.pc = "group", !.due = due, !.now = clock])
    BY <1>2 DEF SelectDue
  <2>2. /\ [proc[p] EXCEPT !.pc = "group", !.due = due, !.now = clock] \in ProcRow
        /\ [proc[p] EXCEPT !.pc = "group", !.due = due, !.now = clock].pc # "price"
    BY <1>0 DEF ProcRow, ProcPc, Base, TypeOK
  <2>3. proc' \in [Procs -> ProcRow] /\ CallKnown'
    BY <1>0, <2>1, <2>2, OneMoves
  <2> QED
    BY <1>2, <2>3 DEF SelectDue, Base, TypeOK, budgets
<1>3. CASE CaptureGroup(p)
  <2>1. cp' \in [TrackIds -> [Points -> CpStatus]]
    <3> DEFINE marked(g, got, bad) == [t \in TrackIds |-> [x \in Points |->
                 IF <<t, x>> \in got THEN "captured"
                 ELSE IF /\ <<t, x>> \in g \ bad
                         /\ TooLate(t, x, proc[p].now) THEN "missed"
                 ELSE cp[t][x]]]
    <3>1. PICK g \in SUBSET proc[p].due :
            \E got \in SUBSET g : \E bad \in SUBSET (g \ got) : cp' = marked(g, got, bad)
      BY <1>3, ZenonT(60) DEF CaptureGroup
    <3>2. PICK got \in SUBSET g : \E bad \in SUBSET (g \ got) : cp' = marked(g, got, bad)
      BY <3>1
    <3>3. PICK bad \in SUBSET (g \ got) : cp' = marked(g, got, bad)
      BY <3>2
    <3> QED
      BY <3>3 DEF Base, TypeOK, CpStatus
  <2>2. PICK g \in SUBSET proc[p].due : Become(p, AfterGroup(p, g))
    BY <1>3 DEF CaptureGroup
  <2>3. proc' \in [Procs -> ProcRow] /\ CallKnown'
    BY <1>1, <2>2, OneMoves
  <2>4. /\ decisionsLeft' \in 0..MaxDecisions
        /\ crashesLeft' \in Nat /\ faultsLeft' \in Nat
    <3>1. UNCHANGED budgets \/ SpendFault
      BY <1>3 DEF CaptureGroup
    <3> QED
      BY <3>1 DEF SpendFault, budgets, Base, TypeOK
  <2>5. timely' \subseteq TrackIds \X Points
    <3>1. PICK h \in SUBSET proc[p].due : \E got \in SUBSET h : \E bad \in SUBSET (h \ got) :
            timely' = timely \union {y \in got : ~TooLate(y[1], y[2], clock)}
      BY <1>3, ZenonT(60) DEF CaptureGroup
    <3> QED
      BY <1>0, <3>1 DEF Base, TypeOK, ProcRow
  <2> QED
    BY <1>3, <2>1, <2>3, <2>4, <2>5 DEF CaptureGroup, Base, TypeOK
<1>4. CASE GroupFails(p)
  <2>1. PICK g \in SUBSET proc[p].due : Become(p, AfterGroup(p, g))
    BY <1>4 DEF GroupFails
  <2>2. proc' \in [Procs -> ProcRow] /\ CallKnown'
    BY <1>1, <2>1, OneMoves
  <2> QED
    BY <1>4, <2>2 DEF GroupFails, SpendFault, Base, TypeOK
<1>5. CASE CompleteTracks(p)
  <2>1. track' \in [TrackIds -> TrackRow]
    BY <1>5, TrackTypes DEF CompleteTracks, Base, TypeOK
  <2>2. proc' \in [Procs -> ProcRow] /\ CallKnown'
    BY <1>0, <1>5, OneMoves DEF CompleteTracks
  <2> QED
    BY <1>5, <2>1, <2>2 DEF CompleteTracks, Base, TypeOK, budgets
<1> QED
  BY <1>2, <1>3, <1>4, <1>5

(* Requests, failures, crashes and the clock keep the types.               *)
LEMMA OtherBase ==
  ASSUME Base,
         \/ \E p \in Background, c \in Candidates, d \in Decisions : UpdateCandidate(p, c, d)
         \/ \E p \in Pages : EnsureCurrentTracks(p)
         \/ \E p \in Collectors : StartCapture(p)
         \/ \E p \in Procs : Fails(p)
         \/ \E h \in {HostOf[p] : p \in Procs} : Crash(h)
         \/ Tick
  PROVE  Base'
<1>0. Idle \in ProcRow /\ Idle.pc = "idle"
  BY IdleType DEF Idle
<1>1. ASSUME NEW p \in Background, NEW c \in Candidates, NEW d \in Decisions,
             UpdateCandidate(p, c, d)
      PROVE  Base'
  <2>0. /\ decisionsLeft \in 0..MaxDecisions /\ MaxDecisions \in Nat
        /\ decisionsLeft > 0 /\ decisionsLeft' = decisionsLeft - 1
    BY <1>1, TrackingAssumption DEF UpdateCandidate, Base, TypeOK
  <2>1. cand' \in [Candidates -> CandRow]
    <3>1. MaxDecisions - decisionsLeft + 1 \in 0..MaxDecisions
      BY <2>0
    <3> QED
      BY <1>1, <3>1 DEF UpdateCandidate, Base, TypeOK, CandRow
  <2>2. track' \in [TrackIds -> TrackRow]
    BY <1>1, TrackTypes DEF UpdateCandidate, Base, TypeOK
  <2>3. proc' \in [Procs -> ProcRow] /\ CallKnown'
    <3>1. p \in Procs
      BY DEF Procs
    <3>2. CASE d \in TrackedDecisions
      <4> DEFINE todo == {<<c, d>>}
      <4>1. Become(p, [Idle EXCEPT !.pc = "sync", !.todo = todo])
        BY <1>1, <3>2 DEF UpdateCandidate
      <4>2. /\ [Idle EXCEPT !.pc = "sync", !.todo = todo] \in ProcRow
            /\ [Idle EXCEPT !.pc = "sync", !.todo = todo].pc # "price"
        <5>1. todo \in SUBSET (Candidates \X TrackedDecisions)
          BY <3>2
        <5> HIDE DEF todo
        <5> QED
          BY <1>0, <5>1 DEF ProcRow, ProcPc
      <4> QED
        BY <3>1, <4>1, <4>2, OneMoves
    <3>3. CASE d \notin TrackedDecisions
      <4>1. UNCHANGED proc
        BY <1>1, <3>3 DEF UpdateCandidate
      <4> QED
        BY <4>1 DEF Base, TypeOK, CallKnown
    <3> QED
      BY <3>2, <3>3
  <2>4. decisionsLeft' \in 0..MaxDecisions
    BY <2>0
  <2>5. crossed' \subseteq Symbols
    BY <1>1 DEF UpdateCandidate, Base, TypeOK, Symbols
  <2> QED
    BY <1>1, <2>1, <2>2, <2>3, <2>4, <2>5 DEF UpdateCandidate, Base, TypeOK
<1>2. ASSUME NEW p \in Pages, EnsureCurrentTracks(p)
      PROVE  Base'
  <2>1. p \in Procs
    BY DEF Procs
  <2>2. /\ [Idle EXCEPT !.pc = "sync", !.todo = Untracked] \in ProcRow
        /\ [Idle EXCEPT !.pc = "sync", !.todo = Untracked].pc # "price"
    BY <1>0 DEF ProcRow, ProcPc, Untracked, LatestTracked
  <2>3. proc' \in [Procs -> ProcRow] /\ CallKnown'
    BY <1>2, <2>1, <2>2, OneMoves DEF EnsureCurrentTracks
  <2> QED
    BY <1>2, <2>3 DEF EnsureCurrentTracks, Base, TypeOK, budgets
<1>3. ASSUME NEW p \in Collectors, StartCapture(p)
      PROVE  Base'
  <2>1. p \in Procs
    BY DEF Procs
  <2>2. /\ [Idle EXCEPT !.pc = "third"] \in ProcRow
        /\ [Idle EXCEPT !.pc = "third"].pc # "price"
    BY <1>0 DEF ProcRow, ProcPc
  <2>3. proc' \in [Procs -> ProcRow] /\ CallKnown'
    BY <1>3, <2>1, <2>2, OneMoves DEF StartCapture
  <2> QED
    BY <1>3, <2>3 DEF StartCapture, Base, TypeOK, budgets
<1>4. ASSUME NEW p \in Procs, Fails(p)
      PROVE  Base'
  <2>1. Onward(p) \in ProcRow /\ Onward(p).pc # "price"
    BY OnwardType DEF Base, TypeOK
  <2>2. proc' \in [Procs -> ProcRow] /\ CallKnown'
    BY <1>0, <1>4, <2>1, OneMoves DEF Fails
  <2> QED
    BY <1>4, <2>2 DEF Fails, SpendFault, Base, TypeOK
<1>5. ASSUME NEW h, Crash(h)
      PROVE  Base'
  <2>1. proc' \in [Procs -> ProcRow] /\ CallKnown'
    BY <1>0, <1>5 DEF Crash, Base, TypeOK, CallKnown
  <2> QED
    BY <1>5, <2>1 DEF Crash, Base, TypeOK
<1>6. CASE Tick
  BY <1>6, TrackingAssumption DEF Tick, Base, TypeOK, CallKnown, budgets
<1> QED
  BY <1>1, <1>2, <1>3, <1>4, <1>5, <1>6

(* Every step keeps the types.                                             *)
LEMMA StepBase ==
  ASSUME Base, [Next]_vars
  PROVE  Base'
<1>1. CASE Next
  BY <1>1, SyncBase, ThirdBase, CaptureBase, OtherBase DEF Next, ProcStep
<1>2. CASE UNCHANGED vars
  BY <1>2 DEF vars, budgets, Base, TypeOK, CallKnown
<1> QED
  BY <1>1, <1>2

(* Every row and every local variable of the decision tracking stays in    *)
(* its domain, and a synchronisation waiting for a price knows its call.   *)
THEOREM TrackingTypes == Spec => []Base
<1>1. Init => Base
  BY InitBase
<1>2. Base /\ [Next]_vars => Base'
  BY StepBase
<1> QED
  BY <1>1, <1>2, PTL DEF Spec

(* Type correctness of the decision tracking.                              *)
THEOREM TrackingTypeCorrect == Spec => []TypeOK
<1>1. Base => TypeOK
  BY DEF Base
<1> QED
  BY <1>1, TrackingTypes, PTL

-----------------------------------------------------------------------------
(* Only episodes are active.                                               *)
ActiveExist == \A t \in TrackIds : Active(t) => Exists(t)

EpisodeInv == ActiveExist /\ OneActiveEpisode /\ CompletedIsSettled

(* What a step may do to the tables: nothing, end episodes, or one of the  *)
(* four steps with a transaction of their own.                             *)
LEMMA Effects ==
  ASSUME Base, [Next]_vars
  PROVE  \/ UNCHANGED <<track, cp>>
         \/ \E ts : track' = Deactivated(ts) /\ cp' = cp
         \/ \E p \in Procs : \/ CreateTrack(p) \/ ExtendThird(p)
                             \/ CaptureGroup(p) \/ CompleteTracks(p)
<1>1. ASSUME NEW p \in Background, NEW c \in Candidates, NEW d \in Decisions,
             UpdateCandidate(p, c, d)
      PROVE  UNCHANGED <<track, cp>> \/ (\E ts : track' = Deactivated(ts) /\ cp' = cp)
  BY <1>1 DEF UpdateCandidate
<1>2. ASSUME NEW p, StartSync(p) \/ ReadThird(p) \/ SelectDue(p) \/ GroupFails(p) \/ Fails(p)
                    \/ EnsureCurrentTracks(p) \/ StartCapture(p)
      PROVE  UNCHANGED <<track, cp>>
  BY <1>2 DEF StartSync, ReadThird, SelectDue, GroupFails, Fails, EnsureCurrentTracks, StartCapture
<1>3. ASSUME NEW h, Crash(h)
      PROVE  UNCHANGED <<track, cp>>
  BY <1>3 DEF Crash
<1>4. Tick \/ UNCHANGED vars => UNCHANGED <<track, cp>>
  BY DEF Tick, vars
<1> QED
  BY <1>1, <1>2, <1>3, <1>4 DEF Next, ProcStep

(* At the start a symbol has one old episode at most, and the completed    *)
(* ones have captured all they were scheduled to.                          *)
LEMMA InitEpisodes == Init => EpisodeInv
<1> SUFFICES ASSUME Init PROVE EpisodeInv
  OBVIOUS
<1>1. PICK done \in SUBSET Legacy :
        /\ track = [t \in TrackIds |->
             IF t \in Legacy
             THEN [candidate |-> t, decision |-> "pass", active |-> TRUE,
                   completed |-> t \in done, day |-> 0]
             ELSE NoTrack]
        /\ cp = [t \in TrackIds |-> [x \in Points |->
             IF t \notin Legacy \/ x[1] = 3 THEN "none"
             ELSE IF t \in done THEN "captured" ELSE "pending"]]
  BY DEF Init
<1>2. \A t \in TrackIds : Active(t) => t \in Legacy /\ track[t].candidate = t
  BY <1>1 DEF Active, NoTrack
<1>3. \A t \in TrackIds : track[t].completed => t \in done
  BY <1>1 DEF NoTrack
<1>4. ActiveExist
  BY <1>2, TrackingAssumption DEF ActiveExist, Exists
<1>5. OneActiveEpisode
  <2> SUFFICES ASSUME NEW t \in TrackIds, NEW u \in TrackIds, Active(t), Active(u),
                      SymbolOfT(t) = SymbolOfT(u)
               PROVE  t = u
    BY DEF OneActiveEpisode
  <2>1. t \in Legacy /\ u \in Legacy /\ SymbolOf[t] = SymbolOf[u]
    BY <1>2 DEF SymbolOfT
  <2> QED
    BY <2>1, TrackingAssumption
<1>6. CompletedIsSettled
  BY <1>1, <1>3 DEF CompletedIsSettled
<1> QED
  BY <1>4, <1>5, <1>6 DEF EpisodeInv

(* The transaction of a new episode: the trigger leaves the symbol no      *)
(* other active one.                                                       *)
LEMMA CreateEpisode ==
  ASSUME Base, EpisodeInv, NEW p \in Procs, CreateTrack(p)
  PROVE  EpisodeInv'
<1> DEFINE c == proc[p].call[1]
           new == [candidate |-> c, decision |-> EpisodeDecision(p), active |-> TRUE,
                   completed |-> FALSE, day |-> proc[p].now]
           begun == [x \in Points |-> IF x[1] = 3 THEN "none" ELSE "pending"]
           closed(t) == IF t = proc[p].old \/ Rivals(c, t)
                        THEN [track[t] EXCEPT !.active = FALSE] ELSE track[t]
<1>1. PICK id \in TrackIds :
        /\ track' = [t \in TrackIds |-> IF t = id THEN new ELSE closed(t)]
        /\ cp' = [cp EXCEPT ![id] = begun]
  <2>1. PICK id \in TrackIds :
        /\ track' = [t \in TrackIds |-> IF t = id THEN new
                      ELSE IF t = proc[p].old \/ Rivals(c, t)
                           THEN [track[t] EXCEPT !.active = FALSE] ELSE track[t]]
        /\ cp' = [cp EXCEPT ![id] = begun]
    BY DEF CreateTrack
  <2> QED
    BY <2>1
<1>2. c \in Candidates
  BY DEF Base, TypeOK, CallKnown, CreateTrack, ProcRow
<1>3. \A t \in TrackIds : track[t] \in TrackRow
  BY DEF Base, TypeOK
<1>4. track'[id].candidate = c /\ track'[id].active /\ ~track'[id].completed
  BY <1>1
<1>5. \A t \in TrackIds \ {id} :
        /\ track'[t].candidate = track[t].candidate
        /\ track'[t].completed = track[t].completed
        /\ track'[t].active => track[t].active /\ ~Rivals(c, t)
        /\ cp'[t] = cp[t]
  <2> SUFFICES ASSUME NEW t \in TrackIds \ {id}
               PROVE  /\ track'[t].candidate = track[t].candidate
                      /\ track'[t].completed = track[t].completed
                      /\ track'[t].active => track[t].active /\ ~Rivals(c, t)
                      /\ cp'[t] = cp[t]
    OBVIOUS
  <2>1. track'[t] = closed(t)
    BY <1>1
  <2>2. cp'[t] = cp[t]
    BY <1>1 DEF Base, TypeOK
  <2>3. track[t] \in TrackRow
    BY <1>3
  <2> QED
    BY <2>1, <2>2, <2>3 DEF TrackRow
<1>6. ActiveExist'
  BY <1>2, <1>4, <1>5, TrackingAssumption DEF EpisodeInv, ActiveExist, Active, Exists
<1>7. OneActiveEpisode'
  <2> SUFFICES ASSUME NEW t \in TrackIds, NEW u \in TrackIds,
                      track'[t].active, track'[u].active, t # u,
                      SymbolOf[track'[t].candidate] = SymbolOf[track'[u].candidate]
               PROVE  FALSE
    BY DEF OneActiveEpisode, Active, SymbolOfT
  <2>1. ASSUME NEW r \in TrackIds \ {id}, track'[r].active
        PROVE  SymbolOf[track'[r].candidate] # SymbolOf[c]
    BY <1>5, <2>1 DEF Rivals, EpisodeInv, ActiveExist, Active, SymbolOfT
  <2>2. CASE t = id
    BY <1>4, <2>1, <2>2
  <2>3. CASE u = id
    BY <1>4, <2>1, <2>3
  <2>4. CASE t # id /\ u # id
    BY <1>5, <2>4 DEF EpisodeInv, OneActiveEpisode, Active, SymbolOfT
  <2> QED
    BY <2>2, <2>3, <2>4
<1>8. CompletedIsSettled'
  BY <1>4, <1>5 DEF EpisodeInv, CompletedIsSettled
<1> QED
  BY <1>6, <1>7, <1>8 DEF EpisodeInv

(* The other transactions: none of them activates an episode, and the one  *)
(* that gives an episode checkpoints reopens it.                           *)
LEMMA KeepEpisodes ==
  ASSUME Base, EpisodeInv,
         \/ UNCHANGED <<track, cp>>
         \/ \E ts : track' = Deactivated(ts) /\ cp' = cp
         \/ \E p \in Procs : ExtendThird(p) \/ CaptureGroup(p) \/ CompleteTracks(p)
  PROVE  EpisodeInv'
<1>0. \A t \in TrackIds : track[t] \in TrackRow
  BY DEF Base, TypeOK
<1> DEFINE Kept(t) == /\ track'[t].candidate = track[t].candidate
                      /\ track'[t].active => track[t].active
           Settled(t) == track'[t].completed => \A x \in Points : cp'[t][x] # "pending"
<1>1. CASE UNCHANGED <<track, cp>>
  BY <1>1 DEF EpisodeInv, ActiveExist, OneActiveEpisode, CompletedIsSettled, Active, Exists, SymbolOfT
<1>2. ASSUME NEW ts, track' = Deactivated(ts), cp' = cp
      PROVE  \A t \in TrackIds : Kept(t) /\ Settled(t)
  BY <1>0, <1>2 DEF Deactivated, TrackRow, EpisodeInv, CompletedIsSettled
<1>3. ASSUME NEW p \in Procs, ExtendThird(p)
      PROVE  \A t \in TrackIds : Kept(t) /\ Settled(t)
  <2> SUFFICES ASSUME NEW t \in TrackIds PROVE Kept(t) /\ Settled(t)
    OBVIOUS
  <2>1. track'[t] = IF t \in proc[p].rows THEN Reopen(track[t]) ELSE track[t]
    BY <1>3 DEF ExtendThird
  <2>2. Kept(t)
    BY <1>0, <2>1 DEF Reopen, TrackRow
  <2>3. CASE t \in proc[p].rows
    BY <1>0, <2>1, <2>3 DEF Reopen, TrackRow
  <2>4. CASE t \notin proc[p].rows
    BY <1>3, <2>1, <2>4 DEF ExtendThird, EpisodeInv, CompletedIsSettled
  <2> QED
    BY <2>2, <2>3, <2>4
<1>4. ASSUME NEW p \in Procs, CaptureGroup(p)
      PROVE  \A t \in TrackIds : Kept(t) /\ Settled(t)
  <2>1. track' = track
    BY <1>4 DEF CaptureGroup
  <2>2. \A t \in TrackIds, x \in Points : cp'[t][x] \in {"captured", "missed", cp[t][x]}
    BY <1>4 DEF CaptureGroup
  <2> QED
    BY <2>1, <2>2 DEF EpisodeInv, CompletedIsSettled
<1>5. ASSUME NEW p \in Procs, CompleteTracks(p)
      PROVE  \A t \in TrackIds : Kept(t) /\ Settled(t)
  <2> SUFFICES ASSUME NEW t \in TrackIds PROVE Kept(t) /\ Settled(t)
    OBVIOUS
  <2>1. cp' = cp
    BY <1>5 DEF CompleteTracks
  <2>2. \/ track'[t] = track[t]
        \/ /\ \A x \in Points : cp[t][x] # "pending"
           /\ track'[t] = [track[t] EXCEPT !.completed = TRUE]
    BY <1>5 DEF CompleteTracks
  <2> QED
    BY <1>0, <2>1, <2>2 DEF TrackRow, EpisodeInv, CompletedIsSettled
<1>6. ASSUME \A t \in TrackIds : Kept(t) /\ Settled(t)
      PROVE  EpisodeInv'
  <2>1. ActiveExist'
    BY <1>6 DEF EpisodeInv, ActiveExist, Active, Exists
  <2>2. OneActiveEpisode'
    BY <1>6 DEF EpisodeInv, OneActiveEpisode, Active, SymbolOfT
  <2>3. CompletedIsSettled'
    BY <1>6 DEF CompletedIsSettled
  <2> QED
    BY <2>1, <2>2, <2>3 DEF EpisodeInv
<1> HIDE DEF Kept, Settled
<1> QED
  BY <1>1, <1>2, <1>3, <1>4, <1>5, <1>6

(* The episodes' invariant holds from the start and across every step.     *)
THEOREM Episodes == Spec => []EpisodeInv
<1>1. Init => EpisodeInv
  BY InitEpisodes
<1>2. Base /\ EpisodeInv /\ [Next]_vars => EpisodeInv'
  BY Effects, CreateEpisode, KeepEpisodes
<1> QED
  BY <1>1, <1>2, TrackingTypes, PTL DEF Spec

(* A symbol never has two active episodes, however many candidates of it   *)
(* are decided on and however their synchronisations interleave: the       *)
(* trigger of the v4 schema does what sync_candidate_tracking does not.    *)
THEOREM EpisodesAreExclusive == Spec => []OneActiveEpisode
<1>1. EpisodeInv => OneActiveEpisode
  BY DEF EpisodeInv
<1> QED
  BY <1>1, Episodes, PTL

(* A completed episode waits for no checkpoint, for any number of          *)
(* collectors and synchronisations that extend episodes at the same time.  *)
THEOREM CompletedEpisodesAreSettled == Spec => []CompletedIsSettled
<1>1. EpisodeInv => CompletedIsSettled
  BY DEF EpisodeInv
<1> QED
  BY <1>1, Episodes, PTL

-----------------------------------------------------------------------------
(* The latest decision on the symbol is one that is tracked.               *)
Followed(s) == \E c \in Latest(s) : cand[c].decision \in TrackedDecisions

(* Decisions are numbered, and no call is made for a symbol that is not    *)
(* followed, unless a decision crossed it.                                 *)
Numbered  == \A c \in Candidates : cand[c].reviewed <= MaxDecisions - decisionsLeft
CallsHold == \A s : Synchronising(s) /\ s \notin crossed => Followed(s)
StopInv   == Numbered /\ CallsHold /\ StoppedHasNoEpisode

(* A coroutine that moves on with some of its calls, or none, adds none.   *)
LEMMA FewerCalls ==
  ASSUME Base, NEW p \in Procs, NEW row, Become(p, row),
         row.todo \subseteq proc[p].todo, row.pc # "price"
  PROVE  \A s : Synchronising(s)' => Synchronising(s)
<1> SUFFICES ASSUME NEW s, Synchronising(s)' PROVE Synchronising(s)
  OBVIOUS
<1>1. PICK q \in Procs :
        \/ \E call \in proc'[q].todo : SymbolOf[call[1]] = s
        \/ proc'[q].pc = "price" /\ SymbolOf[proc'[q].call[1]] = s
  BY DEF Synchronising
<1>2. proc'[q] = IF q = p THEN row ELSE proc[q]
  BY DEF Become, Base, TypeOK
<1> QED
  BY <1>1, <1>2 DEF Synchronising

(* Only a page's request brings new calls without a decision, and it calls *)
(* for latest decisions that are tracked.                                  *)
LEMMA NewCalls ==
  ASSUME Base, [Next]_vars,
         ~\E p \in Background, c \in Candidates, d \in Decisions : UpdateCandidate(p, c, d)
  PROVE  \A s : Synchronising(s)' => Synchronising(s) \/ Followed(s)
<1>1. ASSUME NEW p \in Procs,
             \/ ReadThird(p) \/ ExtendThird(p) \/ CompleteTracks(p) \/ SelectDue(p)
             \/ CaptureGroup(p) \/ GroupFails(p) \/ Fails(p) \/ CreateTrack(p)
             \/ (p \in Collectors /\ StartCapture(p))
      PROVE  \A s : Synchronising(s)' => Synchronising(s)
  <2>1. Onward(p).todo \subseteq proc[p].todo /\ Onward(p).pc # "price"
    BY DEF Onward, Idle
  <2>2. /\ Idle.todo = {} /\ Idle.pc = "idle"
        /\ [Idle EXCEPT !.pc = "third"].todo = {} /\ [Idle EXCEPT !.pc = "third"].pc = "third"
    BY DEF Idle
  <2>3. proc[p] \in ProcRow
    BY DEF Base, TypeOK
  <2>4. /\ \A x : /\ [proc[p] EXCEPT !.pc = "calendar", !.rows = x].todo = proc[p].todo
                  /\ [proc[p] EXCEPT !.pc = "calendar", !.rows = x].pc # "price"
        /\ \A x : /\ [proc[p] EXCEPT !.pc = "group", !.due = x, !.now = clock].todo = proc[p].todo
                  /\ [proc[p] EXCEPT !.pc = "group", !.due = x, !.now = clock].pc # "price"
        /\ [proc[p] EXCEPT !.pc = "third"].todo = proc[p].todo
        /\ [proc[p] EXCEPT !.pc = "third"].pc # "price"
    BY <2>3 DEF ProcRow
  <2>5. \A x : AfterGroup(p, x).todo = proc[p].todo /\ AfterGroup(p, x).pc # "price"
    BY <2>3 DEF AfterGroup, ProcRow
  <2>6. CASE ReadThird(p)
    BY <2>1, <2>4, <2>6, FewerCalls DEF ReadThird
  <2>7. CASE SelectDue(p)
    BY <2>2, <2>4, <2>7, FewerCalls DEF SelectDue
  <2>8. CASE CreateTrack(p)
    BY <2>4, <2>8, FewerCalls DEF CreateTrack
  <2>9. CASE CaptureGroup(p) \/ GroupFails(p)
    <3>1. PICK x : Become(p, AfterGroup(p, x))
      BY <2>9 DEF CaptureGroup, GroupFails
    <3> QED
      BY <2>5, <3>1, FewerCalls
  <2>10. CASE ExtendThird(p) \/ Fails(p) \/ CompleteTracks(p)
    <3>1. Become(p, Onward(p)) \/ Become(p, Idle)
      BY <2>10 DEF ExtendThird, Fails, CompleteTracks
    <3>2. Idle.todo \subseteq proc[p].todo /\ Idle.pc # "price"
      BY <2>2
    <3> QED
      BY <2>1, <3>1, <3>2, FewerCalls
  <2>11. CASE StartCapture(p)
    BY <2>2, <2>11, FewerCalls DEF StartCapture
  <2> QED
    BY <1>1, <2>6, <2>7, <2>8, <2>9, <2>10, <2>11
<1>2. ASSUME NEW p \in Procs, StartSync(p)
      PROVE  \A s : Synchronising(s)' => Synchronising(s)
  <2> SUFFICES ASSUME NEW s, Synchronising(s)' PROVE Synchronising(s)
    OBVIOUS
  <2>1. proc[p] \in ProcRow
    BY DEF Base, TypeOK
  <2>2. PICK call \in proc[p].todo :
          \E row : Become(p, row) /\ row.todo \subseteq proc[p].todo /\ row.call = call
    <3>1. PICK call \in proc[p].todo :
            LET row == [proc[p] EXCEPT !.todo = @ \ {call}, !.call = call, !.now = clock]
            IN  \/ Become(p, [row EXCEPT !.pc = "third"])
                \/ \E t : Become(p, [row EXCEPT !.pc = "price", !.old = t])
      BY <1>2 DEF StartSync
    <3> DEFINE row == [proc[p] EXCEPT !.todo = @ \ {call}, !.call = call, !.now = clock]
    <3>2. /\ DOMAIN row = DOMAIN proc[p] /\ row.call = call /\ row.todo \subseteq proc[p].todo
          /\ {"pc", "call", "todo", "old"} \subseteq DOMAIN proc[p]
      BY <2>1 DEF ProcRow
    <3>3. Become(p, [row EXCEPT !.pc = "third"])
          \/ \E t : Become(p, [row EXCEPT !.pc = "price", !.old = t])
      BY <3>1
    <3> HIDE DEF row
    <3>4. /\ [row EXCEPT !.pc = "third"].call = row.call
          /\ [row EXCEPT !.pc = "third"].todo = row.todo
          /\ \A t : /\ [row EXCEPT !.pc = "price", !.old = t].call = row.call
                    /\ [row EXCEPT !.pc = "price", !.old = t].todo = row.todo
      BY <3>2
    <3> QED
      BY <3>2, <3>3, <3>4, ZenonT(60)
  <2>3. PICK q \in Procs :
          \/ \E x \in proc'[q].todo : SymbolOf[x[1]] = s
          \/ proc'[q].pc = "price" /\ SymbolOf[proc'[q].call[1]] = s
    BY DEF Synchronising
  <2>4. PICK row : Become(p, row) /\ row.todo \subseteq proc[p].todo /\ row.call = call
    BY <2>2
  <2>5. proc'[q] = IF q = p THEN row ELSE proc[q]
    BY <2>4 DEF Become, Base, TypeOK
  <2> QED
    BY <2>3, <2>4, <2>5 DEF Synchronising
<1>3. ASSUME NEW p \in Pages, EnsureCurrentTracks(p)
      PROVE  \A s : Synchronising(s)' => Synchronising(s) \/ Followed(s)
  <2> SUFFICES ASSUME NEW s, Synchronising(s)' PROVE Synchronising(s) \/ Followed(s)
    OBVIOUS
  <2>1. PICK q \in Procs :
          \/ \E x \in proc'[q].todo : SymbolOf[x[1]] = s
          \/ proc'[q].pc = "price" /\ SymbolOf[proc'[q].call[1]] = s
    BY DEF Synchronising
  <2>2. proc'[q] = IF q = p THEN [Idle EXCEPT !.pc = "sync", !.todo = Untracked] ELSE proc[q]
    BY <1>3 DEF EnsureCurrentTracks, Become, Base, TypeOK
  <2>3. CASE q = p
    <3>1. PICK x \in Untracked : SymbolOf[x[1]] = s
      BY <2>1, <2>2, <2>3 DEF Idle
    <3> QED
      BY <3>1 DEF Untracked, LatestTracked, Followed
  <2>4. CASE q # p
    BY <2>1, <2>2, <2>4 DEF Synchronising
  <2> QED
    BY <2>3, <2>4
<1>4. ASSUME NEW h, Crash(h)
      PROVE  \A s : Synchronising(s)' => Synchronising(s)
  <2>1. \A q \in Procs : proc'[q] = Idle \/ proc'[q] = proc[q]
    BY <1>4 DEF Crash
  <2> QED
    BY <2>1 DEF Synchronising, Idle
<1>5. Tick \/ UNCHANGED vars => \A s : Synchronising(s)' => Synchronising(s)
  BY DEF Tick, vars, Synchronising
<1>6. Collectors \subseteq Procs
  BY DEF Procs
<1> SUFFICES ASSUME NEW s, Synchronising(s)' PROVE Synchronising(s) \/ Followed(s)
  OBVIOUS
<1> QED
  BY <1>1, <1>2, <1>3, <1>4, <1>5, <1>6 DEF Next, ProcStep

(* Only the insert of an episode makes one active, for the symbol that is  *)
(* synchronised.                                                           *)
LEMMA NewEpisodes ==
  ASSUME Base, EpisodeInv, [Next]_vars
  PROVE  \A t \in TrackIds : Active(t)' =>
           \/ Active(t) /\ SymbolOfT(t)' = SymbolOfT(t)
           \/ Synchronising(SymbolOfT(t)')
<1> SUFFICES ASSUME NEW t \in TrackIds, Active(t)'
             PROVE  \/ Active(t) /\ SymbolOfT(t)' = SymbolOfT(t)
                    \/ Synchronising(SymbolOfT(t)')
  OBVIOUS
<1>0. track \in [TrackIds -> TrackRow] /\ track[t] \in TrackRow
  BY DEF Base, TypeOK
<1>1. CASE UNCHANGED <<track, cp>>
  BY <1>1 DEF Active, SymbolOfT
<1>2. CASE \E ts : track' = Deactivated(ts)
  BY <1>0, <1>2 DEF Active, SymbolOfT, Deactivated, TrackRow
<1>3. ASSUME NEW p \in Procs, ExtendThird(p) \/ CaptureGroup(p) \/ CompleteTracks(p)
      PROVE  Active(t) /\ SymbolOfT(t)' = SymbolOfT(t)
  BY <1>0, <1>3
  DEF ExtendThird, CaptureGroup, CompleteTracks, Reopen, Active, SymbolOfT, TrackRow
<1>4. ASSUME NEW p \in Procs, CreateTrack(p)
      PROVE  \/ Active(t) /\ SymbolOfT(t)' = SymbolOfT(t)
             \/ Synchronising(SymbolOfT(t)')
  <2>1. \/ track'[t].candidate = proc[p].call[1]
        \/ track'[t] = track[t]
        \/ track'[t] = [track[t] EXCEPT !.active = FALSE]
    BY <1>4, <1>0 DEF CreateTrack
  <2>2. CASE track'[t].candidate = proc[p].call[1]
    BY <1>4, <2>2 DEF CreateTrack, Synchronising, SymbolOfT
  <2>3. CASE track'[t] = track[t]
    BY <2>3 DEF Active, SymbolOfT
  <2>4. CASE track'[t] = [track[t] EXCEPT !.active = FALSE]
    BY <1>0, <2>4 DEF Active, TrackRow
  <2> QED
    BY <2>1, <2>2, <2>3, <2>4
<1> QED
  BY <1>1, <1>2, <1>3, <1>4, Effects

(* A decision changes what is followed for its own symbol only, which it   *)
(* follows when it is tracked.                                             *)
LEMMA Decision ==
  ASSUME Base, Numbered, NEW p \in Background, NEW c \in Candidates, NEW d \in Decisions,
         UpdateCandidate(p, c, d)
  PROVE  /\ \A s : s # SymbolOf[c] => (Followed(s)' <=> Followed(s))
         /\ d \in TrackedDecisions => Followed(SymbolOf[c])'
         /\ Numbered'
<1> DEFINE n == MaxDecisions - decisionsLeft + 1
<1>1. /\ cand' = [cand EXCEPT ![c] = [decision |-> d, reviewed |-> n]]
      /\ decisionsLeft' = decisionsLeft - 1
  BY DEF UpdateCandidate
<1>2. /\ cand \in [Candidates -> CandRow]
      /\ decisionsLeft \in Int /\ MaxDecisions \in Int
      /\ \A e \in Candidates : cand[e].reviewed \in Int
  BY TrackingAssumption DEF Base, TypeOK, CandRow
<1>3. /\ \A e \in Candidates : e # c => cand'[e] = cand[e]
      /\ cand'[c].decision = d /\ cand'[c].reviewed = n
  BY <1>1, <1>2
<1>4. \A e \in Candidates : cand[e].reviewed < n
  BY <1>2 DEF Numbered
<1>5. Numbered'
  BY <1>1, <1>2, <1>3, <1>4 DEF Numbered
<1>6. ASSUME NEW s, s # SymbolOf[c]
      PROVE  Followed(s)' <=> Followed(s)
  <2>1. Explicit(s)' = Explicit(s) /\ \A e \in Explicit(s) : e \in Candidates /\ e # c
    BY <1>3, <1>6 DEF Explicit
  <2>2. Latest(s)' = Latest(s) /\ \A e \in Latest(s) : cand'[e] = cand[e]
    BY <2>1, <1>3 DEF Latest
  <2> QED
    BY <2>2 DEF Followed
<1>7. ASSUME d \in TrackedDecisions
      PROVE  Followed(SymbolOf[c])'
  <2>1. c \in Explicit(SymbolOf[c])'
    BY <1>3, <1>7 DEF Explicit, TrackedDecisions
  <2>2. \A e \in Explicit(SymbolOf[c])' :
          \/ cand'[c].reviewed > cand'[e].reviewed
          \/ cand'[c].reviewed = cand'[e].reviewed /\ c >= e
    <3> SUFFICES ASSUME NEW e \in Candidates
                 PROVE  \/ cand'[c].reviewed > cand'[e].reviewed
                        \/ cand'[c].reviewed = cand'[e].reviewed /\ c >= e
      BY DEF Explicit
    <3>1. CASE e = c
      BY <3>1, TrackingAssumption
    <3>2. CASE e # c
      BY <1>2, <1>3, <1>4, <3>2
    <3> QED
      BY <3>1, <3>2
  <2>3. c \in Latest(SymbolOf[c])'
    BY <2>1, <2>2 DEF Latest
  <2> QED
    BY <1>3, <1>7, <2>3 DEF Followed
<1> QED
  BY <1>5, <1>6, <1>7

(* A step that is not a decision keeps the decisions and their marks.      *)
LEMMA NoDecision ==
  ASSUME Base, [Next]_vars,
         ~\E p \in Background, c \in Candidates, d \in Decisions : UpdateCandidate(p, c, d)
  PROVE  UNCHANGED <<cand, crossed, decisionsLeft>>
<1>1. ASSUME NEW p, ProcStep(p) \/ GroupFails(p) \/ Fails(p) \/ EnsureCurrentTracks(p)
                    \/ StartCapture(p)
      PROVE  UNCHANGED <<cand, crossed, decisionsLeft>>
  BY <1>1 DEF ProcStep, StartSync, CreateTrack, ReadThird, ExtendThird, SelectDue, CaptureGroup,
              CompleteTracks, GroupFails, Fails, EnsureCurrentTracks, StartCapture, SpendFault,
              budgets
<1>2. ASSUME NEW h, Crash(h)
      PROVE  UNCHANGED <<cand, crossed, decisionsLeft>>
  BY <1>2 DEF Crash
<1>3. Tick \/ UNCHANGED vars => UNCHANGED <<cand, crossed, decisionsLeft>>
  BY DEF Tick, vars, budgets
<1> QED
  BY <1>1, <1>2, <1>3, SMTT(60) DEF Next

(* A decision keeps the invariant: one that is not tracked ends what it    *)
(* would make stale, and marks the synchronisation it crosses.             *)
LEMMA DecisionStops ==
  ASSUME Base, EpisodeInv, StopInv,
         NEW p \in Background, NEW c \in Candidates, NEW d \in Decisions,
         UpdateCandidate(p, c, d)
  PROVE  StopInv'
<1> DEFINE own == SymbolOf[c]
<1>1. /\ \A s : s # own => (Followed(s)' <=> Followed(s))
      /\ d \in TrackedDecisions => Followed(own)'
      /\ Numbered'
  BY Decision DEF StopInv
<1>2. /\ crossed \subseteq crossed'
      /\ Synchronising(own) => own \in crossed'
  BY DEF UpdateCandidate
<1>3. ASSUME NEW s, s # own, Synchronising(s)'
      PROVE  Synchronising(s)
  <2>1. PICK q \in Procs :
          \/ \E x \in proc'[q].todo : SymbolOf[x[1]] = s
          \/ proc'[q].pc = "price" /\ SymbolOf[proc'[q].call[1]] = s
    BY <1>3 DEF Synchronising
  <2>2. \/ proc'[q] = proc[q]
        \/ proc'[q].todo = {<<c, d>>} /\ proc'[q].pc = "sync"
    BY DEF UpdateCandidate, Become, Base, TypeOK, Idle
  <2> QED
    BY <1>3, <2>1, <2>2 DEF Synchronising
<1>4. CallsHold'
  <2> SUFFICES ASSUME NEW s, Synchronising(s)', s \notin crossed' PROVE Followed(s)'
    BY DEF CallsHold
  <2>1. CASE s # own
    BY <1>1, <1>2, <1>3, <2>1 DEF StopInv, CallsHold
  <2>2. CASE s = own /\ d \in TrackedDecisions
    BY <1>1, <2>2
  <2>3. CASE s = own /\ d \notin TrackedDecisions
    <3>1. UNCHANGED proc
      BY <2>3 DEF UpdateCandidate
    <3> QED
      BY <1>2, <2>3, <3>1 DEF Synchronising
  <2> QED
    BY <2>1, <2>2, <2>3
<1>5. StoppedHasNoEpisode'
  <2> SUFFICES ASSUME NEW t \in TrackIds, NEW s, s = SymbolOfT(t)', Active(t)', s \notin crossed'
               PROVE  Followed(s)'
    BY DEF StoppedHasNoEpisode, Followed, Latest, Explicit, SymbolOfT
  <2>0. track \in [TrackIds -> TrackRow] /\ track[t] \in TrackRow
    BY DEF Base, TypeOK
  <2>1. Active(t) /\ s = SymbolOfT(t)
    BY <2>0 DEF UpdateCandidate, Deactivated, Active, SymbolOfT, TrackRow
  <2>2. CASE s # own
    <3>1. Followed(s)
      BY <1>2, <2>1 DEF StopInv, StoppedHasNoEpisode, Followed
    <3> QED
      BY <1>1, <2>1, <2>2, <3>1
  <2>3. CASE s = own /\ d \in TrackedDecisions
    BY <1>1, <2>1, <2>3
  <2>4. CASE s = own /\ d \notin TrackedDecisions
    <3>1. t \in Ended(c)
      BY <2>1, <2>4 DEF Ended, ActiveOf, EpisodeInv, ActiveExist
    <3>2. track'[t].active = FALSE
      BY <2>0, <2>4, <3>1 DEF UpdateCandidate, Deactivated, TrackRow
    <3> QED
      BY <3>2 DEF Active
  <2> QED
    BY <2>2, <2>3, <2>4
<1> QED
  BY <1>1, <1>4, <1>5 DEF StopInv

(* Every step preserves it.                                                *)
LEMMA StepStops ==
  ASSUME Base, EpisodeInv, StopInv, [Next]_vars
  PROVE  StopInv'
<1>1. CASE \E p \in Background, c \in Candidates, d \in Decisions : UpdateCandidate(p, c, d)
  BY <1>1, DecisionStops
<1>2. CASE ~\E p \in Background, c \in Candidates, d \in Decisions : UpdateCandidate(p, c, d)
  <2>1. UNCHANGED <<cand, crossed, decisionsLeft>>
    BY <1>2, NoDecision
  <2>2. \A s : Followed(s)' <=> Followed(s)
    BY <2>1 DEF Followed, Latest, Explicit
  <2>3. Numbered'
    BY <2>1 DEF StopInv, Numbered
  <2>4. CallsHold'
    BY <1>2, <2>1, <2>2, NewCalls DEF StopInv, CallsHold
  <2>5. StoppedHasNoEpisode'
    <3> SUFFICES ASSUME NEW t \in TrackIds, NEW s, s = SymbolOfT(t)', Active(t)',
                        s \notin crossed'
                 PROVE  Followed(s)'
      BY DEF StoppedHasNoEpisode, Followed, Latest, Explicit, SymbolOfT
    <3>1. CASE Active(t) /\ s = SymbolOfT(t)
      <4>1. Followed(s)
        BY <2>1, <3>1 DEF StopInv, StoppedHasNoEpisode, Followed
      <4> QED
        BY <2>2, <4>1
    <3>2. CASE Synchronising(s)
      <4>1. Followed(s)
        BY <2>1, <3>2 DEF StopInv, CallsHold
      <4> QED
        BY <2>2, <4>1
    <3>3. \/ Active(t) /\ SymbolOfT(t)' = SymbolOfT(t)
          \/ Synchronising(SymbolOfT(t)')
      BY NewEpisodes
    <3>4. Synchronising(SymbolOfT(t)') <=> Synchronising(s)
      OBVIOUS
    <3> QED
      BY <3>1, <3>2, <3>3, <3>4
  <2> QED
    BY <2>3, <2>4, <2>5 DEF StopInv
<1> QED
  BY <1>1, <1>2

(* At the start nothing is synchronised, and the old episodes belong to    *)
(* the only decisions there are.                                           *)
LEMMA InitStops == Init => StopInv
<1> SUFFICES ASSUME Init PROVE StopInv
  OBVIOUS
<1>1. cand = [c \in Candidates |->
         [decision |-> IF c \in Legacy THEN "pass" ELSE "unreviewed", reviewed |-> 0]]
  BY DEF Init
<1>2. Numbered
  BY <1>1, TrackingAssumption DEF Init, Numbered
<1>3. CallsHold
  BY DEF Init, CallsHold, Synchronising, Idle
<1>4. StoppedHasNoEpisode
  <2> SUFFICES ASSUME NEW t \in TrackIds, Active(t)
               PROVE  Followed(SymbolOfT(t))
    BY DEF StoppedHasNoEpisode, Followed
  <2>1. t \in Legacy /\ track[t].candidate = t
    BY DEF Init, Active, NoTrack
  <2>2. t \in Candidates /\ t \in Explicit(SymbolOf[t])
    BY <1>1, <2>1, TrackingAssumption DEF Explicit
  <2>3. \A e \in Explicit(SymbolOf[t]) : e = t
    BY <1>1, <2>1, TrackingAssumption DEF Explicit
  <2>4. t \in Latest(SymbolOf[t]) /\ cand[t].decision \in TrackedDecisions
    BY <1>1, <2>1, <2>2, <2>3, TrackingAssumption DEF Latest, TrackedDecisions
  <2> QED
    BY <2>1, <2>4 DEF Followed, SymbolOfT
<1> QED
  BY <1>2, <1>3, <1>4 DEF StopInv

(* A decision that is not tracked leaves no active episode behind, for any *)
(* number of candidates, pages and tasks, unless it fell into the          *)
(* synchronisation of an earlier one on the same symbol.                   *)
THEOREM StopsLeaveNoEpisode == Spec => []StoppedHasNoEpisode
<1>1. Init => StopInv
  BY InitStops
<1>2. Base /\ EpisodeInv /\ StopInv /\ [Next]_vars => StopInv'
  BY StepStops
<1>3. StopInv => StoppedHasNoEpisode
  BY DEF StopInv
<1> QED
  BY <1>1, <1>2, <1>3, TrackingTypes, Episodes, PTL DEF Spec

-----------------------------------------------------------------------------
(* An id that no episode has yet has no checkpoints.                       *)
UnusedIds == \A t \in TrackIds, x \in Points : ~Exists(t) => cp[t][x] = "none"

(* What a coroutine read of the tables: episodes are never deleted.  The   *)
(* collectors alone hold checkpoints, and the clock they read with them.   *)
ReadsHold ==
  \A p \in Procs :
    /\ \A t \in proc[p].rows : Exists(t)
    /\ \A y \in proc[p].due : Exists(y[1]) /\ proc[p].now <= clock
    /\ proc[p].pc # "group" => proc[p].due = {}

(* Nobody who holds a checkpoint that was captured in time can find it too *)
(* late.                                                                   *)
TimelyInv ==
  \A y \in timely :
    /\ cp[y[1]][y[2]] = "captured"
    /\ \A p \in Procs : y \in proc[p].due => ~TooLate(y[1], y[2], proc[p].now)

CaptureInv == UnusedIds /\ ReadsHold /\ TimelyInv

(* The clock runs, and nobody but a capture records a timely one.          *)
LEMMA ClockMoves ==
  ASSUME Base, [Next]_vars
  PROVE  /\ clock \in Nat /\ clock' \in Nat /\ clock <= clock'
         /\ timely' = timely \/ \E p \in Procs : CaptureGroup(p)
<1>1. clock \in Nat
  BY TrackingAssumption, SMTT(60) DEF Base, TypeOK
<1>2. ASSUME NEW p, \/ StartSync(p) \/ CreateTrack(p) \/ ReadThird(p) \/ ExtendThird(p)
                    \/ SelectDue(p) \/ CompleteTracks(p) \/ GroupFails(p) \/ Fails(p)
                    \/ EnsureCurrentTracks(p) \/ StartCapture(p)
      PROVE  UNCHANGED <<clock, timely>>
  BY <1>2 DEF StartSync, CreateTrack, ReadThird, ExtendThird, SelectDue, CompleteTracks,
              GroupFails, Fails, EnsureCurrentTracks, StartCapture
<1>3. ASSUME NEW p, CaptureGroup(p) PROVE clock' = clock
  BY <1>3 DEF CaptureGroup
<1>4. ASSUME NEW p, NEW c, NEW d, UpdateCandidate(p, c, d) PROVE UNCHANGED <<clock, timely>>
  BY <1>4 DEF UpdateCandidate
<1>5. ASSUME NEW h, Crash(h) PROVE UNCHANGED <<clock, timely>>
  BY <1>5 DEF Crash
<1>6. Tick => clock' = clock + 1 /\ timely' = timely
  BY DEF Tick
<1>7. UNCHANGED vars => UNCHANGED <<clock, timely>>
  BY DEF vars
<1> QED
  BY <1>1, <1>2, <1>3, <1>4, <1>5, <1>6, <1>7 DEF Next, ProcStep

(* Rows are never deleted and keep their day, and a checkpoint changes for *)
(* what it is: "none" becomes pending, and only a collector that holds it  *)
(* captures it, or finds it too late by the clock it has read.             *)
LEMMA RowChanges ==
  ASSUME Base, CaptureInv, [Next]_vars
  PROVE  /\ \A t \in TrackIds : Exists(t) => Exists(t)' /\ track'[t].day = track[t].day
         /\ \A t \in TrackIds, x \in Points :
              \/ cp'[t][x] = cp[t][x]
              \/ cp[t][x] = "none" /\ Exists(t)'
              \/ \E p \in Procs :
                   /\ <<t, x>> \in proc[p].due
                   /\ \/ cp'[t][x] = "captured"
                      \/ cp'[t][x] = "missed" /\ TooLate(t, x, proc[p].now)
         /\ \A y \in timely' :
              y \in timely \/ (cp'[y[1]][y[2]] = "captured" /\ ~TooLate(y[1], y[2], clock))
<1> DEFINE Kept(t) == /\ track'[t].candidate = track[t].candidate
                      /\ track'[t].day = track[t].day
<1>1. \A t \in TrackIds : track[t] \in TrackRow
  BY DEF Base, TypeOK
<1>2. ASSUME NEW ts, track' = Deactivated(ts), cp' = cp
      PROVE  \A t \in TrackIds : Kept(t)
  BY <1>1, <1>2 DEF Deactivated, TrackRow
<1>3. ASSUME NEW p \in Procs, CreateTrack(p)
      PROVE  /\ \A t \in TrackIds : Exists(t) => Exists(t)' /\ track'[t].day = track[t].day
             /\ \A t \in TrackIds, x \in Points :
                  cp'[t][x] = cp[t][x] \/ (cp[t][x] = "none" /\ Exists(t)')
  <2> DEFINE new == [candidate |-> proc[p].call[1], decision |-> EpisodeDecision(p),
                     active |-> TRUE, completed |-> FALSE, day |-> proc[p].now]
             begun == [x \in Points |-> IF x[1] = 3 THEN "none" ELSE "pending"]
             closed(t) == IF t = proc[p].old \/ Rivals(proc[p].call[1], t)
                          THEN [track[t] EXCEPT !.active = FALSE] ELSE track[t]
  <2>1. PICK id \in TrackIds :
        /\ ~Exists(id)
        /\ track' = [t \in TrackIds |-> IF t = id THEN new
                      ELSE IF t = proc[p].old \/ Rivals(proc[p].call[1], t)
                           THEN [track[t] EXCEPT !.active = FALSE] ELSE track[t]]
        /\ cp' = [cp EXCEPT ![id] = begun]
    BY <1>3 DEF CreateTrack
  <2>2. proc[p].call[1] \in Candidates
    BY <1>3 DEF Base, TypeOK, CallKnown, CreateTrack, ProcRow
  <2>3. track'[id].candidate = proc[p].call[1]
    BY <2>1
  <2>4. Exists(id)'
    BY <2>2, <2>3, TrackingAssumption DEF Exists
  <2>5. \A t \in TrackIds \ {id} : Kept(t) /\ cp'[t] = cp[t]
    <3> SUFFICES ASSUME NEW t \in TrackIds \ {id}
                 PROVE  Kept(t) /\ cp'[t] = cp[t]
      OBVIOUS
    <3>1. track'[t] = closed(t)
      BY <2>1
    <3>2. track[t] \in TrackRow
      BY <1>1
    <3> QED
      BY <2>1, <3>1, <3>2 DEF TrackRow, Base, TypeOK
  <2>6. \A x \in Points : cp[id][x] = "none"
    BY <2>1 DEF CaptureInv, UnusedIds
  <2> QED
    BY <2>1, <2>4, <2>5, <2>6 DEF Exists
<1>4. ASSUME NEW p \in Procs, ExtendThird(p)
      PROVE  /\ \A t \in TrackIds : Kept(t)
             /\ \A t \in TrackIds, x \in Points :
                  cp'[t][x] = cp[t][x] \/ (cp[t][x] = "none" /\ Exists(t)')
  <2>1. \A t \in TrackIds : Kept(t)
    BY <1>1, <1>4 DEF ExtendThird, Reopen, TrackRow
  <2>2. \A t \in TrackIds, x \in Points :
          cp'[t][x] = cp[t][x] \/ (cp[t][x] = "none" /\ t \in proc[p].rows)
    BY <1>4 DEF ExtendThird
  <2>3. \A t \in proc[p].rows : Exists(t)
    BY DEF CaptureInv, ReadsHold
  <2> QED
    BY <2>1, <2>2, <2>3 DEF Exists
<1>5. ASSUME NEW p \in Procs, CaptureGroup(p)
      PROVE  /\ track' = track
             /\ \A t \in TrackIds, x \in Points :
                  \/ cp'[t][x] = cp[t][x]
                  \/ /\ <<t, x>> \in proc[p].due
                     /\ \/ cp'[t][x] = "captured"
                        \/ cp'[t][x] = "missed" /\ TooLate(t, x, proc[p].now)
             /\ \A y \in timely' :
                  y \in timely \/ (cp'[y[1]][y[2]] = "captured" /\ ~TooLate(y[1], y[2], clock))
  <2> DEFINE marked(g, got, bad) == [t \in TrackIds |-> [x \in Points |->
               IF <<t, x>> \in got THEN "captured"
               ELSE IF /\ <<t, x>> \in g \ bad
                       /\ TooLate(t, x, proc[p].now) THEN "missed"
               ELSE cp[t][x]]]
             intime(got) == timely \union {y \in got : ~TooLate(y[1], y[2], clock)}
  <2>1. PICK g \in SUBSET proc[p].due :
          \E got \in SUBSET g : \E bad \in SUBSET (g \ got) :
            cp' = marked(g, got, bad) /\ timely' = intime(got)
    BY <1>5, ZenonT(60) DEF CaptureGroup
  <2>2. PICK got \in SUBSET g : \E bad \in SUBSET (g \ got) :
          cp' = marked(g, got, bad) /\ timely' = intime(got)
    BY <2>1
  <2>3. PICK bad \in SUBSET (g \ got) : cp' = marked(g, got, bad) /\ timely' = intime(got)
    BY <2>2
  <2>4. ASSUME NEW t \in TrackIds, NEW x \in Points
        PROVE  \/ cp'[t][x] = cp[t][x]
               \/ /\ <<t, x>> \in g
                  /\ \/ cp'[t][x] = "captured"
                     \/ cp'[t][x] = "missed" /\ TooLate(t, x, proc[p].now)
    BY <2>3
  <2>5. ASSUME NEW y \in timely', y \notin timely
        PROVE  cp'[y[1]][y[2]] = "captured" /\ ~TooLate(y[1], y[2], clock)
    <3>1. y \in got /\ ~TooLate(y[1], y[2], clock)
      BY <2>3, <2>5
    <3>2. y \in TrackIds \X Points
      BY <3>1 DEF Base, TypeOK, ProcRow
    <3>3. y = <<y[1], y[2]>> /\ y[1] \in TrackIds /\ y[2] \in Points
      BY <3>2
    <3> HIDE DEF intime
    <3> QED
      BY <2>3, <3>1, <3>3
  <2>6. track' = track
    BY <1>5 DEF CaptureGroup
  <2> QED
    BY <2>4, <2>5, <2>6
<1>6. ASSUME NEW p \in Procs, CompleteTracks(p)
      PROVE  cp' = cp /\ \A t \in TrackIds : Kept(t)
  BY <1>1, <1>6 DEF CompleteTracks, TrackRow
<1>7. \A y \in timely' :
        y \in timely \/ (cp'[y[1]][y[2]] = "captured" /\ ~TooLate(y[1], y[2], clock))
  BY <1>5, ClockMoves
<1>8. ASSUME NEW t \in TrackIds, Exists(t)
      PROVE  Exists(t)' /\ track'[t].day = track[t].day
  <2>1. (\A u \in TrackIds : Kept(u)) => Exists(t)' /\ track'[t].day = track[t].day
    BY <1>8 DEF Exists
  <2>2. track' = track => Exists(t)' /\ track'[t].day = track[t].day
    BY <1>8 DEF Exists
  <2> HIDE DEF Kept
  <2> QED
    BY <1>2, <1>3, <1>4, <1>5, <1>6, <1>8, <2>1, <2>2, Effects
<1>9. ASSUME NEW t \in TrackIds, NEW x \in Points
      PROVE  \/ cp'[t][x] = cp[t][x]
             \/ cp[t][x] = "none" /\ Exists(t)'
             \/ \E p \in Procs :
                  /\ <<t, x>> \in proc[p].due
                  /\ \/ cp'[t][x] = "captured"
                     \/ cp'[t][x] = "missed" /\ TooLate(t, x, proc[p].now)
  <2> HIDE DEF Kept
  <2>1. ASSUME NEW p \in Procs, CaptureGroup(p)
        PROVE  \/ cp'[t][x] = cp[t][x]
               \/ /\ <<t, x>> \in proc[p].due
                  /\ \/ cp'[t][x] = "captured"
                     \/ cp'[t][x] = "missed" /\ TooLate(t, x, proc[p].now)
    BY <1>5, <2>1
  <2>2. ASSUME NEW p \in Procs, CreateTrack(p) \/ ExtendThird(p)
        PROVE  cp'[t][x] = cp[t][x] \/ (cp[t][x] = "none" /\ Exists(t)')
    BY <1>3, <1>4, <2>2
  <2> QED
    BY <1>2, <1>6, <2>1, <2>2, Effects
<1> QED
  BY <1>7, <1>8, <1>9

(* What a coroutine holds of the tables after a step it held before, with  *)
(* the clock it read then, or has just read.                               *)
LEMMA Reads ==
  ASSUME Base, ReadsHold, [Next]_vars, NEW q \in Procs
  PROVE  /\ \A t \in proc'[q].rows : t \in proc[q].rows \/ Exists(t)
         /\ \A y \in proc'[q].due :
              \/ y \in proc[q].due /\ proc'[q].now = proc[q].now
              \/ cp[y[1]][y[2]] = "pending" /\ proc'[q].now = clock
         /\ proc'[q].pc # "group" => proc'[q].due = {}
<1> DEFINE Held(row) ==
             /\ \A t \in row.rows : t \in proc[q].rows \/ Exists(t)
             /\ \A y \in row.due : \/ y \in proc[q].due /\ row.now = proc[q].now
                                   \/ cp[y[1]][y[2]] = "pending" /\ row.now = clock
             /\ row.pc # "group" => row.due = {}
<1>1. /\ Held(proc[q]) /\ Held(Idle) /\ proc[q] \in ProcRow
      /\ proc[q].pc # "group" => proc[q].due = {}
  BY DEF ReadsHold, Idle, Base, TypeOK
<1>2. Held(Onward(q))
  BY DEF Onward, Idle
<1>3. ASSUME NEW p \in Procs, NEW row, Become(p, row), p = q => Held(row)
      PROVE  Held(proc'[q])
  BY <1>1, <1>3 DEF Become, Base, TypeOK
<1>4. ASSUME NEW p \in Background, NEW c \in Candidates, NEW d \in Decisions,
             UpdateCandidate(p, c, d)
      PROVE  Held(proc'[q])
  <2>1. p \in Procs /\ Held([Idle EXCEPT !.pc = "sync", !.todo = {<<c, d>>}])
    BY DEF Procs, Idle
  <2>2. UNCHANGED proc \/ Become(p, [Idle EXCEPT !.pc = "sync", !.todo = {<<c, d>>}])
    BY <1>4 DEF UpdateCandidate
  <2> HIDE DEF Held
  <2> QED
    BY <1>1, <1>3, <2>1, <2>2
<1>5. ASSUME NEW p \in Pages, EnsureCurrentTracks(p)
      PROVE  Held(proc'[q])
  <2>1. p \in Procs /\ Held([Idle EXCEPT !.pc = "sync", !.todo = Untracked])
    BY DEF Procs, Idle
  <2> HIDE DEF Held
  <2> QED
    BY <1>3, <1>5, <2>1 DEF EnsureCurrentTracks
<1>6. ASSUME NEW p \in Collectors, StartCapture(p)
      PROVE  Held(proc'[q])
  <2>1. p \in Procs /\ Held([Idle EXCEPT !.pc = "third"])
    BY DEF Procs, Idle
  <2> HIDE DEF Held
  <2> QED
    BY <1>3, <1>6, <2>1 DEF StartCapture
<1>7. ASSUME NEW p \in Procs, StartSync(p)
      PROVE  Held(proc'[q])
  <2> DEFINE row(call) == [proc[p] EXCEPT !.todo = @ \ {call}, !.call = call, !.now = clock]
  <2>1. PICK call \in proc[p].todo :
          \/ Become(p, [row(call) EXCEPT !.pc = "third"])
          \/ \E t \in TrackIds : Become(p, [row(call) EXCEPT !.pc = "price", !.old = t])
          \/ Become(p, [row(call) EXCEPT !.pc = "price", !.old = 0])
    BY <1>7, ZenonT(60) DEF StartSync
  <2>2. p = q => /\ Held([row(call) EXCEPT !.pc = "third"])
                 /\ \A t : Held([row(call) EXCEPT !.pc = "price", !.old = t])
    BY <1>1, <1>7 DEF StartSync, ProcRow
  <2> HIDE DEF Held, row
  <2> QED
    BY <1>3, <2>1, <2>2, ZenonT(60)
<1>8. ASSUME NEW p \in Procs, CreateTrack(p)
      PROVE  Held(proc'[q])
  <2>1. p = q => Held([proc[p] EXCEPT !.pc = "third"])
    BY <1>1, <1>8 DEF CreateTrack, ProcRow
  <2> HIDE DEF Held
  <2> QED
    BY <1>3, <1>8, <2>1 DEF CreateTrack
<1>9. ASSUME NEW p \in Procs, ReadThird(p)
      PROVE  Held(proc'[q])
  <2> DEFINE rows == {t \in TrackIds : Exists(t) /\ \A k \in Kinds : cp[t][<<3, k>>] = "none"}
  <2>1. p = q => Held([proc[p] EXCEPT !.pc = "calendar", !.rows = rows])
    BY <1>1, <1>9 DEF ReadThird, ProcRow
  <2>2. \/ Become(p, Onward(p))
        \/ Become(p, [proc[p] EXCEPT !.pc = "calendar", !.rows = rows])
    BY <1>9 DEF ReadThird
  <2> HIDE DEF Held, rows
  <2> QED
    BY <1>2, <1>3, <2>1, <2>2
<1>10. ASSUME NEW p \in Procs, SelectDue(p)
       PROVE  Held(proc'[q])
  <2> DEFINE due == {y \in TrackIds \X Points : Due(y[1], y[2])}
  <2>1. p = q => Held([proc[p] EXCEPT !.pc = "group", !.due = due, !.now = clock])
    BY <1>1, <1>10 DEF SelectDue, ProcRow, Due
  <2>2. \/ Become(p, Idle)
        \/ Become(p, [proc[p] EXCEPT !.pc = "group", !.due = due, !.now = clock])
    BY <1>10 DEF SelectDue
  <2> HIDE DEF Held, due
  <2> QED
    BY <1>1, <1>3, <2>1, <2>2
<1>11. ASSUME NEW p \in Procs, CaptureGroup(p) \/ GroupFails(p)
       PROVE  Held(proc'[q])
  <2>1. PICK g \in SUBSET proc[p].due : Become(p, AfterGroup(p, g)) /\ proc[p].pc = "group"
    BY <1>11 DEF CaptureGroup, GroupFails
  <2>2. p = q => Held(AfterGroup(p, g))
    BY <1>1, <2>1 DEF AfterGroup, ProcRow
  <2> HIDE DEF Held
  <2> QED
    BY <1>3, <2>1, <2>2
<1>12. ASSUME NEW p \in Procs, \/ ExtendThird(p) /\ Become(p, Onward(p))
                               \/ CompleteTracks(p)
                               \/ Fails(p)
       PROVE  Held(proc'[q])
  <2>1. Become(p, Onward(p)) \/ Become(p, Idle)
    BY <1>12 DEF CompleteTracks, Fails
  <2> HIDE DEF Held
  <2> QED
    BY <1>1, <1>2, <1>3, <2>1
<1>13. ASSUME NEW h, Crash(h)
       PROVE  Held(proc'[q])
  BY <1>1, <1>13 DEF Crash
<1>14. ASSUME Tick \/ UNCHANGED vars
       PROVE  Held(proc'[q])
  BY <1>1, <1>14 DEF Tick, vars
<1>15. \A p \in Procs : ExtendThird(p) => Become(p, Onward(p))
  BY DEF ExtendThird
<1> HIDE DEF Held
<1>16. ASSUME NEW p \in Procs, ProcStep(p) \/ GroupFails(p) \/ Fails(p)
       PROVE  Held(proc'[q])
  BY <1>7, <1>8, <1>9, <1>10, <1>11, <1>12, <1>15, <1>16 DEF ProcStep
<1>17. Held(proc'[q])
  BY <1>4, <1>5, <1>6, <1>13, <1>14, <1>16 DEF Next
<1> QED
  BY <1>17 DEF Held

(* A checkpoint captured in time is too late for nobody who holds it: they *)
(* had all read the clock by then, and nobody selects it again.            *)
LEMMA StepCapture ==
  ASSUME Base, CaptureInv, [Next]_vars
  PROVE  CaptureInv'
<1>1. UnusedIds'
  <2> SUFFICES ASSUME NEW t \in TrackIds, NEW x \in Points, ~Exists(t)'
               PROVE  cp'[t][x] = "none"
    BY DEF UnusedIds
  <2>1. ~Exists(t) /\ cp[t][x] = "none"
    BY RowChanges DEF CaptureInv, UnusedIds
  <2>2. ASSUME NEW p \in Procs, <<t, x>> \in proc[p].due
        PROVE  FALSE
    BY <2>1, <2>2 DEF CaptureInv, ReadsHold
  <2> QED
    BY <2>1, <2>2, RowChanges
<1>2. /\ \A q \in Procs : proc[q] \in ProcRow /\ proc'[q] \in ProcRow
      /\ timely \subseteq TrackIds \X Points /\ timely' \subseteq TrackIds \X Points
  BY StepBase DEF Base, TypeOK
<1>3. \A y \in TrackIds \X Points : y = <<y[1], y[2]>> /\ y[1] \in TrackIds /\ y[2] \in Points
  OBVIOUS
<1>4. \A y \in TrackIds \X Points : cp[y[1]][y[2]] # "none" => Exists(y[1])
  BY <1>3 DEF CaptureInv, UnusedIds
<1>5. ReadsHold'
  <2> SUFFICES ASSUME NEW q \in Procs
               PROVE  /\ \A t \in proc'[q].rows : Exists(t)'
                      /\ \A y \in proc'[q].due : Exists(y[1])' /\ proc'[q].now <= clock'
                      /\ proc'[q].pc # "group" => proc'[q].due = {}
    BY DEF ReadsHold
  <2>1. ASSUME NEW t \in proc'[q].rows
        PROVE  Exists(t)'
    BY <1>2, <2>1, Reads, RowChanges DEF CaptureInv, ReadsHold, ProcRow
  <2>2. ASSUME NEW y \in proc'[q].due
        PROVE  Exists(y[1])' /\ proc'[q].now <= clock'
    <3>1. y \in TrackIds \X Points
      BY <1>2, <2>2 DEF ProcRow
    <3>2. Exists(y[1]) /\ proc'[q].now <= clock
      BY <1>4, <2>2, <3>1, Reads, ClockMoves DEF CaptureInv, ReadsHold
    <3>3. proc'[q].now \in Nat
      BY <1>2 DEF ProcRow
    <3> QED
      BY <1>3, <3>1, <3>2, <3>3, RowChanges, ClockMoves
  <2> QED
    BY <2>1, <2>2, Reads DEF CaptureInv
<1>6. TimelyInv'
  <2> SUFFICES ASSUME NEW y \in timely'
               PROVE  /\ cp'[y[1]][y[2]] = "captured"
                      /\ \A q \in Procs : y \in proc'[q].due =>
                           ~(track'[y[1]].day + y[2][1] < proc'[q].now)
    BY DEF TimelyInv, TooLate, Scheduled
  <2>0. y \in TrackIds \X Points /\ y = <<y[1], y[2]>> /\ y[1] \in TrackIds /\ y[2] \in Points
    BY <1>2, <1>3
  <2>1. CASE y \in timely
    <3>1. /\ cp[y[1]][y[2]] = "captured"
          /\ \A p \in Procs : y \in proc[p].due => ~TooLate(y[1], y[2], proc[p].now)
      BY <2>1 DEF CaptureInv, TimelyInv
    <3>2. cp'[y[1]][y[2]] = "captured"
      BY <2>0, <3>1, RowChanges
    <3>3. track'[y[1]].day = track[y[1]].day
      BY <1>4, <2>0, <3>1, RowChanges
    <3>4. ASSUME NEW q \in Procs, y \in proc'[q].due
          PROVE  ~(track'[y[1]].day + y[2][1] < proc'[q].now)
      <4>1. y \in proc[q].due /\ proc'[q].now = proc[q].now
        BY <3>1, <3>4, Reads DEF CaptureInv
      <4> QED
        BY <3>1, <3>3, <4>1 DEF TooLate, Scheduled
    <3> QED
      BY <3>2, <3>4
  <2>2. CASE y \notin timely
    <3>1. cp'[y[1]][y[2]] = "captured" /\ ~TooLate(y[1], y[2], clock)
      BY <2>2, RowChanges
    <3>2. ASSUME NEW q \in Procs, y \in proc'[q].due
          PROVE  ~(track'[y[1]].day + y[2][1] < proc'[q].now)
      <4>1. Exists(y[1]) /\ proc'[q].now <= clock
        BY <1>4, <2>0, <3>2, Reads, ClockMoves DEF CaptureInv, ReadsHold
      <4>2. track'[y[1]].day = track[y[1]].day
        BY <2>0, <4>1, RowChanges
      <4>3. track[y[1]].day \in Nat /\ y[2][1] \in Nat /\ proc'[q].now \in Nat
        BY <1>2, <2>0 DEF Base, TypeOK, TrackRow, ProcRow, Points
      <4> QED
        BY <3>1, <4>1, <4>2, <4>3, ClockMoves DEF TooLate, Scheduled
    <3> QED
      BY <3>1, <3>2
  <2> QED
    BY <2>1, <2>2
<1> QED
  BY <1>1, <1>5, <1>6 DEF CaptureInv

(* Nothing is read at the start, and the ids without episodes are empty.   *)
LEMMA InitCapture == Init => CaptureInv
<1> SUFFICES ASSUME Init PROVE CaptureInv
  OBVIOUS
<1>1. PICK done \in SUBSET Legacy :
        /\ track = [t \in TrackIds |->
             IF t \in Legacy
             THEN [candidate |-> t, decision |-> "pass", active |-> TRUE,
                   completed |-> t \in done, day |-> 0]
             ELSE NoTrack]
        /\ cp = [t \in TrackIds |-> [x \in Points |->
             IF t \notin Legacy \/ x[1] = 3 THEN "none"
             ELSE IF t \in done THEN "captured" ELSE "pending"]]
  BY DEF Init
<1>2. UnusedIds
  BY <1>1, TrackingAssumption DEF UnusedIds, Exists
<1>3. proc = [p \in Procs |-> Idle] /\ timely = {}
  BY DEF Init
<1> QED
  BY <1>2, <1>3 DEF CaptureInv, ReadsHold, TimelyInv, Idle

(* A checkpoint captured before it was too late is never taken back,       *)
(* however many collectors overlap and however long ago they selected what *)
(* they write.                                                             *)
THEOREM CapturesAreFinal == Spec => []CaptureIsFinal
<1>1. Init => CaptureInv
  BY InitCapture
<1>2. Base /\ CaptureInv /\ [Next]_vars => CaptureInv'
  BY StepCapture
<1>3. CaptureInv => CaptureIsFinal
  BY DEF CaptureInv, TimelyInv, CaptureIsFinal
<1> QED
  BY <1>1, <1>2, <1>3, TrackingTypes, PTL DEF Spec
=============================================================================
