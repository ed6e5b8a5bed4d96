-------------------------- MODULE DecisionTracking --------------------------
(***************************************************************************)
(* Review decisions and the outcome episodes they start.  A decision is    *)
(* committed by the web service at once; its episode (a row of             *)
(* or_decision_tracks with checkpoints on three sessions) is created by a  *)
(* background task that waits for prices and the market calendar, and by   *)
(* every page that loads /api/oversold/tracked.  Collectors, in the worker *)
(* and behind two routes, capture the checkpoints that are due.            *)
(*                                                                         *)
(* Coroutines of one process interleave only where they await, and one web *)
(* process serves the routes, so the reads before an await are one step    *)
(* and each transaction is one.  The clock counts sessions: the session    *)
(* with number n of an episode chosen at tick c is due at tick c + n, and  *)
(* two hours late one tick later.                                          *)
(***************************************************************************)
EXTENDS Integers, FiniteSets

CONSTANTS
  Candidates,      (* or_candidates.id values                              *)
  SymbolOf,        (* the symbol of each candidate                         *)
  Kinds,           (* checkpoint kinds of a session                        *)
  Background,      (* slots for the background tasks of update_candidate   *)
  Pages,           (* slots for requests of /api/oversold/tracked          *)
  Collectors,      (* capture_due_checkpoints invocations                  *)
  HostOf,          (* the process each of these runs in                    *)
  None,            (* SQL NULL                                             *)
  Legacy,          (* candidates with an episode from before day 3         *)
  DecisionsMade,   (* the decisions a run exercises                        *)
  Horizon,         (* bound: last tick of the clock                        *)
  MaxTracks,       (* bound: episodes                                      *)
  MaxDecisions,    (* bound: decisions per behaviour                       *)
  MaxCrashes,      (* bound: process crashes per behaviour                 *)
  MaxFaults        (* bound: failing calls per behaviour                   *)

Decisions == {"unreviewed", "watch", "investigate", "pass", "reject", "traded"}
TrackedDecisions == {"investigate", "pass"}
Procs     == Background \union Pages \union Collectors
Symbols   == {SymbolOf[c] : c \in Candidates}
TrackIds  == 1..MaxTracks

ASSUME TrackingAssumption ==
  /\ Candidates \subseteq Nat /\ IsFiniteSet(Candidates)
  /\ DOMAIN SymbolOf = Candidates
  /\ DOMAIN HostOf = Procs
  /\ None \notin Candidates /\ None \notin Candidates \X TrackedDecisions
  /\ Background \intersect Pages = {}
  /\ Collectors \intersect (Background \union Pages) = {}
  /\ Legacy \subseteq Candidates
  /\ \A c, e \in Legacy : SymbolOf[c] = SymbolOf[e] => c = e
  /\ \A c \in Legacy : c \in TrackIds
  /\ DecisionsMade \subseteq Decisions
  /\ Horizon \in Nat /\ (Legacy # {} => Horizon >= 2) /\ MaxTracks \in Nat /\ MaxDecisions \in Nat
  /\ MaxCrashes \in Nat /\ MaxFaults \in Nat

VARIABLES
  cand,        (* or_candidates: decision and reviewed_at                  *)
  crossed,     (* history: the symbols decided on during a synchronisation *)
  track,       (* or_decision_tracks                                       *)
  cp,          (* or_track_checkpoints                                     *)
  timely,      (* history: checkpoints captured before they were too late  *)
  proc,        (* locals of every coroutine                                *)
  clock,
  decisionsLeft, crashesLeft, faultsLeft

budgets == <<decisionsLeft, crashesLeft, faultsLeft>>
vars    == <<cand, crossed, track, cp, timely, proc, clock, budgets>>

-----------------------------------------------------------------------------
CandRow  == [decision : Decisions, reviewed : 0..MaxDecisions]  (* 0: NULL *)
TrackRow == [candidate : Candidates \union {None}, decision : TrackedDecisions,
             active : BOOLEAN, completed : BOOLEAN, day : 0..Horizon]
NoTrack  == [candidate |-> None, decision |-> "pass", active |-> FALSE,
             completed |-> FALSE, day |-> 0]

Points   == (1..3) \X Kinds
CpStatus == {"none", "pending", "captured", "missed"}

ProcPc   == {"idle", "sync", "price", "third", "calendar", "select", "group", "complete"}
ProcRow  == [pc : ProcPc,
             todo : SUBSET (Candidates \X TrackedDecisions),  (* calls to come *)
             call : (Candidates \X TrackedDecisions) \union {None},
             old : TrackIds \union {0},          (* the active track it read *)
             rows : SUBSET TrackIds,             (* ... the rows day 3 lacks *)
             due : SUBSET (TrackIds \X Points),  (* ... the due checkpoints  *)
             now : 0..Horizon]
Idle     == [pc |-> "idle", todo |-> {}, call |-> None, old |-> 0, rows |-> {},
             due |-> {}, now |-> 0]

Exists(t)     == track[t].candidate # None
SymbolOfT(t)  == SymbolOf[track[t].candidate]
Active(t)     == track[t].active
ActiveOf(s)   == {t \in TrackIds : Exists(t) /\ Active(t) /\ SymbolOfT(t) = s}

Explicit(s)   == {c \in Candidates : SymbolOf[c] = s /\ cand[c].decision # "unreviewed"}
(* ORDER BY reviewed_at DESC NULLS LAST, id DESC                           *)
Latest(s)     == {c \in Explicit(s) : \A e \in Explicit(s) :
                    \/ cand[c].reviewed > cand[e].reviewed
                    \/ cand[c].reviewed = cand[e].reviewed /\ c >= e}

SpendFault ==
  /\ faultsLeft > 0
  /\ faultsLeft' = faultsLeft - 1
  /\ UNCHANGED <<decisionsLeft, crashesLeft>>

Become(p, row) == proc' = [proc EXCEPT ![p] = row]

(* The episodes of before day 3 had two sessions, both over when the third *)
(* is introduced; some of these episodes are completed.                    *)
Start == IF Legacy = {} THEN 0 ELSE 2

Init ==
  /\ cand = [c \in Candidates |->
               [decision |-> IF c \in Legacy THEN "pass" ELSE "unreviewed", reviewed |-> 0]]
  /\ crossed = {}
  /\ \E done \in SUBSET Legacy :
       /\ track = [t \in TrackIds |->
            IF t \in Legacy
            THEN [candidate |-> t, decision |-> "pass", active |-> TRUE,
                  completed |-> t \in done, day |-> 0]
            ELSE NoTrack]
       /\ cp = [t \in TrackIds |-> [x \in Points |->
            IF t \notin Legacy \/ x[1] = 3 THEN "none"
            ELSE IF t \in done THEN "captured" ELSE "pending"]]
  /\ timely = {}
  /\ proc = [p \in Procs |-> Idle]
  /\ clock = Start
  /\ decisionsLeft = MaxDecisions /\ crashesLeft = MaxCrashes /\ faultsLeft = MaxFaults

-----------------------------------------------------------------------------
Deactivated(ts) ==
  [t \in TrackIds |-> IF t \in ts THEN [track[t] EXCEPT !.active = FALSE] ELSE track[t]]

EndedSameCandidate(c) == {t \in TrackIds : track[t].candidate = c /\ Active(t)}

(* The episodes ended by a decision on c that is not tracked.              *)
Ended(c) == ActiveOf(SymbolOf[c])

(* A call for the symbol is yet to be made, or waits for its price.        *)
Synchronising(s) ==
  \E p \in Procs :
    \/ \E call \in proc[p].todo : SymbolOf[call[1]] = s
    \/ proc[p].pc = "price" /\ SymbolOf[proc[p].call[1]] = s

(* PATCH /api/oversold/candidates/{id}.  A decision that is not tracked    *)
(* ends the symbol's episodes in the same transaction; one that is tracked *)
(* leaves them to a background task.                                       *)
UpdateCandidate(p, c, d) ==
  /\ p \in Background /\ proc[p].pc = "idle"
  /\ d \in DecisionsMade
  /\ decisionsLeft > 0 /\ decisionsLeft' = decisionsLeft - 1
  /\ cand' = [cand EXCEPT ![c] = [decision |-> d,
                                  reviewed |-> MaxDecisions - decisionsLeft + 1]]
  /\ crossed' = IF Synchronising(SymbolOf[c]) THEN crossed \union {SymbolOf[c]} ELSE crossed
  /\ IF d \in TrackedDecisions
     THEN /\ Become(p, [Idle EXCEPT !.pc = "sync", !.todo = {<<c, d>>}])
          /\ UNCHANGED track
     ELSE /\ track' = Deactivated(Ended(c))
          /\ UNCHANGED proc
  /\ UNCHANGED <<cp, timely, clock, crashesLeft, faultsLeft>>

LatestTracked ==
  {call \in Candidates \X TrackedDecisions :
     call[1] \in Latest(SymbolOf[call[1]]) /\ cand[call[1]].decision = call[2]}

UntrackedAnyDecision ==
  {call \in LatestTracked :
     ~\E t \in TrackIds : track[t].candidate = call[1] /\ Active(t)}

(* _ensure_current_tracks: latest decisions without their active episode.  *)
Untracked ==
  {call \in LatestTracked :
     ~\E t \in TrackIds : /\ track[t].candidate = call[1] /\ Active(t)
                         /\ track[t].decision = call[2]}

EnsureCurrentTracks(p) ==
  /\ p \in Pages /\ proc[p].pc = "idle"
  /\ Untracked # {}
  /\ Become(p, [Idle EXCEPT !.pc = "sync", !.todo = Untracked])
  /\ UNCHANGED <<cand, crossed, track, cp, timely, clock, budgets>>

-----------------------------------------------------------------------------
(* Where a coroutine goes when ensure_third_session_checkpoints returns: a *)
(* collector to its checkpoints, a synchronisation to the caller's next.   *)
Onward(p) ==
  IF p \in Collectors THEN [Idle EXCEPT !.pc = "select"]
  ELSE IF proc[p].todo = {} THEN Idle
  ELSE [Idle EXCEPT !.pc = "sync", !.todo = proc[p].todo]

(* sync_candidate_tracking, up to its first await: the candidate's active  *)
(* episode is read.  One that has the decision already only gets its notes.*)
StartSync(p) ==
  /\ proc[p].pc = "sync"
  /\ \E call \in proc[p].todo :
       LET active == {t \in TrackIds : track[t].candidate = call[1] /\ Active(t)}
           row    == [proc[p] EXCEPT !.todo = @ \ {call}, !.call = call, !.now = clock]
       IN \/ /\ \E t \in active : track[t].decision = call[2]
             /\ Become(p, [row EXCEPT !.pc = "third"])
          \/ /\ \E t \in active : track[t].decision # call[2]
                                  /\ Become(p, [row EXCEPT !.pc = "price", !.old = t])
          \/ active = {} /\ Become(p, [row EXCEPT !.pc = "price", !.old = 0])
  /\ UNCHANGED <<cand, crossed, track, cp, timely, clock, budgets>>

RivalsSameCandidate(c, t) == track[t].candidate = c /\ Active(t)

RereadDecision(p) == cand[proc[p].call[1]].decision

(* The decision of a new episode is the one it was called with.            *)
EpisodeDecision(p) == proc[p].call[2]

(* The trigger or_enforce_single_active_symbol: what an insert ends.       *)
Rivals(c, t) == Exists(t) /\ SymbolOfT(t) = SymbolOf[c] /\ Active(t)

(* ... and after the price and the calendar have arrived: the transaction  *)
(* ends the episode it read, inserts the new one with two sessions of      *)
(* checkpoints.  It looks at nothing again but what the trigger does.      *)
CreateTrack(p) ==
  LET c == proc[p].call[1] IN
  /\ proc[p].pc = "price"
  /\ \E id \in TrackIds :
       /\ ~Exists(id)
       /\ \A t \in TrackIds : t < id => Exists(t)
       /\ track' = [t \in TrackIds |->
            IF t = id THEN [candidate |-> c, decision |-> EpisodeDecision(p), active |-> TRUE,
                            completed |-> FALSE, day |-> proc[p].now]
            ELSE IF t = proc[p].old \/ Rivals(c, t) THEN [track[t] EXCEPT !.active = FALSE]
            ELSE track[t]]
       /\ cp' = [cp EXCEPT ![id] =
            [x \in Points |-> IF x[1] = 3 THEN "none" ELSE "pending"]]
  /\ Become(p, [proc[p] EXCEPT !.pc = "third"])
  /\ UNCHANGED <<cand, crossed, timely, clock, budgets>>

-----------------------------------------------------------------------------
(* ensure_third_session_checkpoints reads the episodes that lack day 3 ... *)
ReadThird(p) ==
  LET rows == {t \in TrackIds : Exists(t) /\ \A k \in Kinds : cp[t][<<3, k>>] = "none"} IN
  /\ proc[p].pc = "third"
  /\ Become(p, IF rows = {} THEN Onward(p)
               ELSE [proc[p] EXCEPT !.pc = "calendar", !.rows = rows])
  /\ UNCHANGED <<cand, crossed, track, cp, timely, clock, budgets>>

ReopenNever(row) == row
(* completed_at=NULL                                                       *)
Reopen(row) == [row EXCEPT !.completed = FALSE]

(* ... and once the calendar has answered for all of them, extends them.   *)
ExtendThird(p) ==
  /\ proc[p].pc = "calendar"
  /\ track' = [t \in TrackIds |->
                 IF t \in proc[p].rows THEN Reopen(track[t]) ELSE track[t]]
  /\ cp' = [t \in TrackIds |-> [x \in Points |->
              IF t \in proc[p].rows /\ x[1] = 3 /\ cp[t][x] = "none"
              THEN "pending" ELSE cp[t][x]]]
  /\ Become(p, Onward(p))
  /\ UNCHANGED <<cand, crossed, timely, clock, budgets>>

-----------------------------------------------------------------------------
StartCapture(p) ==
  /\ p \in Collectors /\ proc[p].pc = "idle"
  /\ Become(p, [Idle EXCEPT !.pc = "third"])
  /\ UNCHANGED <<cand, crossed, track, cp, timely, clock, budgets>>

Scheduled(t, x) == track[t].day + x[1]

Due(t, x)       == cp[t][x] = "pending" /\ Scheduled(t, x) <= clock

(* capture_due_checkpoints: the pending checkpoints that are due; without  *)
(* any it returns at once.                                                 *)
SelectDue(p) ==
  LET due == {y \in TrackIds \X Points : Due(y[1], y[2])} IN
  /\ proc[p].pc = "select"
  /\ Become(p, IF due = {} THEN Idle
               ELSE [proc[p] EXCEPT !.pc = "group", !.due = due, !.now = clock])
  /\ UNCHANGED <<cand, crossed, track, cp, timely, clock, budgets>>

(* The checkpoints of one scheduled_at, earliest first.                    *)
IsGroup(g, due) ==
  \E y \in due :
    /\ \A z \in due : Scheduled(y[1], y[2]) <= Scheduled(z[1], z[2])
    /\ g = {z \in due : /\ Scheduled(z[1], z[2]) = Scheduled(y[1], y[2])
                        /\ z[2][2] = y[2][2]}

AfterGroup(p, g) ==
  [proc[p] EXCEPT !.due = @ \ g, !.pc = IF proc[p].due = g THEN "complete" ELSE "group"]

TooLateNever(t, x, now)   == FALSE
(* Variant: the clock is read when the bars have arrived.                  *)
TooLateAtWrite(t, x, now) == Scheduled(t, x) < clock
(* Two hours after the checkpoint its bar is given up.                     *)
TooLate(t, x, now) == Scheduled(t, x) < now

(* The bars of a group arrive: a row with a bar is captured, one without   *)
(* waits or is missed, one with an unusable bar waits.  The UPDATEs check  *)
(* no status.                                                              *)
CaptureGroup(p) ==
  /\ proc[p].pc = "group"
  /\ \E g \in SUBSET proc[p].due :
       /\ IsGroup(g, proc[p].due)
       /\ \E got \in SUBSET g : \E bad \in SUBSET (g \ got) :
            /\ cp' = [t \in TrackIds |-> [x \in Points |->
                 IF <<t, x>> \in got THEN "captured"
                 ELSE IF /\ <<t, x>> \in g \ bad
                         /\ TooLate(t, x, proc[p].now) THEN "missed"
                 ELSE cp[t][x]]]
            /\ timely' = timely \union {y \in got : ~TooLate(y[1], y[2], clock)}
            /\ IF bad = {} THEN UNCHANGED budgets ELSE SpendFault
       /\ Become(p, AfterGroup(p, g))
  /\ UNCHANGED <<cand, crossed, track, clock>>

(* The request of a group fails: its rows keep waiting.                    *)
GroupFails(p) ==
  /\ proc[p].pc = "group"
  /\ SpendFault
  /\ \E g \in SUBSET proc[p].due :
       IsGroup(g, proc[p].due) /\ Become(p, AfterGroup(p, g))
  /\ UNCHANGED <<cand, crossed, track, cp, timely, clock>>

CompleteTracks(p) ==
  /\ proc[p].pc = "complete"
  /\ track' = [t \in TrackIds |->
       IF /\ \A x \in Points : cp[t][x] # "pending"
          /\ \E x \in Points : cp[t][x] # "none"
       THEN [track[t] EXCEPT !.completed = TRUE] ELSE track[t]]
  /\ Become(p, Idle)
  /\ UNCHANGED <<cand, crossed, cp, timely, clock, budgets>>

-----------------------------------------------------------------------------
(* A call fails and the exception ends one synchronisation, or the whole   *)
(* capture.                                                                *)
Fails(p) ==
  /\ proc[p].pc # "idle"
  /\ SpendFault
  /\ Become(p, IF p \in Collectors THEN Idle ELSE Onward(p))
  /\ UNCHANGED <<cand, crossed, track, cp, timely, clock>>

(* A process stops: its coroutines and its background tasks are gone.      *)
Crash(h) ==
  /\ crashesLeft > 0 /\ crashesLeft' = crashesLeft - 1
  /\ proc' = [p \in Procs |-> IF HostOf[p] = h THEN Idle ELSE proc[p]]
  /\ UNCHANGED <<cand, crossed, track, cp, timely, clock, decisionsLeft, faultsLeft>>

Tick ==
  /\ clock < Horizon
  /\ clock' = clock + 1
  /\ UNCHANGED <<cand, crossed, track, cp, timely, proc, budgets>>

ProcStep(p) ==
  \/ StartSync(p)
  \/ CreateTrack(p)
  \/ ReadThird(p)
  \/ ExtendThird(p)
  \/ SelectDue(p)
  \/ CaptureGroup(p)
  \/ CompleteTracks(p)

Next ==
  \/ \E p \in Background, c \in Candidates, d \in Decisions : UpdateCandidate(p, c, d)
  \/ \E p \in Pages : EnsureCurrentTracks(p)
  \/ \E p \in Collectors : StartCapture(p)
  \/ \E p \in Procs : ProcStep(p) \/ GroupFails(p) \/ Fails(p)
  \/ \E h \in {HostOf[p] : p \in Procs} : Crash(h)
  \/ Tick

Spec == Init /\ [][Next]_vars

(* Coroutines go on, an open page reloads every minute, the collectors are *)
(* started again and again, and time passes.                               *)
Fairness ==
  /\ \A p \in Procs : WF_vars(ProcStep(p))
  /\ \A p \in Pages : WF_vars(EnsureCurrentTracks(p))
  /\ \A p \in Collectors : WF_vars(StartCapture(p))
  /\ WF_vars(Tick)

FairSpec == Spec /\ Fairness

-----------------------------------------------------------------------------
(* Every row and every local variable stays in its domain.                 *)
TypeOK ==
  /\ cand \in [Candidates -> CandRow]
  /\ crossed \subseteq Symbols
  /\ track \in [TrackIds -> TrackRow]
  /\ cp \in [TrackIds -> [Points -> CpStatus]]
  /\ timely \subseteq TrackIds \X Points
  /\ proc \in [Procs -> ProcRow]
  /\ clock \in 0..Horizon
  /\ decisionsLeft \in 0..MaxDecisions
  /\ crashesLeft \in Nat /\ faultsLeft \in Nat

(* A symbol has at most one active episode, whichever of its candidates    *)
(* were decided on and however their synchronisations interleave.          *)
OneActiveEpisode ==
  \A t, u \in TrackIds :
    Active(t) /\ Active(u) /\ SymbolOfT(t) = SymbolOfT(u) => t = u

(* An episode counted as completed waits for no checkpoint: not even for   *)
(* those of day 3 that an old episode is given after it was completed.     *)
CompletedIsSettled ==
  \A t \in TrackIds : track[t].completed =>
    \A x \in Points : cp[t][x] # "pending"

(* A checkpoint captured before it was too late stays captured, although   *)
(* collectors overlap, write what they selected long ago and check no      *)
(* status: whoever still holds it had read the clock before that capture.  *)
(* (One captured later may become missed: a collector that selected it     *)
(* after its two hours, and is answered without its bar, overwrites it.)   *)
CaptureIsFinal == \A y \in timely : cp[y[1]][y[2]] = "captured"

(* Every checkpoint that comes due is captured or missed, in spite of      *)
(* failing requests and restarts.                                          *)
DueSettles ==
  \A t \in TrackIds, x \in Points :
    cp[t][x] = "pending" /\ Scheduled(t, x) < Horizon ~> cp[t][x] # "pending"

(* While a page is open, the latest decision on a symbol gets its episode  *)
(* if it is one that is tracked, whatever was interrupted.                 *)
TrackedIsFollowed ==
  \A c \in Candidates :
    <>[](/\ c \in Latest(SymbolOf[c])
         /\ cand[c].decision \in TrackedDecisions
         => \E t \in TrackIds : /\ track[t].candidate = c /\ Active(t)
                                /\ track[t].decision = cand[c].decision)

(* Unless a decision on the symbol fell into the synchronisation of an     *)
(* earlier one, a symbol whose latest decision is not tracked has no       *)
(* active episode: not for an earlier decision on the same candidate, nor  *)
(* for another candidate, nor from a page that was loaded in between.      *)
StoppedHasNoEpisode ==
  \A t \in TrackIds : Active(t) /\ SymbolOfT(t) \notin crossed =>
    \E c \in Latest(SymbolOfT(t)) : cand[c].decision \in TrackedDecisions

=============================================================================
