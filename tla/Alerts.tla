------------------------------- MODULE Alerts -------------------------------
(***************************************************************************)
(* AlertCorrelatorV1: the events of an alert are applied in the order of   *)
(* their versions; one that comes too early waits for a verified snapshot. *)
(* Events arrive in any order and more than once.                          *)
(***************************************************************************)
EXTENDS Naturals, Sequences

CONSTANTS
    Alert,
    MaxVersion  \* bound of the model: the versions of an alert

ASSUME AlertConstants == MaxVersion \in Nat

AlertStatus == {"ACTIVE", "ACKNOWLEDGED", "SUPPRESSED", "RESOLVED", "EXPIRED"}
AlertTerminal == {"RESOLVED", "EXPIRED"}

\* The inputs of the model: the handlers only tell terminal statuses apart.
ModelStatus == {"ACTIVE", "ACKNOWLEDGED", "RESOLVED"}

AlertVersion == 1..MaxVersion

NoStatus == "NONE"

VARIABLES
    lifecycle, \* _lifecycle: alert -> its version and status
    hashes,    \* _eventHashes: alert -> version -> the content applied
    gaps,      \* _pendingGaps: alert -> version -> the content that waits
    paused,    \* _gapPaused
    filled     \* history: the alerts a snapshot applied an event to

alertVars == <<lifecycle, hashes, gaps, paused, filled>>

\* The content of an event is its status; severity and keys only tell contents apart.
Contents == [Alert -> [AlertVersion -> AlertStatus \cup {NoStatus}]]

AlertTypeOK ==
    /\ lifecycle \in [Alert -> [version : 0..MaxVersion, status : AlertStatus \cup {NoStatus}]]
    /\ hashes \in Contents
    /\ gaps \in Contents
    /\ paused \subseteq Alert
    /\ filled \subseteq Alert

AlertInit ==
    /\ lifecycle = [a \in Alert |-> [version |-> 0, status |-> NoStatus]]
    /\ hashes = [a \in Alert |-> [v \in AlertVersion |-> NoStatus]]
    /\ gaps = [a \in Alert |-> [v \in AlertVersion |-> NoStatus]]
    /\ paused = {}
    /\ filled = {}

Tracked(a) == lifecycle[a].version # 0

\* validateAlert(): no event can be built that creates an alert in a terminal status.
Buildable(v, status) == status \in AlertTerminal => v > 1

SkipsNothing(a, v) == TRUE

\* The version is not beyond the next one; a first event has any version.
FollowsOn(a, v) == Tracked(a) => v <= lifecycle[a].version + 1

IsNotStale(a, v) == Tracked(a) => v >= lifecycle[a].version

EndedBefore(a, v) == lifecycle[a].status \in AlertTerminal /\ v > lifecycle[a].version

Apply(a, v, status) == lifecycle' = [lifecycle EXCEPT ![a] = [version |-> v, status |-> status]]

\* process(): duplicates, conflicts, lower versions and revivals change nothing.
Process(a, v, status) ==
    /\ Buildable(v, status)
    /\ hashes[a][v] = NoStatus
    /\ IsNotStale(a, v)
    /\ \/ /\ ~FollowsOn(a, v)
          /\ gaps' = [gaps EXCEPT ![a][v] = status]
          /\ paused' = paused \cup {a}
          /\ UNCHANGED <<lifecycle, hashes>>
       \/ /\ FollowsOn(a, v)
          /\ ~EndedBefore(a, v)
          /\ Apply(a, v, status)
          /\ hashes' = [hashes EXCEPT ![a][v] = status]
          /\ UNCHANGED <<gaps, paused>>
    /\ UNCHANGED filled

Waiting(a) == {v \in AlertVersion : gaps[a][v] # NoStatus}

\* applyVerifiedSnapshot(): what waits up to the verified version is applied in
\* order, so that the last of it stays, whatever was applied since it came.
ApplyVerifiedSnapshot(a, verified) ==
    /\ verified >= lifecycle[a].version
    /\ LET due == {v \in Waiting(a) : v <= verified}
       IN /\ gaps' = [gaps EXCEPT ![a] =
                         [v \in AlertVersion |-> IF v \in due THEN NoStatus ELSE @[v]]]
          /\ paused' = IF Waiting(a) = due THEN paused \ {a} ELSE paused
          /\ IF due = {}
             THEN UNCHANGED <<lifecycle, filled>>
             ELSE /\ \E last \in due :
                      (\A v \in due : v <= last) /\ Apply(a, last, gaps[a][last])
                  /\ filled' = filled \cup {a}
    /\ UNCHANGED hashes

AlertNext == \E a \in Alert, v \in AlertVersion :
    \/ \E status \in ModelStatus : Process(a, v, status)
    \/ ApplyVerifiedSnapshot(a, v)

AlertSpec == AlertInit /\ [][AlertNext]_alertVars

-----------------------------------------------------------------------------
\* Until a snapshot is applied to an alert, its versions were applied in turn, from
\* the first that came to the current one, each with the content on record, and none
\* followed a terminal status; and an alert is paused exactly while events wait.
AlertInTurn == \A a \in Alert :
    /\ a \in paused <=> Waiting(a) # {}
    /\ a \notin filled =>
        LET Applied == {v \in AlertVersion : hashes[a][v] # NoStatus}
        IN /\ \A v \in Applied :
               /\ v <= lifecycle[a].version
               /\ v < lifecycle[a].version =>
                   v + 1 \in Applied /\ hashes[a][v] \notin AlertTerminal
           /\ Tracked(a) =>
               /\ lifecycle[a].version \in Applied
               /\ hashes[a][lifecycle[a].version] = lifecycle[a].status

\* What AlertCorrelator.py says of an alert: RESOLVED and EXPIRED are final, and the
\* same alert does not come to life again.
AlertStaysTerminal ==
    [][\A a \in Alert : lifecycle[a].status \in AlertTerminal =>
        lifecycle'[a] = lifecycle[a]]_alertVars
=============================================================================
