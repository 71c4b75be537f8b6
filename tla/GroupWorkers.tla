---------------------------- MODULE GroupWorkers ----------------------------
(***************************************************************************)
(* AccountGroupWorkerV1 and GroupWorkerPoolV1: fanOut() hands an event to  *)
(* the workers of all account groups in the threads of a pool; a worker    *)
(* calls the handlers of its accounts by rank and ends at the first that   *)
(* fails.  Another thread may stop a worker at any time.                   *)
(***************************************************************************)
EXTENDS Naturals, Sequences, FiniteSets

CONSTANTS
    Group,
    Account,
    AccountsByRank, \* group -> its accounts in ascending account_rank
    MaxWorkers,     \* the threads of the pool
    MaxFanOuts      \* bound of the model: the events

ASSUME GroupConstants ==
    /\ AccountsByRank \in [Group -> Seq(Account)]
    /\ \A g \in Group : AccountsByRank[g] # <<>>
    /\ MaxWorkers \in Nat \ {0}

VARIABLES
    groupState, \* _state of the worker
    failed,     \* _failedAccounts of the worker
    event,      \* the number of the event that is or was last fanned out
    unsent,     \* the groups fanOut() has yet to look at
    futures,    \* the groups it submitted to the pool, not yet started
    running,    \* group -> rank of the account its handler runs for, or 0
    handled,    \* history: group -> the <<event, rank of the account>> handled
    breaks,     \* history: group -> the <<event, rank of the account>> that failed
    turnedAway  \* history: the <<event, group>> skipped because the worker was stopped

groupVars == <<groupState, failed, event, unsent, futures, running, handled, breaks,
               turnedAway>>

GroupState == {"ACTIVE", "ISOLATED", "STOPPED"}

GroupTypeOK ==
    /\ groupState \in [Group -> GroupState]
    /\ failed \in [Group -> Seq(Account)]
    /\ event \in Nat
    /\ unsent \subseteq Group
    /\ futures \subseteq Group
    /\ running \in [Group -> Nat]
    /\ handled \in [Group -> Seq(Nat \X Nat)]
    /\ breaks \in [Group -> Seq(Nat \X Nat)]
    /\ turnedAway \subseteq Nat \X Group

GroupInit ==
    /\ groupState = [g \in Group |-> "ACTIVE"]
    /\ failed = [g \in Group |-> <<>>]
    /\ event = 0
    /\ unsent = {}
    /\ futures = {}
    /\ running = [g \in Group |-> 0]
    /\ handled = [g \in Group |-> <<>>]
    /\ breaks = [g \in Group |-> <<>>]
    /\ turnedAway = {}

Busy == {g \in Group : running[g] # 0}

AllAnswered == unsent = {} /\ futures = {} /\ Busy = {}

\* fanOut(): the next event; the previous call waited for every future.
FanOut ==
    /\ AllAnswered
    /\ event < MaxFanOuts
    /\ event' = event + 1
    /\ unsent' = Group
    /\ UNCHANGED <<groupState, failed, futures, running, handled, breaks, turnedAway>>

\* A group is submitted unless its worker is stopped; an isolated one is submitted.
SubmitGroup(g) ==
    /\ g \in unsent
    /\ unsent' = unsent \ {g}
    /\ IF groupState[g] = "STOPPED"
       THEN turnedAway' = turnedAway \cup {<<event, g>>} /\ UNCHANGED futures
       ELSE futures' = futures \cup {g} /\ UNCHANGED turnedAway
    /\ UNCHANGED <<groupState, failed, event, running, handled, breaks>>

\* processEvent() starts in a thread of the pool, and raises if the worker was
\* stopped in the meantime; fanOut() then goes on without its result.
StartGroup(g) ==
    /\ g \in futures
    /\ Cardinality(Busy) < MaxWorkers
    /\ futures' = futures \ {g}
    /\ IF groupState[g] = "STOPPED"
       THEN turnedAway' = turnedAway \cup {<<event, g>>} /\ UNCHANGED running
       ELSE running' = [running EXCEPT ![g] = 1] /\ UNCHANGED turnedAway
    /\ UNCHANGED <<groupState, failed, event, unsent, handled, breaks>>

NextRank(g) == IF running[g] < Len(AccountsByRank[g]) THEN running[g] + 1 ELSE 0

AccountHandled(g) ==
    /\ running[g] # 0
    /\ handled' = [handled EXCEPT ![g] = Append(@, <<event, running[g]>>)]
    /\ running' = [running EXCEPT ![g] = NextRank(g)]
    /\ UNCHANGED <<groupState, failed, event, unsent, futures, breaks, turnedAway>>

\* The loop over the accounts ends at a failure.
RankAfterFailure(g) == 0

\* A handler raises: the worker is isolated, whatever its state was.
AccountFails(g) ==
    /\ running[g] # 0
    /\ groupState' = [groupState EXCEPT ![g] = "ISOLATED"]
    /\ failed' = [failed EXCEPT ![g] = Append(@, AccountsByRank[g][running[g]])]
    /\ breaks' = [breaks EXCEPT ![g] = Append(@, <<event, running[g]>>)]
    /\ running' = [running EXCEPT ![g] = RankAfterFailure(g)]
    /\ UNCHANGED <<event, unsent, futures, handled, turnedAway>>

\* stop(), from any thread.
StopGroup(g) ==
    /\ groupState[g] # "STOPPED"
    /\ groupState' = [groupState EXCEPT ![g] = "STOPPED"]
    /\ UNCHANGED <<failed, event, unsent, futures, running, handled, breaks, turnedAway>>

GroupNext ==
    \/ FanOut
    \/ \E g \in Group :
        \/ SubmitGroup(g) \/ StartGroup(g)
        \/ AccountHandled(g) \/ AccountFails(g) \/ StopGroup(g)

GroupSpec == GroupInit /\ [][GroupNext]_groupVars

-----------------------------------------------------------------------------
Ranks(g) == 1..Len(AccountsByRank[g])

Holds(history, x) == \E k \in 1..Len(history) : history[k] = x

InTurn(history) == \A j, k \in 1..Len(history) : j < k =>
    \/ history[j][1] < history[k][1]
    \/ history[j][1] = history[k][1] /\ history[j][2] < history[k][2]

\* Group g is through with event e: it was turned away, or it handled the event for
\* the accounts below some rank, and that of this rank failed or there is none.
Through(g, e) ==
    IF <<e, g>> \in turnedAway
    THEN \A r \in Ranks(g) : ~Holds(handled[g], <<e, r>>) /\ ~Holds(breaks[g], <<e, r>>)
    ELSE \E end \in 1..(Len(AccountsByRank[g]) + 1) : \A r \in Ranks(g) :
             /\ Holds(handled[g], <<e, r>>) <=> r < end
             /\ Holds(breaks[g], <<e, r>>) <=> r = end

\* Between two calls of fanOut(), every group has handled every event in turn and
\* by rank, for all accounts or up to one that failed, but for the events it was
\* turned away from; the failures it records are those, in the order of the events;
\* and no failure or stop of a group touches what another group handled.
GroupsSeeEveryEvent ==
    AllAnswered => \A g \in Group :
        /\ InTurn(handled[g]) /\ InTurn(breaks[g])
        /\ failed[g] = [i \in 1..Len(breaks[g]) |-> AccountsByRank[g][breaks[g][i][2]]]
        /\ \A e \in 1..event : Through(g, e)
=============================================================================
