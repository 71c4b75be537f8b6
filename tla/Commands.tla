------------------------------ MODULE Commands ------------------------------
(***************************************************************************)
(* Command resources: CommandService over PostgresCommandStore, as the     *)
(* routes call it, and the constraints of the V2 migration it relies on.   *)
(* submit() looks the scope up, then inserts; transition() reads the       *)
(* record, then updates it where updated_ts is still the one it read.  Two *)
(* requests of a server, or two servers, take these steps in any order.    *)
(***************************************************************************)
EXTENDS Naturals

CONSTANTS
    Caller,     \* the requests in flight at a time
    Command,    \* command ids
    Scope,      \* principal, account, route and Idempotency-Key together
    Payload,
    MaxNow      \* bound of the model: the clock

ASSUME CommandConstants == MaxNow \in Nat

VARIABLES
    commands, \* command_records: id -> row
    calls,    \* caller -> what it read and has not written yet
    now,      \* datetime.now() of the servers
    receipts, \* history: what submit() answered
    answers   \* history: the <<command, status>> that transition() answered

commandVars == <<commands, calls, now, receipts, answers>>

CommandStatus == {"PENDING", "AUTHORIZING", "ACCEPTED", "RUNNING", "SUCCEEDED",
                  "FAILED", "CANCEL_REQUESTED", "CANCELLED"}

\* _COMMAND_FLOW.
CommandFlow == {
    <<"PENDING", "AUTHORIZING">>,
    <<"AUTHORIZING", "ACCEPTED">>,
    <<"ACCEPTED", "RUNNING">>,
    <<"ACCEPTED", "CANCEL_REQUESTED">>,
    <<"RUNNING", "SUCCEEDED">>,
    <<"RUNNING", "FAILED">>,
    <<"RUNNING", "CANCEL_REQUESTED">>,
    <<"CANCEL_REQUESTED", "CANCELLED">>}

Submission == [scope : Scope, command : Command, payload : Payload]

Row == [scope : Scope, payload : Payload, status : CommandStatus, updated : Nat]
NoRow == [status |-> "NONE"]

Idle == [step |-> "idle"]
Creating == [step : {"create"}, row : Row, command : Command]
Updating == [step : {"update"}, row : Row, command : Command, read : Nat]

CommandTypeOK ==
    /\ commands \in [Command -> Row \cup {NoRow}]
    /\ calls \in [Caller -> Creating \cup Updating \cup {Idle}]
    /\ now \in Nat
    /\ receipts \subseteq Submission
    /\ answers \subseteq Command \X CommandStatus

CommandInit ==
    /\ commands = [i \in Command |-> NoRow]
    /\ calls = [c \in Caller |-> Idle]
    /\ now = 0
    /\ receipts = {}
    /\ answers = {}

Known(i) == commands[i] # NoRow
Stored == {i \in Command : Known(i)}

CommandTick ==
    /\ now < MaxNow
    /\ now' = now + 1
    /\ UNCHANGED <<commands, calls, receipts, answers>>

-----------------------------------------------------------------------------
(* submit().                                                               *)

Receipt(i) == [scope |-> commands[i].scope, command |-> i, payload |-> commands[i].payload]

\* findByIdempotencyScope() finds the command: the same payload is answered with
\* it, another one with IDEMPOTENCY_CONFLICT, which changes nothing.
SubmitAgain(c, s, p) ==
    /\ calls[c] = Idle
    /\ \E i \in Stored :
        /\ commands[i].scope = s /\ commands[i].payload = p
        /\ receipts' = receipts \cup {Receipt(i)}
    /\ UNCHANGED <<commands, calls, now, answers>>

\* It finds none: the record is built.
SubmitNew(c, i, s, p) ==
    /\ calls[c] = Idle
    /\ \A j \in Stored : commands[j].scope # s
    /\ calls' = [calls EXCEPT ![c] =
           [step |-> "create", command |-> i,
            row |-> [scope |-> s, payload |-> p, status |-> "PENDING", updated |-> now]]]
    /\ UNCHANGED <<commands, now, receipts, answers>>

UniqueId(i, row) == ~Known(i)

\* The primary key and the unique index on the scope.
Unique(i, row) == ~Known(i) /\ \A j \in Stored : commands[j].scope # row.scope

\* create(): a violated constraint escapes as CommandStoreError, without a receipt.
Create(c) ==
    /\ calls[c].step = "create"
    /\ LET i == calls[c].command
           row == calls[c].row
       IN IF Unique(i, row)
          THEN /\ commands' = [commands EXCEPT ![i] = row]
               /\ receipts' = receipts \cup
                      {[scope |-> row.scope, command |-> i, payload |-> row.payload]}
          ELSE UNCHANGED <<commands, receipts>>
    /\ calls' = [calls EXCEPT ![c] = Idle]
    /\ UNCHANGED <<now, answers>>

-----------------------------------------------------------------------------
(* transition().                                                           *)

\* The record is read and moved on; an illegal move raises and changes nothing.
TransitionRead(c, i, target) ==
    /\ calls[c] = Idle
    /\ Known(i)
    /\ <<commands[i].status, target>> \in CommandFlow
    /\ calls' = [calls EXCEPT ![c] =
           [step |-> "update", command |-> i, read |-> commands[i].updated,
            row |-> [commands[i] EXCEPT !.status = target, !.updated = now]]]
    /\ UNCHANGED <<commands, now, receipts, answers>>

FreshByTrigger(i, call) == call.row.updated > commands[i].updated

\* WHERE updated_ts = the one read, and the trigger: updated_ts only grows.
Fresh(i, call) ==
    /\ commands[i].updated = call.read
    /\ call.row.updated > commands[i].updated

TransitionWriteUnchecked(c) ==
    /\ calls[c].step = "update"
    /\ LET i == calls[c].command
       IN /\ commands' = IF Fresh(i, calls[c])
                         THEN [commands EXCEPT ![i] = calls[c].row] ELSE commands
          /\ answers' = answers \cup {<<i, calls[c].row.status>>}
    /\ calls' = [calls EXCEPT ![c] = Idle]
    /\ UNCHANGED <<now, receipts>>

\* update(): no row, or the trigger's exception, is CommandStoreError.
TransitionWrite(c) ==
    /\ calls[c].step = "update"
    /\ LET i == calls[c].command
       IN IF Fresh(i, calls[c])
          THEN /\ commands' = [commands EXCEPT ![i] = calls[c].row]
               /\ answers' = answers \cup {<<i, calls[c].row.status>>}
          ELSE UNCHANGED <<commands, answers>>
    /\ calls' = [calls EXCEPT ![c] = Idle]
    /\ UNCHANGED <<now, receipts>>

\* The server stops between the two steps of a call: nothing was written.
Abandon(c) ==
    /\ calls[c] # Idle
    /\ calls' = [calls EXCEPT ![c] = Idle]
    /\ UNCHANGED <<commands, now, receipts, answers>>

CommandNext ==
    \/ CommandTick
    \/ \E c \in Caller :
        \/ \E s \in Scope, p \in Payload :
            SubmitAgain(c, s, p) \/ \E i \in Command : SubmitNew(c, i, s, p)
        \/ \E i \in Command, target \in CommandStatus : TransitionRead(c, i, target)
        \/ Create(c) \/ TransitionWrite(c) \/ Abandon(c)

CommandSpec == CommandInit /\ [][CommandNext]_commandVars

-----------------------------------------------------------------------------
\* Idempotency: whatever the requests do to each other, a scope has one command,
\* and every receipt submit() gave for the scope names it and its payload.
Register == INSTANCE SubmissionRegister WITH written <- {Receipt(i) : i \in Stored}

SubmissionsRegistered == Register!RegisterSpec

\* The status of a stored command moves along the flow only, and its identity stays,
\* though the record written was built from one read earlier.
CommandMovesAlongFlow ==
    [][\A i \in Command : Known(i) /\ commands'[i] # commands[i] =>
        /\ <<commands[i].status, commands'[i].status>> \in CommandFlow
        /\ commands'[i].scope = commands[i].scope
        /\ commands'[i].payload = commands[i].payload]_commandVars

\* The statuses a command may have once it was in a status.
Onward == [
    PENDING |-> CommandStatus,
    AUTHORIZING |-> CommandStatus \ {"PENDING"},
    ACCEPTED |-> CommandStatus \ {"PENDING", "AUTHORIZING"},
    RUNNING |-> CommandStatus \ {"PENDING", "AUTHORIZING", "ACCEPTED"},
    SUCCEEDED |-> {"SUCCEEDED"},
    FAILED |-> {"FAILED"},
    CANCEL_REQUESTED |-> {"CANCEL_REQUESTED", "CANCELLED"},
    CANCELLED |-> {"CANCELLED"}]

\* What a caller was told stands: a command whose cancellation was accepted does
\* not succeed, and one reported as succeeded is not cancelled, though both
\* callers may have read it while it ran.
CommandAnswersStand ==
    \A a \in answers : Known(a[1]) /\ commands[a[1]].status \in Onward[a[2]]
=============================================================================
