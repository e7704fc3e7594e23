------------------------------ MODULE RunLedger ------------------------------
(***************************************************************************)
(* What the cloud gateway promises about an evaluation run, with no        *)
(* thread, lock, condition variable or counter of requests in progress.    *)
(*                                                                         *)
(* A run is opened once, accepts inspection requests while it is open,     *)
(* settles every request it accepted as a success or a failure, is closed  *)
(* to new requests, and only when nothing is outstanding publishes one     *)
(* report that never changes.  A restart of the gateway forgets all runs,  *)
(* because they live in the memory of the process only.                    *)
(*                                                                         *)
(* GatewayRuns (cloud/gateway_server.py) is shown to implement it.         *)
(***************************************************************************)
EXTENDS Naturals

CONSTANTS RunIds,   \* identifiers of evaluation runs
          Sizes     \* sizes, in bytes, of an inspection request

VARIABLE ledger     \* ledger[r]: the account kept for run r

NothingCounted == [requests |-> 0, succeeded |-> 0, failed |-> 0, bytes |-> 0]

Unopened == [phase |-> "absent", outstanding |-> 0,
             requests |-> 0, succeeded |-> 0, failed |-> 0, bytes |-> 0,
             report |-> NothingCounted]

Totals(account) ==
    [requests |-> account.requests, succeeded |-> account.succeeded,
     failed |-> account.failed, bytes |-> account.bytes]

\* An account with nothing outstanding, after its report was made.
Reported(account) ==
    [phase |-> "finished", outstanding |-> 0,
     requests |-> account.requests, succeeded |-> account.succeeded,
     failed |-> account.failed, bytes |-> account.bytes,
     report |-> Totals(account)]

Opened == [Unopened EXCEPT !.phase = "active"]

Init == ledger = [r \in RunIds |-> Unopened]

-----------------------------------------------------------------------------

Open(r) ==
    /\ ledger[r].phase = "absent"
    /\ ledger' = [ledger EXCEPT ![r] = Opened]

\* Only an open run accepts a request.
Accept(r, n) ==
    LET account == ledger[r] IN
    /\ account.phase = "active"
    /\ ledger' = [ledger EXCEPT ![r] =
          [account EXCEPT !.outstanding = account.outstanding + 1,
                          !.requests = account.requests + 1,
                          !.bytes = account.bytes + n]]

\* A request that was accepted is settled, also after the run was closed.
Settle(r, success) ==
    LET account == ledger[r] IN
    /\ account.phase \in {"active", "finishing"}
    /\ account.outstanding > 0
    /\ ledger' = [ledger EXCEPT ![r] =
          [account EXCEPT
              !.outstanding = account.outstanding - 1,
              !.succeeded = account.succeeded + (IF success THEN 1 ELSE 0),
              !.failed = account.failed + (IF success THEN 0 ELSE 1)]]

Close(r) ==
    /\ ledger[r].phase = "active"
    /\ ledger' = [ledger EXCEPT ![r] = [ledger[r] EXCEPT !.phase = "finishing"]]

\* The report is complete: every accepted request is in it, with its outcome.
Publish(r) ==
    LET account == ledger[r] IN
    /\ account.phase = "finishing"
    /\ account.outstanding = 0
    /\ account.requests = account.succeeded + account.failed
    /\ ledger' = [ledger EXCEPT ![r] = Reported(account)]

Forget == ledger' = [r \in RunIds |-> Unopened]

Next ==
    \/ \E r \in RunIds :
          \/ Open(r)
          \/ Close(r)
          \/ Publish(r)
          \/ \E n \in Sizes : Accept(r, n)
          \/ \E succeeded \in BOOLEAN : Settle(r, succeeded)
    \/ Forget

Spec == Init /\ [][Next]_ledger

=============================================================================
