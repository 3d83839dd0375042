-------------------------- MODULE TransactionTimer --------------------------
(***************************************************************************)
(* The deadline of a transaction: platform_timer, which every transaction  *)
(* of the main thread arms and stops, and checktime(), which the injected  *)
(* code of a contract calls in every loop and function.                    *)
(*                                                                         *)
(* Times are relative: what is left until a moment, which tick lowers.     *)
(* When the timer runs out, an expiration is posted, and handled in a step *)
(* of its own, before or after any step of the main thread: the signal of  *)
(* the POSIX timer goes to any thread of the process, and the asio         *)
(* fallback has a thread for it.                                           *)
(***************************************************************************)
EXTENDS Integers

CONSTANTS Limits,     \* the billable durations of transactions
          Deadlines,  \* the durations that callers allow, or Maximum
          Maximum,    \* fc::time_point::maximum(), larger than all times
          Second,     \* the timer of POSIX takes nanoseconds below a second only
          Wrap,       \* the time of 2^32 nanoseconds, 4.3 seconds
          MaxPauses,  \* bound: the contracts that a transaction loads
          MaxPosted,  \* bound: the expirations on their way at a time
          Posix       \* the timer is the one of POSIX

\* No time is above Maximum, and a second of nanoseconds is less than half of what an int
\* tells apart.
TimesInOrder ==
    /\ Maximum \in Nat /\ MaxPauses \in Int /\ MaxPosted \in Nat
    /\ Second \in 1 .. Maximum /\ Wrap \in Nat /\ 2 * Second < Wrap
    /\ Limits \subseteq 0 .. Maximum /\ Deadlines \subseteq 0 .. Maximum

VARIABLES pc,       \* where the main thread is
          trx,      \* the transaction
          expired,  \* platform_timer::expired
          armed,    \* what is left until the timer runs out, or Off
          posted,   \* the expirations that were not handled yet
          raced     \* an expiration of an earlier start() was on its way when the flag was
                    \* cleared last

vars == <<pc, trx, expired, armed, posted, raced>>

Off == -1

Least(a, b) == IF a < b THEN a ELSE b

\* _deadline: what is left of it.  A transaction of a block that is validated
\* (explicit_billed_cpu_time) only has the deadline of the caller.
deadline(t) == IF t.explicit THEN t.caller ELSE Least(t.billable, t.caller)

\* (int)x.count() * 1000, the nanoseconds of x in an int: below zero, zero or smaller than
\* x when they do not fit.  The fallback takes microseconds, which fit.
nanoseconds(x) == IF Posix THEN ((x + (Wrap \div 2)) % Wrap) - (Wrap \div 2) ELSE x

Init ==
    /\ pc = "idle" /\ expired = TRUE /\ armed = Off /\ posted = 0 /\ raced = FALSE
    /\ trx = [billable |-> 0, caller |-> 0, explicit |-> FALSE, paused |-> FALSE,
              pauses |-> 0, long |-> FALSE, x |-> 0]

\* An expiration is on its way, or will be of a timer that stop() found expired.
OnItsWay == posted > 0 \/ (armed # Off /\ raced)

-----------------------------------------------------------------------------
(* The main thread.                                                        *)

\* transaction_checktime_timer(timer) of a new transaction.
begin ==
    /\ pc = "idle"
    /\ \E l \in Limits, d \in Deadlines, e \in BOOLEAN :
          trx' = [billable |-> l, caller |-> d, explicit |-> e, paused |-> FALSE,
                  pauses |-> MaxPauses, long |-> FALSE, x |-> 0]
    /\ expired' = FALSE /\ raced' = OnItsWay
    /\ pc' = "init"
    /\ UNCHANGED <<armed, posted>>

\* The call of checktime() in init().
init ==
    /\ pc = "init"
    /\ pc' = IF expired THEN "destroy" ELSE "start"
    /\ UNCHANGED <<trx, expired, armed, posted, raced>>

\* platform_timer::start until the timer is set.
start ==
    /\ pc = "start"
    /\ LET x == deadline(trx)
       IN  \/ /\ x = Maximum \/ x = 0
              /\ expired' = (x = 0) /\ pc' = "running" /\ trx' = [trx EXCEPT !.long = FALSE]
           \/ /\ x \notin {0, Maximum}
              /\ expired' = FALSE /\ pc' = "set"
              /\ trx' = [trx EXCEPT !.x = x, !.long = Posix /\ x >= Second]
    /\ raced' = OnItsWay
    /\ UNCHANGED <<armed, posted>>

\* What timer_settime takes; an int holds no two seconds.
valid(x) == ~Posix \/ nanoseconds(x) \in 0 .. Second - 1

\* Mistake: that timer_settime failed goes unnoticed.
set_unchecked ==
    /\ pc = "set"
    /\ armed' = IF ~valid(trx.x) THEN armed
               ELSE IF nanoseconds(trx.x) = 0 THEN Off ELSE nanoseconds(trx.x)
    /\ pc' = "running"
    /\ UNCHANGED <<trx, expired, posted, raced>>

\* timer_settime, which may fail and for which zero is no time, or expires_after and
\* async_wait.
set ==
    /\ pc = "set"
    /\ \/ /\ valid(trx.x)
          /\ armed' = IF nanoseconds(trx.x) = 0 THEN Off ELSE nanoseconds(trx.x)
          /\ raced' = (posted > 0 \/ expired)
          /\ UNCHANGED expired
       \/ /\ ~valid(trx.x)
          /\ expired' = TRUE
          /\ UNCHANGED <<armed, raced>>
    /\ pc' = "running"
    /\ UNCHANGED <<trx, posted>>

\* A call of checktime() throws.
checktime ==
    /\ pc = "running" /\ expired
    /\ pc' = "destroy"
    /\ UNCHANGED <<trx, expired, armed, posted, raced>>

\* The transaction ends by itself.
finish == pc = "running" /\ pc' = "destroy" /\ UNCHANGED <<trx, expired, armed, posted, raced>>

\* A contract must be loaded, which is not billed.
pause_billing_timer ==
    /\ pc = "running" /\ ~trx.explicit /\ trx.pauses > 0
    /\ trx' = [trx EXCEPT !.paused = TRUE, !.pauses = @ - 1]
    /\ pc' = "pause"
    /\ UNCHANGED <<expired, armed, posted, raced>>

resume_billing_timer ==
    /\ pc = "paused"
    /\ trx' = [trx EXCEPT !.paused = FALSE]
    /\ pc' = "start"
    /\ UNCHANGED <<expired, armed, posted, raced>>

\* Mistake: stop() leaves the timer armed.
stop_without_disarm ==
    \E then \in {<<"pause", "paused">>, <<"destroy", "idle">>} :
        /\ pc = then[1] /\ expired' = TRUE /\ pc' = then[2]
        /\ UNCHANGED <<trx, armed, posted, raced>>

\* platform_timer::stop, called by pause_billing_timer and by the destructor: the timer
\* that did not run out is disarmed, ...
stop ==
    \E then \in {<<"pause", "paused">>, <<"destroy", "idle">>} :
        /\ pc = then[1]
        /\ IF expired THEN pc' = then[2] /\ UNCHANGED armed
           ELSE pc' = (IF then[1] = "pause" THEN "stop_paused" ELSE "stop") /\ armed' = Off
        /\ UNCHANGED <<trx, expired, posted, raced>>

\* ... and the flag set.
stopped ==
    /\ pc = "stop" \/ pc = "stop_paused"
    /\ expired' = TRUE
    /\ pc' = IF pc = "stop" THEN "idle" ELSE "paused"
    /\ UNCHANGED <<trx, armed, posted, raced>>

-----------------------------------------------------------------------------
(* Time and expirations.                                                   *)

Lower(t) == IF t \in {0, Maximum, Off} THEN t ELSE t - 1

tick ==
    /\ trx' = [trx EXCEPT !.caller = Lower(@), !.billable = IF trx.paused THEN @ ELSE Lower(@)]
    /\ armed' = Lower(armed)
    /\ UNCHANGED <<pc, expired, posted, raced>>

\* The timer runs out.
run_out ==
    /\ armed = 0 /\ posted < MaxPosted
    /\ armed' = Off /\ posted' = posted + 1
    /\ UNCHANGED <<pc, trx, expired, raced>>

\* No callback is registered: the only runtime of the build checks the flag.
sig_handler ==
    /\ posted > 0
    /\ posted' = posted - 1 /\ expired' = TRUE
    /\ UNCHANGED <<pc, trx, armed, raced>>

Running == init \/ start \/ set \/ checktime \/ resume_billing_timer \/ stop \/ stopped

Next == begin \/ finish \/ pause_billing_timer \/ Running \/ tick \/ run_out \/ sig_handler

\* Time passes, the timer runs out and is handled, and the main thread goes on: in a
\* contract that does not end by itself it keeps calling checktime().
Spec == Init /\ [][Next]_vars /\ WF_vars(Running) /\ WF_vars(tick) /\ WF_vars(run_out) /\ WF_vars(sig_handler)

-----------------------------------------------------------------------------
(* Properties.                                                             *)

\* A transaction with a deadline does not run for ever, however its expiration falls
\* between the steps of start(), stop() and checktime() and however often the billing
\* is paused.  The exception is a deadline whose nanoseconds are a multiple of 2^32.
Ends ==
    pc = "running" /\ deadline(trx) # Maximum /\ (trx.long => nanoseconds(trx.x) # 0)
        ~> pc \in {"destroy", "stop", "idle"}

\* checktime() throws before the deadline, which is less than a second away.
CutsEarly == (checktime \/ (init /\ expired)) /\ deadline(trx) # 0 /\ ~trx.long

\* checktime() throws at the deadline and not before, unless an expiration of an earlier
\* transaction, or of the time before a pause, was handled so late that the flag had
\* been cleared again: stop() then found a timer that had run out.  With the timer of
\* POSIX a deadline of a second or more is not held either.
NotBeforeDeadline == [][CutsEarly => raced]_vars
=============================================================================
