----------------------------- MODULE UsageWindow -----------------------------
(***************************************************************************)
(* What the moving average of an account's usage really enforces.  The     *)
(* account is billed in the blocks of a sequence of slots; the average     *)
(* decays with the slots that passed; what get_account_cpu_limit says is   *)
(* available bounds what transaction_context::finalize bills.  NET works   *)
(* the same way.                                                           *)
(***************************************************************************)
EXTENDS ResourceLimits, FiniteSetsExt

CONSTANTS
    WindowSize,      \* account_cpu_usage_average_window, in slots: 172800, and the precision
                     \* is 10^6; with a longer window the rounding of a contribution would
                     \* be worth more than a unit
    Capacity,        \* the virtual limit of a block
    Weight, Total,   \* the account's weight, and the weight of all
    MaxSlot          \* bound: the slots of a behaviour

VARIABLES
    usage,    \* the account's usage_accumulator
    slot,     \* the slot of the pending block
    billed    \* history: what was billed in each of the last WindowSize slots

vars == <<usage, slot, billed>>

Init ==
    /\ usage = NoUsage
    /\ slot = 0
    /\ billed = [age \in 0..WindowSize-1 |-> 0]

MostInWindow == max_user_use_in_window(Capacity, WindowSize, Weight, Total)

\* update_account_usage: the average as of this slot
Updated == add(usage, 0, slot, WindowSize)

available(u) == get_account_limit(u.value_ex, Capacity, WindowSize, Weight, Total)

\* add_transaction_usage for this account
charged(u, units) ==
    {c \in add(u, units, slot, WindowSize) :
        used_within_share(c.value_ex, Capacity, WindowSize, Weight, Total)}

\* A transaction that bills no more than the account can pay
bill(units) ==
    /\ \E u \in Updated : \E most \in available(u) :
            /\ units <= most
            /\ usage' \in charged(u, units)
    /\ billed' = [billed EXCEPT ![0] = @ + units]
    /\ UNCHANGED slot

\* The next block, possibly after slots without one
next_block(slots) ==
    /\ slot + slots <= MaxSlot
    /\ slot' = slot + slots
    /\ billed' = [age \in DOMAIN billed |-> IF age >= slots THEN billed[age - slots] ELSE 0]
    /\ UNCHANGED usage

Next ==
    \/ \E units \in 1..MostInWindow : bill(units)
    \/ \E slots \in 1..WindowSize : next_block(slots)

Spec == Init /\ [][Next]_vars

----------------------------------------------------------------------------
\* Type invariant
TypeOK ==
    /\ usage.last_ordinal \in 0..slot
    /\ usage.value_ex \in 0..MaxUint /\ usage.consumed \in 0..MaxUint
    /\ slot \in 0..MaxSlot
    /\ billed \in [0..WindowSize-1 -> Nat]

\* "Should never fail" (transaction_context::finalize): whatever the account can
\* pay by get_account_cpu_limit, which rounds the usage up, add_transaction_usage
\* accepts, which adds a contribution rounded up and rounds the usage down.
ShouldNeverFail ==
    \A u \in Updated : \A most \in available(u) :
        \A units \in 0..most : charged(u, units) # {}

\* An account never gets more than twice its share out of a window: all of it
\* at once, and what the average forgets of it while the window lasts.
TwiceItsShare ==
    MapThenSumSet(LAMBDA age : billed[age], DOMAIN billed) <= 2 * MostInWindow
=============================================================================
