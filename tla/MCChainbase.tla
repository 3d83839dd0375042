----------------------------- MODULE MCChainbase -----------------------------
(***************************************************************************)
(* chainbase for TLC.  A behaviour is one of a single index with its undo  *)
(* stack (UndoIndex), or of a database whose file is opened by programs    *)
(* with more and more indices, or by programs that may also know fewer     *)
(* (Database); the variables of the other one keep their initial values.   *)
(***************************************************************************)
EXTENDS UndoIndex

VARIABLES world, index, list, sessions, opening, phase, moments, opens

db == <<index, list, sessions, opening, phase, moments, opens>>

Upgraded == INSTANCE Database WITH Tables <- {1, 2, 3}, Value <- {1}, Empty <- 0,
                MaxRevision <- 2, MaxOpens <- 3, Downgrades <- FALSE

Downgraded == INSTANCE Database WITH Tables <- {1, 2}, Value <- {1, 2}, Empty <- 0,
                MaxRevision <- 2, MaxOpens <- 3, Downgrades <- TRUE

ASSUME NumberedTables ==
    Upgraded!TablesAreNumbers /\ Downgraded!TablesAreNumbers

MCInit ==
    /\ Init
    /\ \/ world \in {"index", "upgraded"} /\ Upgraded!Init
       \/ world = "downgraded" /\ Downgraded!Init

MCNext ==
    /\ \/ world = "index" /\ Next /\ UNCHANGED db
       \/ world = "upgraded" /\ Upgraded!Next /\ UNCHANGED vars
       \/ world = "downgraded" /\ Downgraded!Next /\ UNCHANGED vars
    /\ UNCHANGED world

MCSpec == MCInit /\ [][MCNext]_<<world, vars, db>>

\* database::start_undo_session, undo, squash, commit and add_index keep all the
\* indices at one revision; and as long as no program without some of the indices
\* used the file, undo() takes all of them back to the same moment, also when
\* starting a session failed half-way or an index was added to a file with an undo
\* stack.
SessionsAgree ==
    /\ world = "upgraded" => Upgraded!LockStep /\ Upgraded!OneMoment
    /\ world = "downgraded" => Downgraded!LockStep
=============================================================================
