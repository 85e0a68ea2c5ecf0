----------------------------- MODULE StateStore -----------------------------
(***************************************************************************)
(* What CLIENT_STATE expects of client_state.xml and its two companions: a *)
(* store that never loses the last write it reported as done.  A start may *)
(* also find a later value whose write was interrupted or has failed, but  *)
(* nothing older than the last completed write, and never a mixture.       *)
(***************************************************************************)
CONSTANTS
    Values,     \* states of the client that are written
    None        \* no value

VARIABLES
    acked,      \* the value of the last write that was reported as done
    maybe,      \* values whose write was begun since
    loaded      \* the value the last start has read, until the next write

storeVars == <<acked, maybe, loaded>>

StoreInit == acked = None /\ maybe = {} /\ loaded = None

\* A write of v is begun.
StoreBegin(v) ==
    /\ maybe' = maybe \cup {v} /\ loaded' = None
    /\ UNCHANGED acked

\* The write of v is reported as done.
StoreDone(v) ==
    /\ v \in maybe
    /\ acked' = v /\ maybe' = {}
    /\ UNCHANGED loaded

\* The client starts.
StoreRead ==
    /\ loaded' \in {acked} \cup maybe
    /\ UNCHANGED <<acked, maybe>>

StoreNext == (\E v \in Values : StoreBegin(v) \/ StoreDone(v)) \/ StoreRead

StoreSpec == StoreInit /\ [][StoreNext]_storeVars
=============================================================================
