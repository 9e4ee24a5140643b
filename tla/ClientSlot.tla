----------------------------- MODULE ClientSlot -----------------------------
(***************************************************************************)
(* The connection manager as a user of its sessions meets it: what         *)
(* get_client hands out, and what becomes of the streams opened on it.     *)
(* A user may keep its client for as long as it likes.  The session it     *)
(* came from loses its API, then its socket, or is withdrawn; a withdrawn  *)
(* session's streams end when it is disconnected, which may be long after  *)
(* or not before its socket is.  Who withdraws, why, and what takes its    *)
(* place when is not said here.                                            *)
(*                                                                         *)
(* Connection with one user implements this (SessionUse.tla), and the pump *)
(* of Account.tla lives in it.                                             *)
(***************************************************************************)
VARIABLES
    conn,   \* the session on offer: "none", "live", "stale" (no API), "dead"
    hand    \* the user's client: "none", of the session on offer ("current"),
            \* closed, or withdrawn and not closed yet ("orphan")

vars == <<conn, hand>>

Init == conn = "none" /\ hand = "none"

(* A handshake later the session may no longer be what it was.             *)
Offered ==
    /\ conn = "none" /\ conn' \in {"live", "stale", "dead"}
    /\ UNCHANGED hand

TurnsStale ==
    /\ conn = "live" /\ conn' = "stale"
    /\ UNCHANGED hand

(* The socket goes, and the streams with it.  The slot still offers it.    *)
Dies ==
    /\ conn \in {"live", "stale"} /\ conn' = "dead"
    /\ hand' = IF hand = "current" THEN "closed" ELSE hand

(* The slot is emptied; the disconnect comes after.                        *)
Withdrawn ==
    /\ conn # "none" /\ conn' = "none"
    /\ hand' = IF hand = "current" THEN "orphan" ELSE hand

Closes ==
    /\ hand = "orphan" /\ hand' = "closed"
    /\ UNCHANGED conn

(* get_client, which also hands out a client whose socket is gone.         *)
GetClient ==
    /\ hand' = CASE conn = "none" -> "none"
                 [] conn = "dead" -> "closed"
                 [] OTHER -> "current"
    /\ UNCHANGED conn

(* The process ends, and a new one starts.                                 *)
Ends == conn' = "none" /\ hand' = "none"

Environment == Offered \/ TurnsStale \/ Dies \/ Withdrawn \/ Closes \/ Ends

Next == Environment \/ GetClient

Spec == Init /\ [][Next]_vars
=============================================================================
