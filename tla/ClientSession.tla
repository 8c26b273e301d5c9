---------------------------- MODULE ClientSession ----------------------------
(********************************************************************************)
(* What the client relies on of a tunnel session, whatever its protocol (the    *)
(* interface clientSession of client_supervisor.go): once it is told to end,    *)
(* or ends of its own accord, it gives up the active transport and closes Done, *)
(* once; it shows no transport after that; and Close returns only when Done is  *)
(* closed and the session's workers are gone.  ClientSupervisor describes its   *)
(* sessions by these steps.                                                     *)
(********************************************************************************)
EXTENDS ClientState

VARIABLES
    life,       \* "open"; "ending" from the first Fail, Close or error; "over": Done is closed
    tied,       \* the session may report its transport to the client
    transport,  \* the transport the client shows
    working,    \* a worker runs that Close waits for
    returned    \* Close has returned

sessionVars == <<life, tied, transport, working, returned>>

Init ==
    /\ life = "open"
    /\ tied = TRUE
    /\ transport = NoTransport
    /\ working = FALSE
    /\ returned = FALSE

\* The session ends once, and not before the client has let go of its transport.
Ends ==
    \/ UNCHANGED life
    \/ life = "open" /\ life' = "ending"
    \/ life = "ending" /\ life' = "over" /\ ~tied'

\* The session reports a transport, until terminate or the client's own end
\* takes it away for good.
Reports ==
    \/ UNCHANGED <<tied, transport>>
    \/ tied /\ life # "over" /\ transport' \in Transports /\ UNCHANGED tied
    \/ tied' = FALSE /\ transport' = NoTransport

\* Workers start until Close has returned; the last one leaves only a session that is
\* ending, or a client that is closed.
Works ==
    \/ UNCHANGED working
    \/ working' = TRUE /\ ~returned
    \/ working' = FALSE /\ (life # "open" \/ ~tied)

Closes ==
    \/ UNCHANGED returned
    \/ returned' = TRUE /\ life = "over" /\ ~working /\ ~working'

\* One step of a goroutine may do several of these.
Next == Ends /\ Reports /\ Works /\ Closes

Spec == Init /\ [][Next]_sessionVars
=============================================================================
