------------------------------- MODULE Endpoint -------------------------------
(***************************************************************************)
(* The socket of the broker (internal/ipc: ipc.go, transport_unix.go): how *)
(* brokers of one user claim the path, serve at it, and clear it.          *)
(*                                                                         *)
(* listen asks whether the file exists, dials it, removes it when nobody   *)
(* answers, binds and listens; each is a system call of its own, and other *)
(* brokers start, stop and crash in between.  A socket belongs to the      *)
(* process that bound it; the path of one whose process is gone is stale.  *)
(* Removals go by the path, whoever's socket is there.  Every error of     *)
(* dialling, also of one that somebody listens to, reads as a stale socket.*)
(***************************************************************************)
EXTENDS Naturals

CONSTANTS
    Brokers,        \* broker processes
    NoSocket,       \* nothing is at the path
    Stale           \* a socket nobody listens to is at the path

VARIABLES
    socket,         \* the socket at the path: the broker that bound it
    pc,             \* pc[b]: where broker b is in Serve
    crowd           \* history: crowd[b]: brokers alive during the start of b, and
                    \* those whose dial b left unanswered

vars == <<socket, pc, crowd>>

Starting == {"stat", "dial", "remove", "bind", "bound"}
Listening == {"mode", "serve", "unlink", "giveup", "undo"}
Ending == {"removals", "lastremoval", "failed", "broken"}

\* In particular a socket at the path that is not stale is one that its broker
\* still holds: no exit but a kill leaves one behind.
TypeOK ==
    /\ socket \in Brokers \cup {NoSocket, Stale}
    /\ pc \in [Brokers -> {"off"} \cup Starting \cup Listening \cup Ending]
    /\ crowd \in [Brokers -> SUBSET Brokers]
    /\ socket \in Brokers => pc[socket] \in {"bound"} \cup Listening

Init ==
    /\ socket \in {NoSocket, Stale}
    /\ pc = [b \in Brokers |-> "off"]
    /\ crowd = [b \in Brokers |-> {}]

Goes(b, step) == pc' = [pc EXCEPT ![b] = step]
OthersAlive(b) == {c \in Brokers \ {b} : pc[c] # "off"}

-----------------------------------------------------------------------------
(***************************************************************************)
(* listen.                                                                 *)
(***************************************************************************)

\* Serve is called.
Start(b) ==
    /\ pc[b] = "off"
    /\ Goes(b, "stat")
    /\ crowd' = [c \in Brokers |->
                   IF c = b THEN OthersAlive(b)
                   ELSE IF pc[c] \in Starting THEN crowd[c] \cup {b}
                   ELSE crowd[c]]
    /\ UNCHANGED socket

\* os.Stat, after os.MkdirAll of the directory.  The seeded fault dials nobody
\* and clears the path whenever something is there.
StatClears(b) ==
    /\ pc[b] = "stat"
    /\ Goes(b, IF socket = NoSocket THEN "bind" ELSE "remove")
    /\ UNCHANGED <<socket, crowd>>
Stat(b) ==
    /\ pc[b] = "stat"
    /\ Goes(b, IF socket = NoSocket THEN "bind" ELSE "dial")
    /\ UNCHANGED <<socket, crowd>>

Answers(s) == s \in Brokers /\ pc[s] \in Listening

Unanswered(b) == [s \in Brokers |-> IF s = socket THEN crowd[s] \cup {b} ELSE crowd[s]]

\* "broker is already listening", or the dial fails: because nobody listens, or
\* though somebody does (its backlog is full, this process has no descriptor
\* left).  The seeded fault gives up at a socket that nobody listens to.
DialGivesUp(b) ==
    /\ pc[b] = "dial"
    /\ Goes(b, "failed")
    /\ UNCHANGED <<socket, crowd>>
Dial(b) ==
    /\ pc[b] = "dial"
    /\ \/ Answers(socket) /\ Goes(b, "failed") /\ UNCHANGED crowd
       \/ Goes(b, "remove") /\ crowd' = Unanswered(b)
    /\ UNCHANGED socket

\* os.Remove fails when another broker was faster.
Remove(b) ==
    /\ pc[b] = "remove"
    /\ Goes(b, IF socket = NoSocket THEN "failed" ELSE "bind")
    /\ socket' = NoSocket
    /\ UNCHANGED crowd

\* net.Listen: bind fails when a socket is there.
Bind(b) ==
    /\ pc[b] = "bind"
    /\ IF socket = NoSocket
       THEN socket' = b /\ Goes(b, "bound")
       ELSE UNCHANGED socket /\ Goes(b, "failed")
    /\ UNCHANGED crowd

\* The second half of net.Listen: from here on dialling it succeeds.
ListenOn(b) ==
    /\ pc[b] = "bound"
    /\ Goes(b, "mode")
    /\ UNCHANGED <<socket, crowd>>

\* os.Chmod of the path, then the accept loop.
SecureSocket(b) ==
    /\ pc[b] = "mode"
    /\ Goes(b, IF socket = NoSocket THEN "giveup" ELSE "serve")
    /\ UNCHANGED <<socket, crowd>>

\* os.MkdirAll, os.Remove, net.Listen or os.Chmod fails for a reason of its own.
\* A listen(2) that fails leaves the path that bind(2) made; after os.Chmod the
\* listener is closed.
Fault(b) ==
    /\ \/ pc[b] \in {"stat", "remove", "bind", "bound"} /\ Goes(b, "broken")
       \/ pc[b] = "mode" /\ Goes(b, "undo")
    /\ socket' = IF pc[b] = "bound" /\ socket = b THEN Stale ELSE socket
    /\ UNCHANGED crowd

-----------------------------------------------------------------------------
(***************************************************************************)
(* The end of Serve.                                                       *)
(***************************************************************************)

\* The context is done (a signal that came earlier waits until here), or
\* Accept failed.
Signal(b) ==
    /\ pc[b] = "serve"
    /\ Goes(b, "unlink")
    /\ UNCHANGED <<socket, crowd>>

\* net.UnixListener.Close: the path and the descriptor, which nobody reaches
\* without the path.  The seeded fault closes the descriptor only.
AfterClose(step) ==
    CASE step = "unlink" -> "removals" [] step = "giveup" -> "failed" [] step = "undo" -> "broken"
UnlinkNothing(b) ==
    /\ pc[b] \in {"unlink", "giveup", "undo"}
    /\ Goes(b, AfterClose(pc[b]))
    /\ UNCHANGED <<socket, crowd>>
Unlink(b) ==
    /\ pc[b] \in {"unlink", "giveup", "undo"}
    /\ socket' = NoSocket
    /\ Goes(b, AfterClose(pc[b]))
    /\ UNCHANGED crowd

\* os.Remove of the path by cleanupListener.Close, which both the goroutine
\* that waits for the context and the deferred call of Serve make.
RemoveAgain(b) ==
    /\ pc[b] \in {"removals", "lastremoval"}
    /\ socket' = NoSocket
    /\ Goes(b, IF pc[b] = "removals" THEN "lastremoval" ELSE "off")
    /\ UNCHANGED crowd

\* The process ends: after an error, or before the goroutine was scheduled.  The
\* seeded fault removes the path after an error, too.
ExitClears(b) ==
    /\ pc[b] \in {"lastremoval", "failed", "broken"}
    /\ Goes(b, "off")
    /\ socket' = IF pc[b] = "lastremoval" THEN socket ELSE NoSocket
    /\ UNCHANGED crowd
Exit(b) ==
    /\ pc[b] \in {"lastremoval", "failed", "broken"}
    /\ Goes(b, "off")
    /\ UNCHANGED <<socket, crowd>>

\* The process is killed at any moment: its socket is stale.
Kill(b) ==
    /\ pc[b] # "off"
    /\ Goes(b, "off")
    /\ socket' = IF socket = b THEN Stale ELSE socket
    /\ UNCHANGED crowd

-----------------------------------------------------------------------------

BrokerNext(b) ==
    \/ Stat(b)
    \/ Dial(b)
    \/ Remove(b)
    \/ Bind(b)
    \/ ListenOn(b)
    \/ SecureSocket(b)
    \/ Fault(b)
    \/ Signal(b)
    \/ Unlink(b)
    \/ RemoveAgain(b)
    \/ Exit(b)
    \/ Kill(b)

Next == \E b \in Brokers : Start(b) \/ BrokerNext(b)

Spec == Init /\ [][Next]_vars

-----------------------------------------------------------------------------
(***************************************************************************)
(* Properties.                                                             *)
(***************************************************************************)

\* A broker that serves, shared its start with no other broker and left no dial
\* unanswered has the path for as long as it serves, whatever brokers are
\* started, stopped or killed later: clients reach it.
ServesAtPath ==
    \A b \in Brokers : pc[b] \in {"mode", "serve"} /\ crowd[b] = {} => socket = b

\* A start fails only beside another broker, or for a fault of the system: what
\* a killed broker left at the path is cleared.
FailsBesideOthers == \A b \in Brokers : pc[b] = "failed" => crowd[b] # {}

\* The path of a broker that serves is taken away by its own death, or by a step
\* of a broker that was alive while it started (one still starting itself, or one
\* that ends and removes the path a second time) or that it did not answer; by no
\* broker that begins later and gets an answer, whatever errors that one meets.
TakenByCrowd ==
    \A b \in Brokers :
        socket = b /\ pc[b] \in {"mode", "serve"} /\ socket' # b =>
            pc'[b] = "off" \/ \E c \in crowd[b] : pc'[c] # pc[c]
OnlyCrowdTakes == [][TakenByCrowd]_vars
=============================================================================
