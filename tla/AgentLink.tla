----------------------------- MODULE AgentLink ------------------------------
(***************************************************************************)
(* The agent's side of its connection: Run dials, serves a session with three  *)
(* goroutines (command loop, telemetry loop, policy sync) and dials again; the *)
(* command loop executes what the server sends and keeps one terminal, whose    *)
(* output a goroutine of its own sends.  Handlers write under rt.mu, the        *)
(* telemetry loop does not, and it alone sets a write deadline.                 *)
(***************************************************************************)
EXTENDS Naturals, FiniteSets

CONSTANTS
  MaxShell,    \* bound: terminals started
  MaxTrouble   \* bound: broken connections, refused dials, failing collections, deaf terminals, crashes

ASSUME LinkAssumption == MaxShell \in Nat /\ MaxTrouble \in Nat

VARIABLES
  run,      \* Run: "dial", "wait" (backoff), "serve", "join" (wg.Wait), "dead" (the process)
  sock,     \* the connection: "none", "good", "broken", "closed"
  wr,       \* its write side: "ok", "fatal" after a write that failed
  deadline, \* of the write side: "none", "ahead", "past"
  cmd,      \* command loop: "off", "read", "answer", "stdin" (writing to the terminal)
  tel,      \* telemetry loop: "off", "idle", "write"
  sync,     \* runMDMDeclarativeSyncLoop: "off", "idle", "fetch"
  tty,      \* ptyReadLoop of the session's terminal: "off", "read", "write"
  mu,       \* who holds rt.mu: Nobody, "cmd", "out"
  pty,      \* rt.ptySess, 0 for none
  shells,   \* terminals whose process lives, by number
  owned,    \* history: the terminals this session has started
  started,  \* terminals started so far
  deaf,     \* the terminal's program reads no input
  trouble

Nobody == ""

loops == <<cmd, tel, sync>>
term == <<tty, mu, pty, shells, owned, started, deaf>>
sockVars == <<sock, wr, deadline>>
linkVars == <<run, sockVars, loops, term, trouble>>

LinkInit ==
  /\ run = "dial" /\ sock = "none" /\ wr = "ok" /\ deadline = "none"
  /\ cmd = "off" /\ tel = "off" /\ sync = "off" /\ tty = "off" /\ mu = Nobody
  /\ pty = 0 /\ shells = {} /\ owned = {} /\ started = 0 /\ deaf = FALSE /\ trouble = 0

mishap == trouble < MaxTrouble /\ trouble' = trouble + 1

-----------------------------------------------------------------------------
(* Run                                                                      *)

\* The dial succeeds: a new runtime, and the loops are started; telemetry is sent at once.
Dial ==
  /\ run = "dial"
  /\ run' = "serve" /\ sock' = "good" /\ wr' = "ok" /\ deadline' = "none"
  /\ cmd' = "read" /\ tel' = "write" /\ sync' = "fetch"
  /\ tty' = "off" /\ mu' = Nobody /\ pty' = 0 /\ owned' = {}
  /\ UNCHANGED <<shells, started, deaf, trouble>>

DialFails == run = "dial" /\ mishap /\ run' = "wait" /\ UNCHANGED <<sockVars, loops, term>>

\* waitBackoff, nextWSBackoff
Backoff == run = "wait" /\ run' = "dial" /\ UNCHANGED <<sockVars, loops, term, trouble>>

\* cmdloop.Run has returned: sessCancel
EndCommands ==
  /\ run = "serve" /\ cmd = "off"
  /\ run' = "join" /\ UNCHANGED <<sockVars, loops, term, trouble>>

\* wg.Wait, conn.Close
Join ==
  /\ run = "join" /\ tel = "off" /\ sync = "off"
  /\ run' = "wait" /\ sock' = "closed" /\ UNCHANGED <<wr, deadline, loops, term, trouble>>

\* The connection breaks.
Break == sock = "good" /\ mishap /\ sock' = "broken" /\ UNCHANGED <<run, wr, deadline, loops, term>>

\* The process ends, with every terminal's master side; the service manager starts it anew.
Crash == run' = "dead" /\ cmd' = "off" /\ tel' = "off" /\ sync' = "off" /\ tty' = "off" /\ mu' = Nobody
         /\ pty' = 0 /\ shells' = {} /\ owned' = {} /\ deaf' = FALSE /\ sock' = "closed"
         /\ UNCHANGED <<wr, deadline, started>>
Kill == run # "dead" /\ mishap /\ Crash
Supervise == run = "dead" /\ run' = "dial" /\ UNCHANGED <<sockVars, loops, term, trouble>>

-----------------------------------------------------------------------------
(* Writing                                                                  *)

\* What a write to the connection does (gorilla/websocket): a deadline in the past fails it, and
\* a failed write fails all later ones.
writes == sock = "good" /\ wr = "ok" /\ deadline # "past"
written == wr' = IF writes THEN "ok" ELSE "fatal"

\* Fifteen seconds after a telemetry message
DeadlinePasses ==
  /\ deadline = "ahead"
  /\ deadline' = "past" /\ UNCHANGED <<run, sock, wr, loops, term, trouble>>

\* Mutant: the error of the write is only logged.
SendTelemetryOn ==
  /\ tel = "write"
  /\ deadline' = "ahead" /\ tel' = "idle"
  /\ wr' = (IF sock = "good" /\ wr = "ok" THEN "ok" ELSE "fatal")
  /\ UNCHANGED <<run, sock, cmd, sync, term, trouble>>

\* send of runTelemetryLoop: a new deadline, the write, and conn.Close when it fails
SendTelemetry ==
  /\ tel = "write"
  /\ deadline' = "ahead" /\ tel' = "idle"
  /\ IF sock = "good" /\ wr = "ok" THEN UNCHANGED <<sock, wr>> ELSE sock' = "closed" /\ wr' = "fatal"
  /\ UNCHANGED <<run, cmd, sync, term, trouble>>

\* The snapshot cannot be collected: nothing is sent this time.
CollectFails ==
  /\ tel = "write" /\ mishap
  /\ tel' = "idle" /\ UNCHANGED <<run, sockVars, cmd, sync, term>>

\* Two writers at once: the library panics when it notices.
Collide ==
  /\ tel = "write" /\ mu # Nobody /\ mishap
  /\ Crash

\* The ticker (or the kick channel), or the session's context has ended
TickTelemetry ==
  /\ tel = "idle"
  /\ tel' \in (IF run = "serve" THEN {"write"} ELSE {"write", "off"})
  /\ UNCHANGED <<run, sockVars, cmd, sync, term, trouble>>

SyncPolicy ==
  /\ sync = "fetch"
  /\ sync' = "idle" /\ UNCHANGED <<run, sockVars, cmd, tel, term, trouble>>
TickSync ==
  /\ sync = "idle"
  /\ sync' = (IF run = "serve" THEN "fetch" ELSE "off")
  /\ UNCHANGED <<run, sockVars, cmd, tel, term, trouble>>

-----------------------------------------------------------------------------
(* The command loop                                                         *)

\* ReadMessage
ReadFails ==
  /\ cmd = "read" /\ sock # "good"
  /\ cmd' = "off" /\ UNCHANGED <<run, sockVars, tel, sync, term, trouble>>

\* A command that is answered by its handler
Execute ==
  /\ cmd = "read" /\ sock = "good" /\ mu = Nobody
  /\ cmd' = "answer" /\ mu' = "cmd"
  /\ UNCHANGED <<run, sockVars, tel, sync, tty, pty, shells, owned, started, deaf, trouble>>

\* writeJSON of a handler; its error is logged.
Answer ==
  /\ cmd = "answer" /\ written
  /\ cmd' = "read" /\ mu' = Nobody
  /\ UNCHANGED <<run, sock, deadline, tel, sync, tty, pty, shells, owned, started, deaf, trouble>>

\* handlePTYStart closes the terminal before, starts one and its reader, and answers; when
\* none can be started the answer is pty_exit.
StartPTY ==
  /\ cmd = "read" /\ sock = "good" /\ mu = Nobody /\ started < MaxShell
  /\ \/ /\ started' = started + 1 /\ pty' = started + 1 /\ owned' = owned \cup {started + 1}
        /\ shells' = (shells \ {pty}) \cup {started + 1} /\ deaf' = FALSE /\ tty' = "read"
     \/ /\ pty' = 0 /\ shells' = shells \ {pty}
        /\ UNCHANGED <<started, owned, deaf, tty>>
  /\ cmd' = "answer" /\ mu' = "cmd"
  /\ UNCHANGED <<run, sockVars, tel, sync, trouble>>

\* handlePTYData writes to the terminal in the command loop.
WriteStdin ==
  /\ cmd = "read" /\ sock = "good" /\ pty # 0
  /\ cmd' = "stdin" /\ UNCHANGED <<run, sockVars, tel, sync, term, trouble>>
StdinTaken ==
  /\ cmd = "stdin" /\ (~deaf \/ pty \notin shells)
  /\ cmd' = "read" /\ UNCHANGED <<run, sockVars, tel, sync, term, trouble>>

\* handlePTYClose
ClosePTY ==
  /\ cmd = "read" /\ sock = "good" /\ pty # 0
  /\ shells' = shells \ {pty} /\ pty' = 0 /\ deaf' = FALSE
  /\ UNCHANGED <<run, sockVars, loops, tty, mu, owned, started, trouble>>

\* The program of the terminal stops reading, or reads again; it ends.
TurnDeaf == pty \in shells /\ ~deaf /\ mishap /\ deaf' = TRUE
            /\ UNCHANGED <<run, sockVars, loops, tty, mu, pty, shells, owned, started>>
Hears == deaf /\ deaf' = FALSE /\ UNCHANGED <<run, sockVars, loops, tty, mu, pty, shells, owned, started, trouble>>
ShellExits(s) == shells' = shells \ {s} /\ deaf' = (deaf /\ s # pty)
                 /\ UNCHANGED <<run, sockVars, loops, tty, mu, pty, owned, started, trouble>>

\* ptyReadLoop, which stands for the other goroutines that answer later, too: output, or the
\* end of the terminal, is sent under rt.mu; it returns after the end and after a failed write,
\* and the terminal is then read by nobody.
ReadOutput ==
  /\ tty = "read" /\ mu = Nobody
  /\ tty' = "write" /\ mu' = "out"
  /\ UNCHANGED <<run, sockVars, loops, pty, shells, owned, started, deaf, trouble>>
WriteOutput ==
  /\ tty = "write" /\ written
  /\ tty' = (IF writes /\ pty \in shells THEN "read" ELSE "off") /\ mu' = Nobody
  /\ UNCHANGED <<run, sock, deadline, loops, pty, shells, owned, started, deaf, trouble>>

LinkNext ==
  \/ Dial \/ DialFails \/ Backoff \/ EndCommands \/ Join \/ Break \/ Kill \/ Supervise
  \/ DeadlinePasses \/ SendTelemetry \/ CollectFails \/ Collide \/ TickTelemetry \/ SyncPolicy \/ TickSync
  \/ ReadFails \/ Execute \/ Answer \/ StartPTY \/ WriteStdin \/ StdinTaken \/ ClosePTY
  \/ TurnDeaf \/ Hears \/ (\E s \in shells : ShellExits(s)) \/ ReadOutput \/ WriteOutput

LinkSpec == LinkInit /\ [][LinkNext]_linkVars

-----------------------------------------------------------------------------

LinkTypeOK ==
  /\ run \in {"dial", "wait", "serve", "join", "dead"} /\ sock \in {"none", "good", "broken", "closed"}
  /\ cmd \in {"off", "read", "answer", "stdin"} /\ tel \in {"off", "idle", "write"}
  /\ sync \in {"off", "idle", "fetch"} /\ tty \in {"off", "read", "write"} /\ mu \in {Nobody, "cmd", "out"}
  /\ pty \in 0 .. started /\ shells \subseteq 1 .. started /\ started <= MaxShell
  /\ wr \in {"ok", "fatal"} /\ deadline \in {"none", "ahead", "past"} /\ trouble <= MaxTrouble

\* Sessions do not overlap: before Run dials, the loops of the session before have ended, so
\* one connection has one telemetry loop and one policy sync.  A session has one terminal: what
\* it started before is closed, and only ended sessions leave programs behind.
SessionsApart ==
  /\ run \in {"dial", "wait", "dead"} => cmd = "off" /\ tel = "off" /\ sync = "off"
  /\ owned \cap shells \subseteq {pty}

LinkInv == LinkTypeOK /\ SessionsApart

\* The agent serves a working connection, or its command loop waits for a terminal that reads no
\* input.
LinkServes == (run = "serve" /\ sock = "good" /\ wr = "ok") \/ (cmd = "stdin" /\ deaf)

\* "JSONWriter sends uplink JSON to the C2 server": writes fail only on a connection that is
\* broken or closed.
UplinkIsSent == wr = "fatal" => sock # "good"
=============================================================================
