-------------------------- MODULE HostResourceGate --------------------------
(***************************************************************************)
(* The lease that serialises expensive work on a host (withHostResource()  *)
(* of packages/executor/host-resource-gate.mjs).  Processes queue up with  *)
(* ticket files; the first in the queue takes the lease by linking its     *)
(* ticket to the name "lease"; waiters recover the lease of a dead owner.  *)
(* There is no server: each file operation is a step, and the processes    *)
(* interleave and crash between any two of them.                           *)
(*                                                                         *)
(* A process is a process group: production.mjs starts each task detached, *)
(* so that its children outlive it in a group of its own.                  *)
(***************************************************************************)
EXTENDS Naturals

CONSTANTS
  Procs,         \* processes, each with at most one invocation at a time
  Tokens,        \* the random tokens of a process's invocations
  ReusedInodes,  \* the file system gives a new file the number of a deleted one
  ReaperCrashes, \* a process may crash while it holds "lease.reaping"
  MaxCrashes,    \* bound on crashes, for TLC only
  None, Abandoned

ASSUME GateAssumption ==
  /\ {ReusedInodes, ReaperCrashes} \subseteq BOOLEAN
  /\ MaxCrashes \in Nat
  /\ None \notin Procs
  /\ Abandoned \notin Procs \cup {None}

\* Names in waiters/.  A file that is linked to "lease" is told by its first name.
Ticket == [proc : Procs, token : Tokens]

ASSUME NoneIsNoTicket == None \notin Ticket

VARIABLES
  life,      \* "up"; "orphans": dead, children left in its group; "gone"
  pc,        \* where each invocation is
  mine,      \* its ticket
  tickets,   \* waiters/: the names of the ticket files
  before,    \* the stamped tickets with earlier names than a ticket
  ino,       \* the inode number of a ticket file, named by a ticket
  lease,     \* the ticket file that is linked to "lease"
  reaper,    \* who created "lease.reaping"
  seen,      \* the lease that recoverDeadLease() read
  names,     \* the names orderedTickets() has still to look at
  leaseSeen, \* the lease that orderedTickets() saw
  ahead,     \* whether orderedTickets() kept a ticket before the invocation's own
  crashes

memory == <<seen, names, leaseSeen, ahead>>
vars == <<life, pc, mine, tickets, before, ino, lease, reaper, memory, crashes>>

Reaping == {"check", "unlink", "close", "fail"}
Holding == {"callback", "release", "unlease"}
Waiting == {"loop", "reap", "list", "info", "sort", "link"} \cup Reaping
Locations == {"out", "created", "leave"} \cup Waiting \cup Holding

TypeOK ==
  /\ life \in [Procs -> {"up", "orphans", "gone"}]
  /\ pc \in [Procs -> Locations]
  /\ mine \in [Procs -> Ticket \cup {None}]
  /\ tickets \subseteq Ticket
  /\ before \in [Ticket -> SUBSET Ticket]
  /\ ino \in [Ticket -> Ticket]
  /\ lease \in Ticket \cup {None}
  /\ reaper \in Procs \cup {None, Abandoned}
  /\ seen \in [Procs -> Ticket \cup {None}]
  /\ names \in [Procs -> SUBSET Ticket]
  /\ leaseSeen \in [Procs -> Ticket \cup {None}]
  /\ ahead \in [Procs -> BOOLEAN]
  /\ crashes \in Nat
  /\ \A p \in Procs : life[p] = "up" =>
       /\ (mine[p] = None) <=> (pc[p] = "out")
       /\ pc[p] \in {"reap"} \cup Reaping => seen[p] # None

Init ==
  /\ life = [p \in Procs |-> "up"]
  /\ pc = [p \in Procs |-> "out"]
  /\ mine = [p \in Procs |-> None]
  /\ tickets = {}
  /\ before = [t \in Ticket |-> {}]
  /\ ino = [t \in Ticket |-> t]
  /\ lease = None
  /\ reaper = None
  /\ seen = [p \in Procs |-> None]
  /\ names = [p \in Procs |-> {}]
  /\ leaseSeen = [p \in Procs |-> None]
  /\ ahead = [p \in Procs |-> FALSE]
  /\ crashes = 0

\* Mutant of Dead: the process group is not looked at.
DeadProcess(p) == life[p] # "up"

\* kill(pid, 0) and kill(-pgid, 0) both find nobody.
Dead(p) == life[p] = "gone"

Goto(p, from, to) == life[p] = "up" /\ pc[p] = from /\ pc' = [pc EXCEPT ![p] = to]

\* Unlinking a ticket takes it out of the order of names.
Unordered(t) == before' = [u \in Ticket |-> IF u = t THEN {} ELSE before[u] \ {t}]

Unlinked(t) == tickets' = tickets \ {t} /\ Unordered(t)

-----------------------------------------------------------------------------
(* createTicket() *)

\* A random token is new to everybody.
NewTicket(t) == /\ t \notin tickets
                /\ lease # t
                /\ \A q \in Procs : t \notin names[q] /\ t \notin {mine[q], seen[q], leaseSeen[q]}

\* A new file has a new number or, with ReusedInodes, any that no file has.
NewInodes(t) == IF ReusedInodes THEN Ticket \ {ino[u] : u \in tickets \cup ({lease} \ {None})}
                ELSE {t}

\* The name is made of the time and the token ...
Create(p) ==
  /\ Goto(p, "out", "created")
  /\ \E token \in Tokens :
       LET t == [proc |-> p, token |-> token]
       IN  /\ NewTicket(t)
           /\ mine' = [mine EXCEPT ![p] = t]
           /\ before' = [before EXCEPT ![t] = tickets \cup ({mine[q] : q \in Procs} \ {None})]
  /\ UNCHANGED <<life, tickets, ino, lease, reaper, memory, crashes>>

\* ... and the complete file gets it by rename().
Publish(p) ==
  /\ Goto(p, "created", "loop")
  /\ tickets' = tickets \cup {mine[p]}
  /\ \E i \in NewInodes(mine[p]) : ino' = [ino EXCEPT ![mine[p]] = i]
  /\ UNCHANGED <<life, mine, before, lease, reaper, memory, crashes>>

-----------------------------------------------------------------------------
(* recoverDeadLease() *)

ReadLease(p) ==
  LET dead == lease # None /\ Dead(lease.proc)
  IN  /\ Goto(p, "loop", IF dead THEN "reap" ELSE "list")
      /\ seen' = [seen EXCEPT ![p] = IF dead THEN lease ELSE None]
      /\ UNCHANGED <<life, mine, tickets, before, ino, lease, reaper, names, leaseSeen, ahead, crashes>>

\* open(O_EXCL): only one process at a time is past this.
OpenReaper(p) ==
  /\ Goto(p, "reap", IF reaper = None THEN "check" ELSE "list")
  /\ reaper' = IF reaper = None THEN p ELSE reaper
  /\ UNCHANGED <<life, mine, tickets, before, ino, lease, memory, crashes>>

\* The lease is still the file that was read, and its owner still dead.
CheckLease(p) ==
  /\ Goto(p, "check", IF lease # None /\ ino[lease] = ino[seen[p]] /\ Dead(seen[p].proc)
                      THEN "unlink" ELSE "close")
  /\ UNCHANGED <<life, mine, tickets, before, ino, lease, reaper, memory, crashes>>

UnlinkDead(p) ==
  /\ Goto(p, "unlink", IF lease = None THEN "fail" ELSE "close")
  /\ lease' = None
  /\ UNCHANGED <<life, mine, tickets, before, ino, reaper, memory, crashes>>

CloseReaper(p) ==
  /\ \E end \in {<<"close", "list">>, <<"fail", "leave">>} : Goto(p, end[1], end[2])
  /\ reaper' = None
  /\ UNCHANGED <<life, mine, tickets, before, ino, lease, memory, crashes>>

-----------------------------------------------------------------------------
(* orderedTickets() and link() *)

ReadNames(p) ==
  /\ Goto(p, "list", "info")
  /\ names' = [names EXCEPT ![p] = tickets]
  /\ ahead' = [ahead EXCEPT ![p] = FALSE]
  /\ UNCHANGED <<life, mine, tickets, before, ino, lease, reaper, seen, leaseSeen, crashes>>

ReadLeaseInfo(p) ==
  /\ Goto(p, "info", "sort")
  /\ leaseSeen' = [leaseSeen EXCEPT ![p] = lease]
  /\ UNCHANGED <<life, mine, tickets, before, ino, lease, reaper, seen, names, ahead, crashes>>

\* Mutant of Discarded: tickets of dead processes stay.
NeverDiscarded(p, t) == FALSE

\* The ticket of a dead process that does not own the lease.
Discarded(p, t) == /\ life[t.proc] # "up"
                   /\ leaseSeen[p] # None => ino[t] # ino[leaseSeen[p]]

\* The names in their order; one whose file is gone is skipped.
Inspect(p, t) ==
  /\ life[p] = "up" /\ pc[p] = "sort"
  /\ t \in names[p] /\ before[t] \cap names[p] = {}
  /\ names' = [names EXCEPT ![p] = @ \ {t}]
  /\ IF t \in tickets /\ Discarded(p, t)
     THEN Unlinked(t) /\ UNCHANGED ahead
     ELSE /\ ahead' = [ahead EXCEPT ![p] = @ \/ (t \in tickets /\ t \in before[mine[p]])]
          /\ UNCHANGED <<tickets, before>>
  /\ UNCHANGED <<life, pc, mine, ino, lease, reaper, seen, leaseSeen, crashes>>

\* queue[0] is the invocation's own ticket, and nobody has the lease.
First(p) == ~ ahead[p] /\ lease = None

Decide(p) ==
  /\ names[p] = {}
  /\ Goto(p, "sort", IF First(p) THEN "link" ELSE "loop")
  /\ UNCHANGED <<life, mine, tickets, before, ino, lease, reaper, memory, crashes>>

\* Mutant of Link: rename() replaces the lease that exists.
RenameTicket(p) ==
  /\ Goto(p, "link", "callback")
  /\ lease' = mine[p]
  /\ UNCHANGED <<life, mine, tickets, before, ino, reaper, memory, crashes>>

\* link() fails when the lease exists; then the loop goes on.
Link(p) ==
  /\ Goto(p, "link", IF lease = None THEN "callback" ELSE "loop")
  /\ lease' = IF lease = None THEN mine[p] ELSE lease
  /\ UNCHANGED <<life, mine, tickets, before, ino, reaper, memory, crashes>>

-----------------------------------------------------------------------------
(* The end of the invocation. *)

\* The callback returned or threw, or did not start because of an abort.
EndCallback(p) ==
  /\ Goto(p, "callback", "release")
  /\ UNCHANGED <<life, mine, tickets, before, ino, lease, reaper, memory, crashes>>

OwnLease(p) == lease = mine[p] /\ mine[p] \in tickets

\* releaseOwnLease() throws when the lease is not its own, and leaves the ticket.
VerifyLease(p) ==
  /\ Goto(p, "release", IF OwnLease(p) THEN "unlease" ELSE "out")
  /\ mine' = IF OwnLease(p) THEN mine ELSE [mine EXCEPT ![p] = None]
  /\ UNCHANGED <<life, tickets, before, ino, lease, reaper, memory, crashes>>

UnlinkLease(p) ==
  /\ Goto(p, "unlease", IF lease = None THEN "out" ELSE "leave")
  /\ mine' = IF lease = None THEN [mine EXCEPT ![p] = None] ELSE mine
  /\ lease' = None
  /\ UNCHANGED <<life, tickets, before, ino, reaper, memory, crashes>>

\* Abort or timeout.
GiveUp(p) ==
  /\ Goto(p, "loop", "leave")
  /\ UNCHANGED <<life, mine, tickets, before, ino, lease, reaper, memory, crashes>>

\* Mutant of RemoveTicket: the ticket stays.
ForgetTicket(p) ==
  /\ Goto(p, "leave", "out")
  /\ mine' = [mine EXCEPT ![p] = None]
  /\ UNCHANGED <<life, tickets, before, ino, lease, reaper, memory, crashes>>

\* removeOwnTicket()
RemoveTicket(p) ==
  /\ Goto(p, "leave", "out")
  /\ Unlinked(mine[p])
  /\ mine' = [mine EXCEPT ![p] = None]
  /\ UNCHANGED <<life, ino, lease, reaper, memory, crashes>>

-----------------------------------------------------------------------------
(* The processes. *)

\* A crash leaves the files, and perhaps children of the callback.
Crash(p) ==
  /\ crashes < MaxCrashes
  /\ life[p] = "up"
  /\ ReaperCrashes \/ pc[p] \notin Reaping
  /\ \/ life' = [life EXCEPT ![p] = "orphans"] /\ UNCHANGED pc
     \/ life' = [life EXCEPT ![p] = "gone"] /\ pc' = [pc EXCEPT ![p] = "out"]
  /\ mine' = [mine EXCEPT ![p] = None]
  /\ IF pc[p] = "created" THEN Unordered(mine[p]) ELSE UNCHANGED before
  /\ reaper' = IF reaper = p THEN Abandoned ELSE reaper
  /\ seen' = [seen EXCEPT ![p] = None]
  /\ names' = [names EXCEPT ![p] = {}]
  /\ leaseSeen' = [leaseSeen EXCEPT ![p] = None]
  /\ ahead' = [ahead EXCEPT ![p] = FALSE]
  /\ crashes' = crashes + 1
  /\ UNCHANGED <<tickets, ino, lease>>

\* The children end, or are killed with a task that is stopped (superviseTask()).
GroupEnds(p) ==
  /\ life[p] = "orphans"
  /\ life' = [life EXCEPT ![p] = "gone"]
  /\ pc' = [pc EXCEPT ![p] = "out"]
  /\ UNCHANGED <<mine, tickets, before, ino, lease, reaper, memory, crashes>>

\* A new process, with an id that no record has.
Restart(p) ==
  /\ life[p] = "gone"
  /\ \A t \in tickets \cup {lease} \cup {seen[q] : q \in Procs} : t # None => t.proc # p
  /\ life' = [life EXCEPT ![p] = "up"]
  /\ UNCHANGED <<pc, mine, tickets, before, ino, lease, reaper, memory, crashes>>

Step(p) ==
  \/ Publish(p)
  \/ ReadLease(p) \/ OpenReaper(p) \/ CheckLease(p) \/ UnlinkDead(p) \/ CloseReaper(p)
  \/ ReadNames(p) \/ ReadLeaseInfo(p) \/ (\E t \in Ticket : Inspect(p, t)) \/ Decide(p) \/ Link(p)
  \/ EndCallback(p) \/ VerifyLease(p) \/ UnlinkLease(p) \/ RemoveTicket(p)

Next == \E p \in Procs : Step(p) \/ Create(p) \/ GiveUp(p) \/ Crash(p) \/ GroupEnds(p) \/ Restart(p)

Spec == Init /\ [][Next]_vars

(* A process that runs goes on, and callbacks end, also in children that       *)
(* outlive their parent (they make requests with timeouts).  Nobody has to     *)
(* arrive, to give up, to crash or to be restarted.                            *)
FairSpec ==
  /\ Spec
  /\ \A p \in Procs : WF_vars(Step(p)) /\ WF_vars(GroupEnds(p))

-----------------------------------------------------------------------------
(* Properties. *)

\* The work of an invocation is going on, in its process or in children that
\* outlived it.
Using(p) == pc[p] = "callback" /\ life[p] # "gone"

\* One invocation at a time uses the resource, and "recovery must not grant a slot
\* while a crashed worker's child processes could still be using it"
\* (SHARED_HOST_COMPUTE.md).
ExclusiveUse == \A p, q \in Procs : Using(p) /\ Using(q) => p = q

\* The files and the processes implement an exclusive resource: the use of a process
\* ends, with its children, before that of the next one begins.
Resource == INSTANCE ExclusiveResource WITH
  User <- Procs, users <- {p \in Procs : Using(p)}

\* Every behaviour of the gate is one of the resource.
IsExclusiveResource == Resource!Spec

\* A running process has no ticket but that of its current invocation.  Any other
\* would stay at the head of the queue for as long as the process runs, since only
\* tickets of dead processes are discarded.
NoStrayTicket ==
  \A t \in tickets : life[t.proc] = "up" => mine[t.proc] = t

\* Whoever waits gets its turn, unless it leaves or dies first: the queue has no
\* starvation, whatever the others do, and dead owners and waiters do not block it,
\* unless one dies while it recovers a lease: its "lease.reaping" stays for ever.
Served ==
  \A p \in Procs : pc[p] = "loop" ~> \/ pc[p] \in {"callback", "out"}
                                     \/ life[p] # "up"
                                     \/ reaper = Abandoned

\* "An exclusive reaper prevents two observers from unlinking a replacement
\* lease" (host-resource-gate.mjs:94): recovery unlinks leases of dead owners only.
ReapsOnlyDead == [][\A p \in Procs : (UnlinkDead(p) /\ lease # None) => Dead(lease.proc)]_vars

=============================================================================
