------------------------------ MODULE InstanceLock ------------------------------
(* The pidfile that keeps two servers off one storage directory               *)
(* (src/preflight.rs, taken in main). A process reads the file, decides, and   *)
(* writes it; fs::write truncates first. The guard removes the file when main  *)
(* returns; a signal ends the process without that. All processes are in one   *)
(* pid namespace.                                                              *)
EXTENDS Naturals

CONSTANTS
    Procs, Pids,
    MaxStarts, MaxOthers    \* bounds: boots; other programs that ever run

ASSUME LockAssumption == Pids # {} /\ MaxStarts \in Nat /\ MaxOthers \in Nat

VARIABLES
    pc,         \* off, read, truncate, write, owner, refused
    pid,        \* of each process
    file,       \* the pid in .waxum.lock, if there is one: {} or {pid}
    others,     \* pids of other programs
    starts, born,
    raced       \* history: a server began to boot while another one booted

vars == <<pc, pid, file, others, starts, born, raced>>

Live(p)   == pc[p] /= "off"
Booting   == {p \in Procs : pc[p] \in {"read", "truncate", "write"}}
Owners    == {p \in Procs : pc[p] = "owner"}
Taken     == {pid[p] : p \in {q \in Procs : Live(q)}} \cup others
Step(p, from, to) == pc[p] = from /\ pc' = [pc EXCEPT ![p] = to]

\* Mutant: every pid counts as alive, as it does where /proc is missing.
assumed_alive(n) == TRUE

pid_is_alive(n) == n \in Taken
Held(p) == \E n \in file \ {pid[p]} : pid_is_alive(n)

-----------------------------------------------------------------------------

Start(p) ==
    /\ starts < MaxStarts /\ starts' = starts + 1
    /\ Step(p, "off", "read")
    /\ \E n \in Pids \ Taken : pid' = [pid EXCEPT ![p] = n]
    /\ raced' = (raced \/ Booting /= {})
    /\ UNCHANGED <<file, others, born>>

\* No file, and one that holds no number, let the boot go on.
read_lock(p) ==
    /\ Step(p, "read", IF Held(p)
                       THEN "refused" ELSE "truncate")
    /\ UNCHANGED <<pid, file, others, starts, born, raced>>

truncate(p) ==
    /\ Step(p, "truncate", "write") /\ file' = {}
    /\ UNCHANGED <<pid, others, starts, born, raced>>

write_lock(p) ==
    /\ Step(p, "write", "owner") /\ file' = {pid[p]}
    /\ UNCHANGED <<pid, others, starts, born, raced>>

\* main returns: refused, or (as when the port is taken) after it got the lock.
main_returns(p) ==
    /\ \/ Step(p, "refused", "off") /\ UNCHANGED file
       \/ Step(p, "owner", "off") /\ file' = {}
    /\ UNCHANGED <<pid, others, starts, born, raced>>

\* A signal or a power cut; nothing is cleaned up.
Kill(p) ==
    /\ Live(p) /\ pc' = [pc EXCEPT ![p] = "off"]
    /\ UNCHANGED <<pid, file, others, starts, born, raced>>

\* Another program gets a pid, possibly the one in the file.
OtherStarts ==
    /\ born < MaxOthers /\ born' = born + 1
    /\ \E o \in Pids \ Taken : others' = others \cup {o}
    /\ UNCHANGED <<pc, pid, file, starts, raced>>
OtherEnds ==
    /\ \E o \in others : others' = others \ {o}
    /\ UNCHANGED <<pc, pid, file, starts, born, raced>>

-----------------------------------------------------------------------------

Init ==
    /\ pc = [p \in Procs |-> "off"]
    /\ pid = [p \in Procs |-> CHOOSE n \in Pids : TRUE]
    /\ file = {} /\ others = {} /\ starts = 0 /\ born = 0 /\ raced = FALSE

Next ==
    \/ \E p \in Procs : \/ Start(p) \/ read_lock(p) \/ truncate(p) \/ write_lock(p)
                        \/ main_returns(p) \/ Kill(p)
    \/ OtherStarts \/ OtherEnds

Spec == Init /\ [][Next]_vars

-----------------------------------------------------------------------------

TypeOK ==
    /\ pc \in [Procs -> {"off", "read", "truncate", "write", "owner", "refused"}]
    /\ pid \in [Procs -> Pids] /\ file \subseteq Pids /\ others \subseteq Pids
    /\ raced \in BOOLEAN
    /\ starts \in 0..MaxStarts /\ born \in 0..MaxOthers

\* preflight.rs:14-16, CHANGELOG.md:1189: two servers never own one storage
\* directory at the same time, unless two of them ever booted at once.
OneOwner == ~raced => \A p, q \in Owners : p = q

\* As long as a server runs, the file that keeps others out names it, whatever
\* refused, failed and killed boots came in between.
OwnerIsNamed == \A p \in Owners : ~raced /\ Booting = {} => file = {pid[p]}

\* preflight.rs:38-44: a boot is refused because a server runs, not because of
\* what a dead one left behind, unless a foreign program got its pid.
RefusedForCause ==
    [][\A p \in Procs : pc'[p] = "refused" /\ pc[p] = "read" /\ ~raced
                         => Owners \ {p} /= {} \/ file \cap others /= {}]_vars

\* One server owns the directory, its file says so, and nothing else keeps a
\* server out, as long as no two of them boot at once.
LockHolds == [](TypeOK /\ OneOwner /\ OwnerIsNamed) /\ RefusedForCause
=============================================================================
