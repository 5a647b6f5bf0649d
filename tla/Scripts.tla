------------------------------- MODULE Scripts -------------------------------
(***************************************************************************)
(* The programs whose threads are straight lines of operations, perhaps in *)
(* a loop: the dining philosophers, rendezvous, fork/join and binary       *)
(* semaphore of threads-sema, the bugs of threads-bugs, the unlocked       *)
(* counters of threads-intro and intro, and the locked counter of          *)
(* threads-locks/locked data structures.                                   *)
(*                                                                         *)
(* A thread is the sequence of its operations on what it shares with the   *)
(* others; everything else it does is local.  A mutex is a semaphore of    *)
(* value 1.  The threads of one program run, one operation a step;         *)
(* following a null pointer ends the process.                              *)
(***************************************************************************)
EXTENDS Integers, Sequences, FiniteSets, SequencesExt

(***************************************************************************)
(* The operations.  A semaphore, a thing that is done or undone (a line    *)
(* printed, a pointer set) and a counter are named by a string or number.  *)
(***************************************************************************)
Wait(s)   == [op |-> "wait",   on |-> s]    \* Sem_wait, Pthread_mutex_lock
Post(s)   == [op |-> "post",   on |-> s]    \* Sem_post, Pthread_mutex_unlock
Do(x)     == [op |-> "do",     on |-> x]    \* x happens, pointer x is set
Undo(x)   == [op |-> "undo",   on |-> x]    \* pointer x becomes NULL
Skip(x)   == [op |-> "skip",   on |-> x]    \* if (!x) leave out the next operation
After(x)  == [op |-> "after",  on |-> x]    \* prints what has to come after x
Deref(x)  == [op |-> "deref",  on |-> x]    \* follows x, a fault when it is NULL
Load      == [op |-> "load",   on |-> 0]    \* reads counter
Store(d)  == [op |-> "store",  on |-> d]    \* counter = what was read + d

\* a thread: first once, then body loops times
Thread(first, body, loops) ==
    [line |-> first \o body, loop |-> Len(first) + 1, loops |-> loops]
Once(ops) == Thread(<<>>, ops, 1)

\* a program: its threads, how many units its semaphores start with, what is
\* done at the start
Program(name, threads, units, done) ==
    [name |-> name, threads |-> threads, units |-> units, done |-> done]

Locked(lock, ops) == <<Wait(lock)>> \o ops \o <<Post(lock)>>

\* counter++ is a load and a store
Add(d) == <<Load, Store(d)>>

------------------------------------------------------------------------------
(* threads-sema/dining_philosophers_*.c: forks 0..N-1 and print_lock       *)

print_lock == 5        \* a number that is no fork

\* space(...); printf(...); space_end()
Say(printing) == IF printing THEN Locked(print_lock, <<>>) ELSE <<>>

left(p)     == p
right(p, N) == (p + 1) % N

\* every philosopher takes the left fork first
MutantOrder(p, N, reversed) == <<left(p), right(p, N)>>

\* the forks of p in the order get_forks takes them
Order(p, N, reversed) ==
    IF reversed /\ p = N - 1 THEN <<right(p, N), left(p)>> ELSE <<left(p), right(p, N)>>

get_forks(p, N, reversed, say) ==
    say \o <<Wait(Order(p, N, reversed)[1])>> \o say \o <<Wait(Order(p, N, reversed)[2])>>

put_forks(p, N) == <<Post(left(p)), Post(right(p, N))>>

\* "start" is printed once, the rest is the body of the loop
philosopher(p, N, reversed, say) ==
    Thread(say, say \o get_forks(p, N, reversed, say) \o say \o put_forks(p, N) \o say, 2)

Dinner(name, N, reversed, printing) ==
    Program(name, [i \in 1..N |-> philosopher(i - 1, N, reversed, Say(printing))],
            [s \in 0..(N - 1) \cup {print_lock} |-> 1], {})

Deadlock        == Dinner("Deadlock", 5, FALSE, FALSE)
DeadlockPrint   == Dinner("DeadlockPrint", 3, FALSE, TRUE)
NoDeadlock      == Dinner("NoDeadlock", 5, TRUE, FALSE)
NoDeadlockPrint == Dinner("NoDeadlockPrint", 3, TRUE, TRUE)

------------------------------------------------------------------------------
(* threads-sema: rendezvous, join, binary *)

\* child 2 says that it came before it did
MutantRendezvous ==
    Program("rendezvous",
            <<Once(<<Do("before 1"), Post("s1"), Wait("s2"), After("before 2")>>),
              Once(<<Post("s2"), Do("before 2"), Wait("s1"), After("before 1")>>)>>,
            [s \in {"s1", "s2"} |-> 0], {})

\* "before" is printed, the other child is told and waited for, "after" is
\* printed
rendezvous ==
    Program("rendezvous",
            <<Once(<<Do("before 1"), Post("s1"), Wait("s2"), After("before 2")>>),
              Once(<<Do("before 2"), Post("s2"), Wait("s1"), After("before 1")>>)>>,
            [s \in {"s1", "s2"} |-> 0], {})

\* the child prints and posts s, main waits for s and prints
sema_join ==
    Program("sema_join",
            <<Once(<<Do("child"), Post("s")>>), Once(<<Wait("s"), After("child")>>)>>,
            [s \in {"s"} |-> 0], {})

\* zemaphore.c does the same with a Zemaphore, which implements Semaphore
zemaphore_c ==
    Program("zemaphore_c",
            <<Once(<<Do("child"), Post("s")>>), Once(<<Wait("s"), After("child")>>)>>,
            [s \in {"s"} |-> 0], {})

\* two units let both children in
MutantBinary == Program("binary", [c \in 1..2 |-> Thread(<<>>, Locked("mutex", Add(1)), 3)],
                        [s \in {"mutex"} |-> 2], {})

binary == Program("binary", [c \in 1..2 |-> Thread(<<>>, Locked("mutex", Add(1)), 3)],
                  [s \in {"mutex"} |-> 1], {})

------------------------------------------------------------------------------
(* Counters without a lock, threads-intro/t1.c and intro/threads.c, and    *)
(* with one, counter.cpp                                                   *)

t1 == Program("t1", [l \in 1..2 |-> Thread(<<>>, Add(1), 3)], <<>>, {})

intro_threads == Program("intro_threads", [l \in 1..2 |-> Thread(<<>>, Add(1), 4)], <<>>, {})

increment == Locked("lock", Add(1))
decrement == Locked("lock", Add(-1))
get       == Locked("lock", <<Load>>)

\* callers of counter.cpp, which has no main
counter_cpp == Program("counter_cpp",
                       <<Thread(<<>>, increment, 3),
                         Thread(<<>>, increment \o decrement, 2),
                         Once(get \o decrement)>>,
                       [s \in {"lock"} |-> 1], {})

------------------------------------------------------------------------------
(* threads-bugs *)

deadlock ==
    Program("deadlock",
            <<Once(<<Wait("L1"), Wait("L2"), Post("L1"), Post("L2")>>),
              Once(<<Wait("L2"), Wait("L1"), Post("L1"), Post("L2")>>)>>,
            [s \in {"L1", "L2"} |-> 1], {})

\* thread1 tests proc_info and follows it, thread2 sets it to NULL
CheckAndUse == <<Skip("proc_info"), Deref("proc_info")>>
SetToNull   == <<Undo("proc_info")>>

atomicity ==
    Program("atomicity", <<Once(CheckAndUse), Once(SetToNull)>>, <<>>, {"proc_info"})

atomicity_fixed ==
    Program("atomicity_fixed",
            <<Once(Locked("proc_info_lock", CheckAndUse)),
              Once(Locked("proc_info_lock", SetToNull))>>,
            [s \in {"proc_info_lock"} |-> 1], {"proc_info"})

\* main sets mThread when PR_CreateThread, which starts mMain, has returned,
\* and follows it in PR_WaitThread; mMain follows it at once
ordering ==
    Program("ordering",
            <<Once(<<Do("mThread"), Deref("mThread")>>), Once(<<Deref("mThread")>>)>>,
            <<>>, {})

\* malloc fails: PR_CreateThread returns NULL and starts no thread
ordering_no_memory == Program("ordering_no_memory", <<Once(<<Deref("mThread")>>)>>, <<>>, {})

------------------------------------------------------------------------------
\* one behaviour runs one of them
Programs == <<Deadlock, DeadlockPrint, NoDeadlock, NoDeadlockPrint, rendezvous, sema_join,
              zemaphore_c, binary, t1, intro_threads, counter_cpp, deadlock, atomicity, atomicity_fixed,
              ordering, ordering_no_memory>>

\* the programs written to show what goes wrong: they take locks in a circle,
\* rely on what may not have happened, or count without a lock
Deadlocking == {"Deadlock", "DeadlockPrint", "deadlock"}
Faulty      == {"atomicity", "ordering", "ordering_no_memory"}
Unlocked    == {"t1", "intro_threads"}

------------------------------------------------------------------------------
(* The threads of the program that runs *)

VARIABLES program,  (* the program that runs, one of Programs              *)
          sem,      (* the values of its semaphores                        *)
          done,     (* what has happened and was not undone                *)
          total,    (* the shared counter                                  *)
          read,     (* read[t]: the counter as t loaded it                 *)
          at,       (* at[t]: number of the operation t is at              *)
          rounds,   (* rounds[t]: the loops t has finished                 *)
          early,    (* somebody relied on what had not happened            *)
          dead      (* the process died of it                              *)

svars == <<program, sem, done, total, read, at, rounds, early, dead>>

Threads == DOMAIN program.threads
Line(t) == program.threads[t].line

Start(p) ==
    /\ program = p
    /\ sem = p.units
    /\ done = p.done
    /\ total = 0
    /\ at = [t \in DOMAIN p.threads |-> 1]
    /\ rounds = [t \in DOMAIN p.threads |-> 0]
    /\ read = [t \in DOMAIN p.threads |-> 0]
    /\ early = FALSE /\ dead = FALSE

Finished(t) == rounds[t] = program.threads[t].loops
Now(t)      == Line(t)[at[t]]

\* t is at an operation of this kind
At(t, op) == ~dead /\ ~Finished(t) /\ Now(t).op = op

\* n operations further, which may be the start of the next loop
Advance(t, n) ==
    /\ IF at[t] + n > Len(Line(t))
         THEN /\ at' = [at EXCEPT ![t] = program.threads[t].loop]
              /\ rounds' = [rounds EXCEPT ![t] = @ + 1]
         ELSE /\ at' = [at EXCEPT ![t] = @ + n]
              /\ UNCHANGED rounds
    /\ UNCHANGED program

------------------------------------------------------------------------------
Take(t) == /\ At(t, "wait") /\ sem[Now(t).on] > 0
           /\ sem' = [sem EXCEPT ![Now(t).on] = @ - 1]
           /\ Advance(t, 1)
           /\ UNCHANGED <<done, total, read, early, dead>>

Give(t) == /\ At(t, "post")
           /\ sem' = [sem EXCEPT ![Now(t).on] = @ + 1]
           /\ Advance(t, 1)
           /\ UNCHANGED <<done, total, read, early, dead>>

Set(t) == /\ \/ At(t, "do") /\ done' = done \cup {Now(t).on}
             \/ At(t, "undo") /\ done' = done \ {Now(t).on}
          /\ Advance(t, 1)
          /\ UNCHANGED <<sem, total, read, early, dead>>

Test(t) == /\ At(t, "skip")
            /\ Advance(t, IF Now(t).on \in done THEN 1 ELSE 2)
            /\ UNCHANGED <<sem, done, total, read, early, dead>>

Rely(t) == /\ \/ At(t, "after") /\ dead' = dead
              \/ At(t, "deref") /\ dead' = (Now(t).on \notin done)
           /\ early' = (early \/ Now(t).on \notin done)
           /\ Advance(t, 1)
           /\ UNCHANGED <<sem, done, total, read>>

LoadCounter(t) == /\ At(t, "load")
                  /\ read' = [read EXCEPT ![t] = total]
                  /\ Advance(t, 1)
                  /\ UNCHANGED <<sem, done, total, early, dead>>

StoreCounter(t) == /\ At(t, "store")
                   /\ total' = read[t] + Now(t).on
                   /\ Advance(t, 1)
                   /\ UNCHANGED <<sem, done, read, early, dead>>

ScriptStep(t) == \/ Take(t) \/ Give(t) \/ Set(t) \/ Test(t) \/ Rely(t)
                 \/ LoadCounter(t) \/ StoreCounter(t)

------------------------------------------------------------------------------
(* What the properties speak of *)

\* what t has waited for and not posted yet
Holds(t) ==
    LET Past(op, s) == {i \in 1..(at[t] - 1) : Line(t)[i] = [op |-> op, on |-> s]}
    IN  {s \in DOMAIN sem : Cardinality(Past("wait", s)) > Cardinality(Past("post", s))}

Blocked(t) == At(t, "wait") /\ sem[Now(t).on] = 0

Stuck == /\ \A t \in Threads : Finished(t) \/ Blocked(t)
         /\ \E t \in Threads : Blocked(t)

AllFinished == \A t \in Threads : Finished(t)

\* each thread has one semaphore and waits for the one another thread has
Circle == /\ \A t \in Threads : Cardinality(Holds(t)) = 1
          /\ UNION {Holds(t) : t \in Threads} = {Now(t).on : t \in Threads}

\* what the stores of a thread add to the counter in all its loops
Added(t) ==
    program.threads[t].loops *
    FoldSeq(LAMBDA o, sum : IF o.op = "store" THEN sum + o.on ELSE sum, 0, Line(t))

Expected == FoldSeq(+, 0, [t \in Threads |-> Added(t)])

------------------------------------------------------------------------------
Init == \E i \in DOMAIN Programs : Start(Programs[i])

Step(t) == t \in Threads /\ ScriptStep(t)

Next == \E t \in 1..5 : Step(t)

\* the scheduler eventually runs every thread that can run
Spec == Init /\ [][Next]_svars /\ \A t \in 1..5 : WF_svars(Step(t))

------------------------------------------------------------------------------
(* Properties *)

\* Threads are stuck in a circle and in no other way: each has one semaphore
\* and waits for the one another thread has.  Only the two dinners in which
\* everybody takes the left fork first and deadlock.c come to that; printing
\* adds no other way, and the reversed philosopher leaves none.
OnlyTheCircle == Stuck => program.name \in Deadlocking /\ Circle

\* In rendezvous.c nobody prints "after" before both have printed "before",
\* main prints after the child in join.c and zemaphore.c, and
\* atomicity_fixed.c never follows the pointer the other thread has set to
\* NULL.  Only atomicity.c and ordering.c rely on what has not happened or was
\* undone.
InOrder == early => program.name \in Faulty

\* With the lock every update of the counter is kept, in binary.c and in
\* counter.cpp.  t1.c and intro/threads.c lose updates, but their two
\* threads, which loop more than once, never leave less than 2.
UpdatesKept ==
    AllFinished =>
        IF program.name \in Unlocked THEN total \in 2..Expected ELSE total = Expected

\* Every thread of every program runs to its end, unless the program followed
\* a null pointer or is one of those that are meant to show a deadlock: the
\* reversed philosopher eats as often as the others, and so does everybody
\* who waits for a fork in between.
Termination ==
    <>[](AllFinished \/ dead \/ (Stuck /\ program.name \in Deadlocking))
==============================================================================
