------------------------------ MODULE MCBuffers ------------------------------
(***************************************************************************)
(* The producer/consumer programs.  All but one are BoundedBuffer with     *)
(* their own threads and condition variables; producer_consumer_works.c is *)
(* SemBuffer, over the same ring buffer and threads.                       *)
(***************************************************************************)
EXTENDS BoundedBuffer

CONSTANTS p1, p2, c1, c2

\* threads-cv/pc.c
pc_c == [name |-> "pc", threads |-> {p1, c1, c2}, max |-> 2, producer |-> "empty",
         consumer |-> "fill", broadcast |-> FALSE, retest |-> TRUE, ends |-> "marker"]

\* threads-cv/pc_single_cv.c
pc_single_cv == [name |-> "pc_single_cv", threads |-> {p1, c1, c2}, max |-> 1,
                 producer |-> "cv", consumer |-> "cv", broadcast |-> FALSE,
                 retest |-> TRUE, ends |-> "marker"]

\* c++11-Producer-consumer/MultiProducerMultiConsumerBuffer.cpp: main creates
\* one producer, the consumers never stop
MultiConsumer == [name |-> "MultiConsumer", threads |-> {p1, c1, c2}, max |-> 2,
                  producer |-> "empty", consumer |-> "fill", broadcast |-> FALSE,
                  retest |-> TRUE, ends |-> "never"]

\* condition variable/MultiProducerMultiConsumerBuffer.cpp, which has no main:
\* every producer and every consumer has a for loop of the same length
MultiProducer == [name |-> "MultiProducer", threads |-> {p1, p2, c1, c2}, max |-> 2,
                  producer |-> "empty", consumer |-> "fill", broadcast |-> FALSE,
                  retest |-> TRUE, ends |-> "count"]

\* MpMCSingleCV.cpp; its put stores a number of its own instead of the value
\* it is given, so only the order of the calls is this program's
MpMCSingleCV == [name |-> "MpMCSingleCV", threads |-> {p1, p2, c1, c2}, max |-> 1,
                 producer |-> "cond", consumer |-> "cond", broadcast |-> TRUE,
                 retest |-> TRUE, ends |-> "never"]

\* SingleProducerSingleConsumer.cpp: one slot, and if instead of while
SingleProducer == [name |-> "SingleProducer", threads |-> {p1, c1}, max |-> 1,
                   producer |-> "cond", consumer |-> "cond", broadcast |-> FALSE,
                   retest |-> FALSE, ends |-> "count"]

CVPrograms == {pc_c, pc_single_cv, MultiConsumer, MultiProducer, MpMCSingleCV, SingleProducer}

\* producer_consumer_works.c has no condition variables
producer_consumer_works ==
    [name |-> "producer_consumer_works", threads |-> {p1, c1, c2}, max |-> 2,
     producer |-> "none", consumer |-> "none", broadcast |-> FALSE,
     retest |-> TRUE, ends |-> "marker"]

ASSUME WorksAssumption == /\ p1 \in Producers /\ {c1, c2} \subseteq Consumers
                          /\ producer_consumer_works \notin Programs

------------------------------------------------------------------------------
VARIABLES empty, full, mutex      (* the semaphores                        *)

svars == <<empty, full, mutex>>

SB == INSTANCE SemBuffer WITH Procs <- producer_consumer_works.threads, Max <- 2,
                              fill <- fill_ptr, use <- use_ptr

Semaphores == program = producer_consumer_works

\* main of the program that runs, before it creates its threads
RunInit == \/ Init /\ empty = 0 /\ full = 0 /\ mutex = 0
           \/ /\ program = producer_consumer_works
              /\ SB!Init
              /\ num_full = 0 /\ m = None /\ sleepers = [cv \in CVs |-> {}]
              /\ got = [c \in Consumers |-> 0]
              /\ failed = FALSE /\ spurious = 0

RunStep(t) == \/ ~Semaphores /\ Step(t) /\ UNCHANGED svars
              \/ /\ Semaphores /\ t \in program.threads /\ SB!Step(t)
                 /\ UNCHANGED <<program, num_full, m, sleepers, got, failed, spurious>>

RunNext == \E t \in Threads : RunStep(t) \/ (Spurious(t) /\ UNCHANGED svars)

\* the scheduler eventually runs a thread that can keep running
RunSpec == /\ RunInit /\ [][RunNext]_<<vars, svars>>
           /\ \A t \in Threads : WF_<<vars, svars>>(RunStep(t))

------------------------------------------------------------------------------
(* Properties *)

Queue == INSTANCE BoundedFifo
           WITH q <- IF Semaphores THEN SB!Contents ELSE Contents,
                max <- Max, Ends <- Cardinality(Consumers)

\* "The output should print each produced item once": in every program each
\* value goes to exactly one consumer, in the order of the puts; none is
\* overwritten before it is got and none is got before it is put.
ImplementsFifo == Queue!Spec

\* Everything produced is consumed and every thread that can return does,
\* unless an assertion has failed; only with one condition variable and a
\* signal for one thread may the program stop instead, with threads of both
\* sides asleep.
Termination ==
    <>[](IF Semaphores THEN \A t \in program.threads : SB!Finished(t)
                       ELSE AllDone \/ failed \/ WrongSideWoken)
==============================================================================
