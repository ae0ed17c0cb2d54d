------------------------------ MODULE BufferPool ------------------------------
(***************************************************************************)
(* The server's pool of Buffers.  The threads that receive a packet take a *)
(* Buffer from it, hand it on, and some other thread gives it back.  The   *)
(* free Buffers are alike, so the order of the queue is left out.          *)
(***************************************************************************)
EXTENDS Naturals

CONSTANT Buffer     \* the BUFFER_ALLOC_SIZE Buffers

VARIABLES
  bufferQueue,      \* how often BufferPool.bufferQueue holds each Buffer
  semaphores        \* BufferPool.semaphores

poolVars == <<bufferQueue, semaphores>>

PoolInit ==
  /\ bufferQueue = [b \in Buffer |-> 1]
  /\ semaphores = [b \in Buffer |-> 0]

Empty == \A b \in Buffer : bufferQueue[b] = 0

\* allocate returns the Buffer b; with no Buffer left it returns null.
allocate(b) ==
  /\ bufferQueue[b] > 0
  /\ bufferQueue' = [bufferQueue EXCEPT ![b] = @ - 1]
  /\ semaphores' = [semaphores EXCEPT ![b] = @ + 1]

\* deallocate of every Buffer in the set bs.  It ignores a Buffer that is not
\* out, and, having no Buffer to work on, null.
deallocate(bs) ==
  LET taken == {b \in bs \cap Buffer : semaphores[b] > 0} IN
    /\ bufferQueue' = [b \in Buffer |-> IF b \in taken THEN bufferQueue[b] + 1
                                                       ELSE bufferQueue[b]]
    /\ semaphores' = [b \in Buffer |-> IF b \in taken THEN semaphores[b] - 1
                                                      ELSE semaphores[b]]

PoolTypeOK ==
  /\ bufferQueue \in [Buffer -> Nat]
  /\ semaphores \in [Buffer -> Nat]
=============================================================================
