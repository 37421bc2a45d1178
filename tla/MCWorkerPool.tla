---------------------------- MODULE MCWorkerPool ----------------------------
(* Small instances of WorkerPool. *)
EXTENDS WorkerPool, KeyNaming

\* Every worker consumes the queue of every job (the convert_queue, three
\* goroutines on one queue, is the case where workers share jobs).
SharedRoute == [w \in Workers |-> Jobs]

\* Two uploads, one to be resized and one to be converted to another extension,
\* and what the names of their files come to on a disk that tells upper from
\* lower case, as the worker's image has it.
Resized == [type |-> "RESIZE", format |-> "PNG", key |-> <<<<"cat", "png">>>>]
Converted == [type |-> "CONVERT", format |-> "PNG", key |-> <<<<"dog", "jpg">>>>]
Uploads == {Resized, Converted}
NotFoundByCase == NotFound(Uploads, TRUE)
NotRemovedByCase == NotRemoved(Uploads, TRUE)

\* Workers may be exchanged.
Symmetry == Permutations(Workers)
=============================================================================
