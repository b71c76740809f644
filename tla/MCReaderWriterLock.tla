------------------------ MODULE MCReaderWriterLock ------------------------
(* Four client threads: a reader that leaves, one that arrives, one inside *)
(* and a writer.                                                           *)
EXTENDS ReaderWriterLock

CONSTANTS t1, t2, t3, t4

FourThreads == {t1, t2, t3, t4}
=============================================================================
