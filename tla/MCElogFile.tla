---------------------------- MODULE MCElogFile ----------------------------
\* Two processes, one of which has two threads that write the log.
EXTENDS ElogFile

CONSTANTS p, q, app, reader

MCProcesses == {p, q}
MCThreads == {<<p, app>>, <<p, reader>>, <<q, app>>}
=============================================================================
