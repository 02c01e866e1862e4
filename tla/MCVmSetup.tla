----------------------------- MODULE MCVmSetup -----------------------------
EXTENDS VmSetup

MCRing == {"EVENT_IDX", "INDIRECT_DESC"}

\* 64 MiB with a 10 MiB kernel and a small and a large initrd, one that fills
\* RAM to the last byte allowed, and one that does not fit.
MCImages == {<<65536, 20, 10240, 1500>>, <<65536, 64, 10240, 30000>>,
             <<65536, 20, 10240, 53248>>, <<32768, 20, 10240, 30000>>}
=============================================================================
