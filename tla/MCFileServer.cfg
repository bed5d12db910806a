\* Three threads, two uploads of up to two chunks, any number of downloads.
SPECIFICATION Spec
CONSTANTS
  Thread = {t1, t2, t3}
  MaxFiles = 2
  MaxChunks = 2
SYMMETRY Threads
INVARIANT DownloadsComplete
\* Every thread may have ended, or the process have died.
CHECK_DEADLOCK FALSE
