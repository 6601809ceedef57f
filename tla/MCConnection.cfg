\* Two transfers over any number of connections, two jobs.
\* A log of two generations and files of two lines, followed up to five lines.
CONSTANTS
  Transfer = {t1, t2}
  MaxJobs = 2
  MaxQueue = 1
  MaxFile = 2
  Generations = 2
  Overflow = 2
  FlushRounds = 1
  Disk = 5
SPECIFICATION MCSpec
INVARIANTS NothingOutlivesTheLink
PROPERTIES CountConverges EvidenceKept
CHECK_DEADLOCK FALSE
