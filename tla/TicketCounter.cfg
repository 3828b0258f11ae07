CONSTANTS
  Threads = {t1, t2, t3}
  Limit = 4
SPECIFICATION CounterSpec
INVARIANT HeldTicketsDiffer
PROPERTY ImplementsUniqueTickets
