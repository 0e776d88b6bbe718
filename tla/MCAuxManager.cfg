\* Two nicknames, two areas, three guests, one of two tasks stops guests.
CONSTANTS
  n1 = n1
  n2 = n2
  a1 = a1
  a2 = a2
  s1 = s1
  s2 = s2
  s3 = s3
  t1 = t1
  t2 = t2
  Nicknames = {n1, n2}
  Areas = {a1, a2}
  Spaces = {s1, s2, s3}
  Tasks = {t1, t2}
  Stoppers = {t1}
SPECIFICATION Spec
SYMMETRY Symmetry
\* All the guests have been started and have ended.
CHECK_DEADLOCK FALSE
INVARIANTS
  LiveAreaKept
  AreaFitsGuest
  StopAwaitsEnding
PROPERTIES
  StopsNamedGuest
