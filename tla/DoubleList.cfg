\* Five elements of three keys, two plain lists and a keyed one.
SPECIFICATION Spec
CONSTANTS
  e1 = e1
  e2 = e2
  e3 = e3
  e4 = e4
  e5 = e5
  k1 = k1
  k2 = k2
  k3 = k3
  Elements = {e1, e2, e3, e4, e5}
  Lists = {a, b}
  Queue = queue
  Keys = {k1, k2, k3}
  key <- MCKey
  NULL = NULL
INVARIANTS
  StandaloneIsFree
  IndexIsOfTheQueue
PROPERTIES
  ServesAsLists
