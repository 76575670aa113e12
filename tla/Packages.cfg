\* Five calls on an index over three identities; any rules, any three packages
\* and up to three of their relationships; any three packages of two types at
\* one or two locations each; any calls on a collection of three packages found
\* at a path or not.
SPECIFICATION MCSpec
CONSTANTS
  ID = {a, b, c}
  Type = {contains}
  MaxOps = 5
  NPkgs = 3
  Files = {f}
  MaxRels = 3
  Pkg = {p, q, r}
  Label = {openssl}
  Path = {"a", "b"}
  PkgType = {"binary", "deb"}
  Seen <- MCSeen
  u = u
  v = v
  w = w
  glibc = glibc
  musl = musl
  PkgID = {u, v, w}
  Name = {glibc, musl}
  PType = {"deb", "apk"}
  PkgPath = {"real"}
  NameOf <- MCNameOf
  TypeOf <- MCTypeOf
INVARIANTS
  ExactForUntouched
  RulesRespected
  IndexesExact
PROPERTIES
  EvidenceStays
  IsMap
CHECK_DEADLOCK FALSE
