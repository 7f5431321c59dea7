\* Any usage; two releases of the application on one database.
SPECIFICATION Spec
CONSTANTS
  p1 = p1
  p2 = p2
  old = old
  Nobody = Nobody
  Migrators <- Processes
  Registry <- Releases
  Deployments <- Usages
  ExtraDowns = 1
INVARIANTS
  TypeOK
  NeverRunTwice
  AtAVersion
PROPERTY
  AllMeansAll
\* Once everything is migrated, an upgrade has nothing left to do.
CHECK_DEADLOCK FALSE
