---------------------------- MODULE Attribution ----------------------------
(***************************************************************************)
(* The join of a listening executable to the installed software that owns  *)
(* it (internal/service/attribute.go), and the same ladder as a lookup     *)
(* for the link probe (OwnerIndex).                                        *)
(*                                                                         *)
(* A path is a sequence of names; a recorded location may end in "", which *)
(* is a trailing separator.  Fold is the case folding of the platform, the *)
(* identity on Linux.                                                      *)
(***************************************************************************)
LOCAL INSTANCE Sequences
LOCAL INSTANCE Integers
LOCAL INSTANCE SequencesExt

CONSTANTS PathOf,      \* executable -> its path
          Fold,        \* path -> the key it is compared by
          OSPaths,     \* the paths under the operating system's directory
          UnreadExe    \* an executable that could not be read

IsOSComponent(path) == path \in OSPaths

\* Trailing separators never match an ancestor of a file, so they are trimmed.
Trimmed(loc) ==
  LET named == {k \in 1..Len(loc) : loc[k] # ""}
  IN  IF named = {} THEN <<>>
      ELSE SubSeq(loc, 1, CHOOSE k \in named : \A j \in named : j <= k)

\* The components that recorded a location, by what the location trims to.
IndexByLocation(components, key) ==
  {c.id : c \in {d \in components : \E loc \in d.locations :
                    Trimmed(loc) # <<>> /\ Fold[Trimmed(loc)] = key}}

\* Proper ancestors, the longest first: the walk strips one name at a time.
ContainingProduct(path, components) ==
  LET key == Fold[path]
      recorded == {n \in 1..(Len(key) - 1) :
                     IndexByLocation(components, SubSeq(key, 1, n)) # {}}
  IN  IF recorded = {} THEN {}
      ELSE IndexByLocation(components,
             SubSeq(key, 1, CHOOSE n \in recorded : \A m \in recorded : m <= n))

Answer(confidence, ids, os) == [confidence |-> confidence, ids |-> ids, os |-> os]

\* The ladder a service climbs.  Nothing is claimed for a socket that init holds,
\* for an executable that could not be read, or for a path of another filesystem.
Ladder(s, fileOwners, components) ==
  LET path == PathOf[s.process.exe]
      exact == IndexByLocation(components, Fold[path])
  IN  CASE s.activated \/ s.process.exe = UnreadExe -> Answer("low", {}, FALSE)
        [] ~s.activated /\ s.process.exe # UnreadExe ->
           IF s.process.isolated THEN Answer("medium", {}, FALSE)
           ELSE IF fileOwners[s.process.exe] # {}
                THEN Answer("high", fileOwners[s.process.exe], FALSE)
           ELSE IF exact # {} THEN Answer("high", exact, FALSE)
           ELSE IF IsOSComponent(path) THEN Answer("medium", {}, TRUE)
           ELSE Answer("medium", ContainingProduct(path, components), FALSE)

AttributeOne(s, fileOwners, components) ==
  LET a == Ladder(s, fileOwners, components)
  IN  [pid |-> s.process.pid, exe |-> s.process.exe, endpoints |-> s.endpoints,
       container |-> s.process.container, activated |-> s.activated,
       confidence |-> a.confidence, components |-> a.ids, os |-> a.os]

\* The sockets nobody could be found for are one entry of low confidence.
Unidentified == [pid |-> 0, exe |-> UnreadExe, endpoints |-> <<>>, container |-> "none",
                 activated |-> FALSE, confidence |-> "low", components |-> {}, os |-> FALSE]

Attribute(services, fileOwners, components, unattributed) ==
  [k \in DOMAIN services |-> AttributeOne(services[k], fileOwners, components)]
  \o (IF unattributed > 0 THEN <<Unidentified>> ELSE <<>>)
=============================================================================
