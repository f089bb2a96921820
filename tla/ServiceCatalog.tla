--------------------------- MODULE ServiceCatalog --------------------------
(***************************************************************************)
(* The catalogue of services (api/services.py, models/service.py): named   *)
(* groups of members, which are devices and interfaces, with dependencies  *)
(* between them.  A request checks what it needs, and writes later; what   *)
(* it found may be gone, or somebody else may have written the same.       *)
(*                                                                         *)
(* The database is external: it refuses a second service of a name, a      *)
(* second dependency between the same two, and a row that names one that   *)
(* is gone; what names a service goes with it, and a member of which the   *)
(* device goes names nothing.  Interfaces are never deleted.  Members that *)
(* differ in nothing count as one.                                         *)
(***************************************************************************)
EXTENDS Naturals, FiniteSets

CONSTANTS
  Editor,     \* requests that are under way at a time
  ServiceId,  \* services that are ever made
  Title,      \* names of services
  NoTitle,    \* there is no such service
  Element,    \* devices and interfaces
  Deletable,  \* devices that nothing else in the database names
  NoElement   \* a member names nothing

ASSUME ServiceAssumption ==
  /\ NoTitle \notin Title /\ NoElement \notin Element
  /\ Deletable \subseteq Element

VARIABLES
  title,    \* [ServiceId -> name of the service, or NoTitle]
  created,  \* services that were made
  edges,    \* [ServiceId \X ServiceId -> rows that say so]
  members,  \* the rows
  elements, \* devices and interfaces that there are
  editor    \* [Editor -> what it is at]

service_vars == <<title, created, edges, members, elements, editor>>

NoEditor == [at |-> "idle"]
Edits(e, what) == editor[e] # NoEditor /\ editor[e].at = what
Exists(s) == title[s] # NoTitle
Member(s, el) == [of |-> s, names |-> el, bare |-> el = NoElement]

CatalogueInit ==
  /\ title = [s \in ServiceId |-> NoTitle]
  /\ created = {}
  /\ edges = [p \in ServiceId \X ServiceId |-> 0]
  /\ members = {}
  /\ elements = Element
  /\ editor = [e \in Editor |-> NoEditor]

Reads(e, what) ==
  /\ editor[e] = NoEditor
  /\ editor' = [editor EXCEPT ![e] = what]
  /\ UNCHANGED <<title, created, edges, members, elements>>

Ends(e) == editor' = [editor EXCEPT ![e] = NoEditor]

Named(t) == \E s \in ServiceId : title[s] = t

-----------------------------------------------------------------------------
(* create_service, which checks the name, and no member.                   *)
CheckName(e, t, els) ==
  /\ ~Named(t)
  /\ Reads(e, [at |-> "creates", title |-> t, els |-> els])

CreateService(e) ==
  /\ Edits(e, "creates")
  /\ ~Named(editor[e].title) /\ editor[e].els \subseteq elements \cup {NoElement}
  /\ \E s \in ServiceId \ created :
       /\ created' = created \cup {s}
       /\ title' = [title EXCEPT ![s] = editor[e].title]
       /\ members' = members \cup {Member(s, el) : el \in editor[e].els}
  /\ Ends(e)
  /\ UNCHANGED <<edges, elements>>

\* update_service, which does not check the name that it is given.
FindService(e, s, t) ==
  Exists(s) /\ Reads(e, [at |-> "renames", service |-> s, title |-> t])

RenameService(e) ==
  /\ Edits(e, "renames")
  /\ LET s == editor[e].service
         t == editor[e].title
     IN  /\ Exists(s) /\ (Named(t) => title[s] = t)
         /\ title' = [title EXCEPT ![s] = t]
  /\ Ends(e)
  /\ UNCHANGED <<created, edges, members, elements>>

(* delete_service loads what names the service before it deletes it.       *)
LoadService(e, s) ==
  Exists(s) /\ Reads(e, [at |-> "deletes", service |-> s, loaded |-> edges])

\* Mutant of Cascaded: the dependencies that were loaded are deleted.
CascadedLoaded(e, p) ==
  IF editor[e].service \in {p[1], p[2]}
  THEN edges[p] - editor[e].loaded[p] ELSE edges[p]

\* cascade="all, delete-orphan" and ondelete="CASCADE"
Cascaded(e, p) ==
  IF editor[e].service \in {p[1], p[2]} THEN 0 ELSE edges[p]

DeleteService(e) ==
  /\ Edits(e, "deletes")
  /\ title' = [title EXCEPT ![editor[e].service] = NoTitle]
  /\ edges' = [p \in DOMAIN edges |-> Cascaded(e, p)]
  /\ members' = {m \in members : m.of # editor[e].service}
  /\ Ends(e)
  /\ UNCHANGED <<created, elements>>

-----------------------------------------------------------------------------
\* add_member names a device or an interface, which it does not look up.
CheckMember(e, s, el) ==
  Exists(s) /\ Reads(e, [at |-> "joins", service |-> s, names |-> el])

AddMember(e) ==
  /\ Edits(e, "joins")
  /\ Exists(editor[e].service) /\ editor[e].names \in elements
  /\ members' = members \cup {Member(editor[e].service, editor[e].names)}
  /\ Ends(e)
  /\ UNCHANGED <<title, created, edges, elements>>

\* add_dependency: both are there, are two, and no dependency is.
CheckDependency(e, s, t) ==
  /\ Exists(s) /\ Exists(t) /\ s # t /\ edges[<<s, t>>] = 0
  /\ Reads(e, [at |-> "links", from |-> s, to |-> t])

AddDependency(e) ==
  /\ Edits(e, "links")
  /\ LET p == <<editor[e].from, editor[e].to>>
     IN  /\ Exists(p[1]) /\ Exists(p[2]) /\ edges[p] = 0
         /\ edges' = [edges EXCEPT ![p] = @ + 1]
  /\ Ends(e)
  /\ UNCHANGED <<title, created, members, elements>>

(* The database refuses what is to be written, or the request fails.       *)
EditFails(e) ==
  /\ editor[e] # NoEditor
  /\ Ends(e)
  /\ UNCHANGED <<title, created, edges, members, elements>>

\* remove_member, remove_dependency
RemoveMember ==
  /\ \E m \in members : members' = members \ {m}
  /\ UNCHANGED <<title, created, edges, elements, editor>>

RemoveDependency ==
  /\ \E p \in DOMAIN edges :
       edges[p] > 0 /\ edges' = [edges EXCEPT ![p] = @ - 1]
  /\ UNCHANGED <<title, created, members, elements, editor>>

\* delete_device of api/devices/crud.py, with ondelete="SET NULL"
DeleteDevice(d) ==
  /\ d \in elements
  /\ elements' = elements \ {d}
  /\ members' = {IF m.names = d
                   THEN [of |-> m.of, names |-> NoElement, bare |-> m.bare]
                   ELSE m : m \in members}
  /\ UNCHANGED <<title, created, edges, editor>>

CatalogueNext ==
  \/ \E e \in Editor :
       \/ \E t \in Title, els \in SUBSET (Element \cup {NoElement}) :
            Cardinality(els) <= 1 /\ CheckName(e, t, els)
       \/ \E s \in ServiceId, t \in Title : FindService(e, s, t)
       \/ \E s \in ServiceId : LoadService(e, s)
       \/ \E s \in ServiceId, el \in Element : CheckMember(e, s, el)
       \/ \E s, t \in ServiceId : CheckDependency(e, s, t)
       \/ CreateService(e) \/ RenameService(e) \/ DeleteService(e)
       \/ AddMember(e) \/ AddDependency(e) \/ EditFails(e)
  \/ RemoveMember \/ RemoveDependency
  \/ \E d \in Deletable : DeleteDevice(d)

CatalogueSpec == CatalogueInit /\ [][CatalogueNext]_service_vars

-----------------------------------------------------------------------------
(* However requests overlap, what the scores and the searches of affected  *)
(* services walk is a graph: a dependency is between two services that     *)
(* there are, and is there once; a member is of a service that there is    *)
(* and names a device that there is, unless its device was deleted or it   *)
(* was made to name none.                                                  *)
CatalogueSound ==
  /\ \A p \in DOMAIN edges : edges[p] > 0 =>
       edges[p] = 1 /\ Exists(p[1]) /\ Exists(p[2]) /\ p[1] # p[2]
  /\ \A m \in members :
       /\ Exists(m.of)
       /\ IF m.names = NoElement THEN m.bare \/ elements # Element
          ELSE m.names \in elements

=============================================================================
