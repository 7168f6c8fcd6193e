------------------------------ MODULE LfsTypes ------------------------------
(***************************************************************************)
(* The data every component of lfsd shares: repositories, object ids,      *)
(* sizes, storage backends and object URIs, and the configuration that     *)
(* ties a repository to its backend.                                       *)
(***************************************************************************)
EXTENDS Integers

CONSTANTS
    Repo,           \* repository names, "{host}/{path}" in lower case
    Oid,            \* SHA-256 object ids (well-formed ones only)
    Size,           \* sizes that a client may claim
    Backend,        \* configured storage backends, each with its own scheme
    Proxier,        \* the backends that are filesystem backends
    StorageOf,      \* the backend of the forge host that a repository is on
    ContentSize,    \* the size of the bytes whose SHA-256 is the object id
    MaxObjectSize,  \* MAX_OBJECT_SIZE; 0 means no limit
    Null,           \* SQL NULL
    Ignored         \* the literal "ignored" that serveBatch passes as a URI

\* The storage backends that hand out presigned URLs.
Presigner == Backend \ Proxier

(***************************************************************************)
(* The canonical location of an object: the backend's scheme (and bucket   *)
(* or root), then the object id.  Both kinds of backend derive it from the *)
(* object id alone, so an upload of the same object lands on the same URI. *)
(***************************************************************************)
URI(b, oid) == <<b, oid>>

Uri == Backend \X Oid

\* keyFromURI and pathFromURI accept a URI only under the backend's own scheme.
Owns(b, uri) == uri \in Uri /\ uri[1] = b

TooLarge(size) == MaxObjectSize > 0 /\ size > MaxObjectSize

ASSUME ConfigAssumption ==
    /\ Proxier \subseteq Backend
    /\ StorageOf \in [Repo -> Backend]
    /\ Size \subseteq Int
    /\ ContentSize \in [Oid -> Size]
    /\ MaxObjectSize \in Nat

ASSUME NullAssumption ==
    /\ Null \notin Size
    /\ Null \notin Uri
    /\ Ignored \notin Uri
    /\ Ignored # Null
=============================================================================
