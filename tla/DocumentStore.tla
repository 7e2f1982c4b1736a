---------------------------- MODULE DocumentStore ----------------------------
(***************************************************************************)
(* What the durable store promises its user, with no journal, snapshot or  *)
(* replay in it: a document of keyed values that commits change one at a   *)
(* time and that a restart brings back.                                    *)
(*                                                                         *)
(* A commit that was reported as durable is there after every restart.  A  *)
(* commit that was interrupted or failed once its last record was under    *)
(* way may be there or not, and nothing else ever is.  The promise ends    *)
(* when the medium is damaged.                                             *)
(***************************************************************************)
EXTENDS Integers

CONSTANTS Keys,   \* the slots of the document
          Nothing \* no commit is in progress

VARIABLES
  open,    \* there is a session
  image,   \* the value of each key, as the number of the commit, 0 for none
  busy,    \* the commit in progress
  reached, \* the commits whose last record may have reached the disk
  acked,   \* the commits reported as durable
  damaged

vars == <<open, image, busy, reached, acked, damaged>>

Blank == [k \in Keys |-> 0]

Init ==
  /\ open = FALSE /\ image = Blank /\ busy = Nothing
  /\ reached = {} /\ acked = {} /\ damaged = FALSE

\* Commits are numbered; a new one has a number none was seen with.
Begin ==
  /\ open /\ busy = Nothing
  /\ busy' # Nothing
  /\ \A m \in reached \cup acked : m.id < busy'.id
  /\ UNCHANGED <<open, image, reached, acked, damaged>>

Reach ==
  /\ busy # Nothing
  /\ reached' = reached \cup {busy}
  /\ UNCHANGED <<open, image, busy, acked, damaged>>

\* Mutations of other slots than the keys leave the image alone.
Commit ==
  /\ busy \in reached
  /\ image' = [k \in Keys |-> IF busy.target = k THEN busy.id ELSE image[k]]
  /\ acked' = acked \cup {busy}
  /\ busy' = Nothing
  /\ UNCHANGED <<open, reached, damaged>>

\* The caller is told of an error. The session does not see the change.
Fail ==
  /\ busy # Nothing
  /\ busy' = Nothing
  /\ UNCHANGED <<open, image, reached, acked, damaged>>

\* The store is closed, or its process dies, a commit in progress or not.
Stop ==
  /\ open
  /\ open' = FALSE /\ image' = Blank /\ busy' = Nothing
  /\ UNCHANGED <<reached, acked, damaged>>

\* A key has the value of a commit that reached the disk, and none that is
\* older than one reported as durable.
Open ==
  /\ ~open
  /\ open' = TRUE
  /\ image' \in [Keys -> {0} \cup {m.id : m \in reached}]
  /\ \A k \in Keys :
       /\ image'[k] # 0 => \E m \in reached : m.id = image'[k] /\ m.target = k
       /\ \A m \in acked : m.target = k => m.id <= image'[k]
  /\ UNCHANGED <<busy, reached, acked, damaged>>

\* From the moment of the damage on.
Damaged == damaged'

Next == Begin \/ Reach \/ Commit \/ Fail \/ Stop \/ Open \/ Damaged

Spec == Init /\ [][Next]_vars
=============================================================================
