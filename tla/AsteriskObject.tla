--------------------------- MODULE AsteriskObject ---------------------------
(***************************************************************************)
(* Ao2<T> (astobj2.rs): a reference to an object Asterisk counts the       *)
(* references of, and Ao2Lock, the right to an object's lock.  Cloning and *)
(* dropping Ao2 change the count; from_raw and into_raw pass a reference   *)
(* on without changing it.  An object is destroyed with its last           *)
(* reference.                                                              *)
(***************************************************************************)
EXTENDS Naturals

CONSTANTS Objects,  \* the objects, here channels
          Free      \* nobody, as the holder of a lock

VARIABLES refs,  \* refs[o]: the references to o; 0 before and after it exists
          lock   \* lock[o]: who has locked o, or Free

ObjectInit == /\ refs = [o \in Objects |-> 0]
              /\ lock = [o \in Objects |-> Free]

\* __ast_channel_alloc as try_from_raw and move_lock rely on it: the object comes
\* with one reference, and locked.
NewLocked(o, owner) == /\ refs' = [refs EXCEPT ![o] = 1]
                       /\ lock' = [lock EXCEPT ![o] = owner]

\* clone_raw, once for every object of S.
Clone(S) == refs' = [o \in Objects |-> IF o \in S THEN refs[o] + 1 ELSE refs[o]]

\* drop, of one reference to every object of S.
Release(S) == refs' = [o \in Objects |-> IF o \in S THEN refs[o] - 1 ELSE refs[o]]

\* Asterisk's ao2_lock, and the unlock of Ao2Lock's drop or of Asterisk.
Lock(o, owner) == /\ lock[o] = Free
                  /\ lock' = [lock EXCEPT ![o] = owner]
Unlock(o) == lock' = [lock EXCEPT ![o] = Free]

ObjectTypeOK(Owners) == /\ refs \in [Objects -> Nat]
                        /\ lock \in [Objects -> Owners \cup {Free}]
=============================================================================
