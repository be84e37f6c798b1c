----------------------------- MODULE TokenStore -----------------------------
(***************************************************************************)
(* The in-memory bearer-token store, dataplane/src/tokens.rs: a hash map   *)
(* from token to TokenRecord behind one RwLock.  Each operation takes the  *)
(* lock once, so each is one atomic update or read of the map.  The map is *)
(* a set of entries with at most one entry per token.                      *)
(***************************************************************************)

Entry(t, f, d) == [token |-> t, flow |-> f, dataset |-> d]

(* A store with one token per flow.                                        *)
IssueOnlyOne(store, t, f, d) == {e \in store : e.flow # f} \cup {Entry(t, f, d)}

(* The HashMap::insert of issue: an entry with the same key is replaced.   *)
IssueToken(store, t, f, d) ==
  {e \in store : e.token # t} \cup {Entry(t, f, d)}

LookupToken(store, t) == {e \in store : e.token = t}

(* A revocation that forgets all but one of a flow's tokens.               *)
RevokeOnlyOne(store, f) ==
  {e \in store : \/ e.flow # f
                 \/ e # CHOOSE other \in store : other.flow = f}

RevokeFlow(store, f) == {e \in store : e.flow # f}
=============================================================================
