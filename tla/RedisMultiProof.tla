-------------------------- MODULE RedisMultiProof --------------------------
(***************************************************************************)
(* Proofs about RedisMulti for any clients, databases, keys, values and    *)
(* commands.  The first part is about the commands as operators on stores, *)
(* the second about the steps of the server, the third about the slave:    *)
(* that it has the data of its master whenever the master is between       *)
(* commands, and sees transactions whole.                                  *)
(***************************************************************************)
EXTENDS RedisMulti, FoldFacts

Message == [db : Dbs, op : Ops]

StoreSet ==
  [dict : Dict, expires : Expires, slave : BOOLEAN, out : Seq(Message),
   touched : SUBSET Places, flushed : SUBSET Places, dirty : BOOLEAN]

(* ExpiresHaveKeys, of a store. *)
HaveKeys(s) == \A p \in Places : s.expires[p] # "never" => s.dict[p] # NoValue

(* s differs from t at p, and not because p had expired in t. *)
Differs(t, s, p) ==
  /\ s.dict[p] # t.dict[p] \/ s.expires[p] # t.expires[p]
  /\ ~(t.expires[p] = "past" /\ s.dict[p] = NoValue)

(* What s has changed of t it has signalled. *)
Signals(t, s) ==
  \A p \in Places : Differs(t, s, p) => p \in s.touched \/ p \in s.flushed

(* A master's store in order. *)
Good(s) == s \in StoreSet /\ HaveKeys(s) /\ s.slave = FALSE

-----------------------------------------------------------------------------
(* The C-level API.                                                        *)

(* dbDelete removes the key and its expire time and changes nothing else.  *)
LEMMA DeleteFacts ==
  ASSUME NEW s, Good(s), NEW p \in Places
  PROVE  /\ Good(dbDelete(s, p))
         /\ dbDelete(s, p).touched = s.touched
         /\ dbDelete(s, p).flushed = s.flushed
         /\ \A q \in Places : q # p =>
              /\ dbDelete(s, p).dict[q] = s.dict[q]
              /\ dbDelete(s, p).expires[q] = s.expires[q]
         /\ dbDelete(s, p).dict[p] = NoValue
         /\ dbDelete(s, p).expires[p] = "never"
  BY DEF Good, StoreSet, HaveKeys, dbDelete, Dict, Expires

(* A key found expired is gone, with its expire time, and nothing else     *)
(* has changed; a key not expired is left as it is.                        *)
LEMMA ExpireFacts ==
  ASSUME NEW s, Good(s), NEW p \in Places
  PROVE  LET t == expireIfNeeded(s, p)
         IN /\ Good(t)
            /\ t.touched = s.touched /\ t.flushed = s.flushed
            /\ t.expires[p] # "past"
            /\ \A q \in Places :
                 \/ t.dict[q] = s.dict[q] /\ t.expires[q] = s.expires[q]
                 \/ /\ s.expires[q] = "past"
                    /\ t.dict[q] = NoValue /\ t.expires[q] = "never"
<1> DEFINE u == propagateExpire(s, p)
<1>1. CASE s.expires[p] # "past"
  BY <1>1 DEF expireIfNeeded
<1>2. CASE s.expires[p] = "past"
  <2>1. p[1] \in Dbs /\ p[2] \in Keys
    BY DEF Places
  <2>2. DelOp({p[2]}) \in Ops
    BY <2>1 DEF DelOp, Ops
  <2>3. [db |-> p[1], op |-> DelOp({p[2]})] \in Message
    BY <2>1, <2>2 DEF Message
  <2>4. Good(u) /\ u.touched = s.touched /\ u.flushed = s.flushed
          /\ u.dict = s.dict /\ u.expires = s.expires
    <3> DEFINE m == [db |-> p[1], op |-> DelOp({p[2]})]
    <3>1. m \in Message
      BY <2>3
    <3>2. u = [s EXCEPT !.out = Append(s.out, m)]
      BY DEF propagateExpire
    <3> HIDE DEF u, m
    <3>3. s \in StoreSet /\ s.slave = FALSE /\ HaveKeys(s)
      BY DEF Good
    <3>4. Append(s.out, m) \in Seq(Message)
      BY <3>1, <3>3 DEF StoreSet
    <3>5. u \in StoreSet
      BY <3>2, <3>3, <3>4 DEF StoreSet
    <3>6. /\ u.touched = s.touched /\ u.flushed = s.flushed
          /\ u.dict = s.dict /\ u.expires = s.expires /\ u.slave = s.slave
      BY <3>2, <3>3 DEF StoreSet
    <3> QED BY <3>3, <3>5, <3>6 DEF Good, HaveKeys
  <2>5. expireIfNeeded(s, p) = dbDelete(u, p)
    BY <1>2 DEF expireIfNeeded, Good
  <2> HIDE DEF u
  <2> QED BY <1>2, <2>4, <2>5, DeleteFacts
<1> QED BY <1>1, <1>2

(* The two ways of signalling, and Dirty, keep the data. *)
LEMMA SignalFacts ==
  ASSUME NEW s, Good(s), NEW p \in Places
  PROVE  /\ Good(signalModifiedKey(s, p))
         /\ signalModifiedKey(s, p).dict = s.dict
         /\ signalModifiedKey(s, p).expires = s.expires
         /\ signalModifiedKey(s, p).touched = s.touched \cup {p}
         /\ signalModifiedKey(s, p).flushed = s.flushed
  BY DEF Good, StoreSet, HaveKeys, signalModifiedKey

(* Counting a modification keeps the data and the signals. *)
LEMMA DirtyFacts ==
  ASSUME NEW s, Good(s)
  PROVE  /\ Good(Dirty(s))
         /\ Dirty(s).dict = s.dict /\ Dirty(s).expires = s.expires
         /\ Dirty(s).touched = s.touched /\ Dirty(s).flushed = s.flushed
  BY DEF Good, StoreSet, HaveKeys, Dirty

(* s with one key written. *)
Written(s, p, v, e) == [s EXCEPT !.dict[p] = v, !.expires[p] = e]

(* Writing one key, with any expire time. *)
LEMMA WriteFacts ==
  ASSUME NEW s, Good(s), NEW p \in Places, NEW v \in Values,
         NEW e \in {"never", "later", "past"}
  PROVE  LET t == Written(s, p, v, e)
         IN /\ Good(t)
            /\ t.touched = s.touched /\ t.flushed = s.flushed
            /\ t.dict[p] = v /\ t.expires[p] = e
            /\ \A q \in Places : q # p =>
                 t.dict[q] = s.dict[q] /\ t.expires[q] = s.expires[q]
<1> DEFINE t == Written(s, p, v, e)
<1>1. v # NoValue
  BY RedisDbAssumption
<1>2. t \in StoreSet /\ t.slave = FALSE
  BY DEF Good, StoreSet, Dict, Expires, Written
<1>3. /\ t.touched = s.touched /\ t.flushed = s.flushed
      /\ t.dict[p] = v /\ t.expires[p] = e
      /\ \A q \in Places : q # p =>
           t.dict[q] = s.dict[q] /\ t.expires[q] = s.expires[q]
  BY DEF Good, StoreSet, Dict, Expires, Written
<1> HIDE DEF t
<1>4. HaveKeys(t)
  BY <1>1, <1>3 DEF HaveKeys, Good
<1>5. Good(t)
  BY <1>2, <1>4 DEF Good
<1> QED BY <1>3, <1>5 DEF t

(* Giving an existing key an expire time. *)
LEMMA SetExpireFacts ==
  ASSUME NEW s, Good(s), NEW p \in Places, Exists(s, p)
  PROVE  /\ Good(setExpire(s, p))
         /\ setExpire(s, p).dict = s.dict
         /\ setExpire(s, p).touched = s.touched
         /\ setExpire(s, p).flushed = s.flushed
         /\ \A q \in Places : q # p => setExpire(s, p).expires[q] = s.expires[q]
  BY DEF Good, StoreSet, HaveKeys, Expires, setExpire, Exists

-----------------------------------------------------------------------------
(* The commands: each keeps the store in order, and signals what it has    *)
(* changed, MOVE and PERSIST excepted.                                     *)

(* A reading command signals all it changes: at most an expired key. *)
LEMMA ReadSignals ==
  ASSUME NEW s, Good(s), NEW p \in Places
  PROVE  Good(lookupKeyRead(s, p)) /\ Signals(s, lookupKeyRead(s, p))
  BY ExpireFacts DEF lookupKeyRead, Signals, Differs

(* setKey overwrites the key whether or not it had expired. *)
LEMMA SetKeyFacts ==
  ASSUME NEW s, Good(s), NEW p \in Places, NEW v \in Values
  PROVE  /\ Good(setKey(s, p, v))
         /\ p \in setKey(s, p, v).touched
         /\ setKey(s, p, v).dict[p] = v
         /\ \A q \in Places : q # p => ~Differs(s, setKey(s, p, v), q)
<1> DEFINE found == expireIfNeeded(s, p)
           w == Written(found, p, v, "never")
<1>1. setKey(s, p, v) = signalModifiedKey(w, p)
  BY DEF setKey, Written
<1>2. Good(found) /\ \A q \in Places : ~Differs(s, found, q)
  BY ExpireFacts DEF Differs
<1> HIDE DEF found
<1>3. /\ Good(w) /\ w.dict[p] = v
      /\ \A q \in Places : q # p =>
           w.dict[q] = found.dict[q] /\ w.expires[q] = found.expires[q]
  <2>1. "never" \in {"never", "later", "past"}
    OBVIOUS
  <2> QED BY <1>2, <2>1, WriteFacts
<1> HIDE DEF w
<1> QED BY <1>1, <1>2, <1>3, SignalFacts DEF Differs

(* SET, SETNX and SETEX keep the key space in order and signal the key. *)
LEMMA SetSignals ==
  ASSUME NEW s, Good(s), NEW p \in Places, NEW v \in Values,
         NEW nx \in BOOLEAN, NEW ttl \in BOOLEAN
  PROVE  /\ Good(setGenericCommand(s, p, v, nx, ttl))
         /\ Signals(s, setGenericCommand(s, p, v, nx, ttl))
<1> DEFINE found == expireIfNeeded(s, p)
           key == setKey(found, p, v)
           set == Dirty(key)
           timed == setExpire(set, p)
           result == setGenericCommand(s, p, v, nx, ttl)
<1>1. result = found \/ result = timed \/ result = set
  BY DEF setGenericCommand
<1>2. /\ Good(found)
      /\ \A q \in Places :
           \/ found.dict[q] = s.dict[q] /\ found.expires[q] = s.expires[q]
           \/ /\ s.expires[q] = "past"
              /\ found.dict[q] = NoValue /\ found.expires[q] = "never"
  BY ExpireFacts
<1> HIDE DEF found, result
<1>3. /\ Good(key) /\ p \in key.touched /\ key.dict[p] = v
      /\ \A q \in Places : q # p => ~Differs(found, key, q)
  BY <1>2, SetKeyFacts
<1>4. \A q \in Places : q # p => ~Differs(s, key, q)
  BY <1>2, <1>3 DEF Differs
<1> HIDE DEF key
<1>5. /\ Good(set) /\ p \in set.touched /\ Exists(set, p)
      /\ \A q \in Places : q # p => ~Differs(s, set, q)
  BY <1>3, <1>4, DirtyFacts, RedisDbAssumption DEF Differs, Exists
<1> HIDE DEF set
<1>6. /\ Good(timed) /\ p \in timed.touched
      /\ \A q \in Places : q # p => ~Differs(s, timed, q)
  BY <1>5, SetExpireFacts DEF Differs
<1> HIDE DEF timed
<1>7. Good(result)
  BY <1>1, <1>2, <1>5, <1>6
<1>8. Signals(s, found)
  BY <1>2 DEF Signals, Differs
<1>9. Signals(s, set) /\ Signals(s, timed)
  BY <1>5, <1>6 DEF Signals
<1> QED BY <1>1, <1>7, <1>8, <1>9 DEF result

(* DEL keeps the key space in order and signals every key it deletes. *)
LEMMA DelSignals ==
  ASSUME NEW s, Good(s), NEW d \in Dbs, NEW keys \in SUBSET Keys
  PROVE  Good(delCommand(s, d, keys)) /\ Signals(s, delCommand(s, d, keys))
<1> DEFINE gone == {d} \X keys
           deleted == { p \in gone : Exists(s, p) }
           dictOf == [p \in Places |-> IF p \in gone THEN NoValue ELSE s.dict[p]]
           expiresOf == [p \in Places |-> IF p \in gone THEN "never"
                                          ELSE s.expires[p]]
           t == delCommand(s, d, keys)
<1>1. gone \subseteq Places
  BY DEF Places
<1>2. t = [s EXCEPT !.dict = dictOf, !.expires = expiresOf,
                    !.touched = @ \cup deleted, !.dirty = @ \/ deleted # {}]
  BY DEF delCommand
<1>3. deleted \subseteq gone
  OBVIOUS
<1> HIDE DEF t, gone
<1>4. dictOf \in Dict /\ expiresOf \in Expires
  BY DEF Dict, Expires, Good, StoreSet
<1>5. \A p \in Places :
        /\ dictOf[p] = IF p \in gone THEN NoValue ELSE s.dict[p]
        /\ expiresOf[p] = IF p \in gone THEN "never" ELSE s.expires[p]
        /\ p \in gone /\ s.dict[p] # NoValue => p \in deleted
  BY DEF Exists
<1> HIDE DEF dictOf, expiresOf, deleted
<1>6. t \in StoreSet
  BY <1>1, <1>2, <1>3, <1>4 DEF Good, StoreSet
<1>7. /\ t.dict = dictOf /\ t.expires = expiresOf /\ t.slave = FALSE
      /\ t.touched = s.touched \cup deleted
  BY <1>2 DEF Good, StoreSet
<1>8. HaveKeys(t)
  BY <1>5, <1>7 DEF Good, HaveKeys
<1>9. Signals(s, t)
  BY <1>5, <1>7 DEF Signals, Differs, Good, HaveKeys
<1> QED BY <1>6, <1>7, <1>8, <1>9 DEF Good, t

(* EXPIRE keeps the key space in order and signals the key, deleted or not. *)
LEMMA ExpireSignals ==
  ASSUME NEW s, Good(s), NEW p \in Places, NEW past \in BOOLEAN
  PROVE  /\ Good(expireGenericCommand(s, p, past))
         /\ Signals(s, expireGenericCommand(s, p, past))
<1> DEFINE t == IF past THEN dbDelete(s, p) ELSE setExpire(s, p)
           told == signalModifiedKey(t, p)
           result == expireGenericCommand(s, p, past)
<1>1. CASE ~Exists(s, p)
  BY <1>1 DEF expireGenericCommand, Signals, Differs
<1>2. CASE Exists(s, p)
  <2>1. result = Dirty(told)
    BY <1>2 DEF expireGenericCommand, Good
  <2>2. Good(t) /\ \A q \in Places : q # p => ~Differs(s, t, q)
    BY <1>2, DeleteFacts, SetExpireFacts DEF Differs
  <2> HIDE DEF t, result
  <2>3. Good(told) /\ p \in told.touched /\ told.dict = t.dict /\ told.expires = t.expires
    BY <2>2, SignalFacts
  <2> HIDE DEF told
  <2>4. Good(result) /\ p \in result.touched
          /\ result.dict = t.dict /\ result.expires = t.expires
    BY <2>1, <2>3, DirtyFacts
  <2> QED BY <2>2, <2>4 DEF Signals, Differs, result
<1> QED BY <1>1, <1>2

(* PERSIST keeps the key space in order; it signals nothing. *)
LEMMA PersistKeepsOrder ==
  ASSUME NEW s, Good(s), NEW p \in Places
  PROVE  Good(persistCommand(s, p))
<1> DEFINE t == [s EXCEPT !.expires[p] = "never"]
<1>1. Good(t)
  BY DEF Good, StoreSet, HaveKeys, Expires
<1> HIDE DEF t
<1>2. Good(Dirty(t))
  BY <1>1, DirtyFacts
<1> QED BY <1>2 DEF persistCommand, t

(* Two keys looked up for writing, as RENAME and MOVE do: each is as it    *)
(* was or has been found expired.                                          *)
LEMMA LookupTwoFacts ==
  ASSUME NEW s, Good(s), NEW p \in Places, NEW q \in Places
  PROVE  LET found == expireIfNeeded(s, p)
             target == expireIfNeeded(found, q)
         IN /\ Good(found) /\ Good(target)
            /\ Signals(s, found) /\ Signals(s, target)
            /\ \A r \in Places :
                 \/ target.dict[r] = s.dict[r] /\ target.expires[r] = s.expires[r]
                 \/ /\ s.expires[r] = "past"
                    /\ target.dict[r] = NoValue /\ target.expires[r] = "never"
            /\ found.dict[p] \in Values \cup {NoValue}
            /\ found.expires[p] \in {"never", "later", "past"}
<1> DEFINE found == expireIfNeeded(s, p)
           target == expireIfNeeded(found, q)
<1>1. /\ Good(found)
      /\ \A r \in Places :
           \/ found.dict[r] = s.dict[r] /\ found.expires[r] = s.expires[r]
           \/ /\ s.expires[r] = "past"
              /\ found.dict[r] = NoValue /\ found.expires[r] = "never"
  BY ExpireFacts
<1> HIDE DEF found
<1>2. /\ Good(target)
      /\ \A r \in Places :
           \/ target.dict[r] = found.dict[r] /\ target.expires[r] = found.expires[r]
           \/ /\ found.expires[r] = "past"
              /\ target.dict[r] = NoValue /\ target.expires[r] = "never"
  BY <1>1, ExpireFacts
<1> HIDE DEF target
<1>3. \A r \in Places :
        \/ target.dict[r] = s.dict[r] /\ target.expires[r] = s.expires[r]
        \/ /\ s.expires[r] = "past"
           /\ target.dict[r] = NoValue /\ target.expires[r] = "never"
  BY <1>1, <1>2
<1>4. Signals(s, found) /\ Signals(s, target)
  BY <1>1, <1>3 DEF Signals, Differs
<1>5. /\ found.dict[p] \in Values \cup {NoValue}
      /\ found.expires[p] \in {"never", "later", "past"}
  BY <1>1 DEF Good, StoreSet, Dict, Expires
<1> QED BY <1>1, <1>2, <1>3, <1>4, <1>5 DEF found, target

(* RENAME keeps the key space in order and signals both names. *)
LEMMA RenameSignals ==
  ASSUME NEW s, Good(s), NEW p \in Places, NEW q \in Places, NEW nx \in BOOLEAN
  PROVE  /\ Good(renameGenericCommand(s, p, q, nx))
         /\ Signals(s, renameGenericCommand(s, p, q, nx))
<1> DEFINE found == expireIfNeeded(s, p)
           target == expireIfNeeded(found, q)
           val == found.dict[p]
           time == found.expires[p]
           cleared == dbDelete(target, p)
           moved == Written(cleared, q, val, time)
           told == signalModifiedKey(moved, p)
           result == renameGenericCommand(s, p, q, nx)
<1>1. \/ result = s \/ result = found \/ result = target
      \/ p # q /\ val # NoValue /\ result = Dirty(signalModifiedKey(told, q))
  BY DEF renameGenericCommand, Exists, Written
<1>2. /\ Good(found) /\ Good(target) /\ Signals(s, found) /\ Signals(s, target)
      /\ \A r \in Places :
           \/ target.dict[r] = s.dict[r] /\ target.expires[r] = s.expires[r]
           \/ /\ s.expires[r] = "past"
              /\ target.dict[r] = NoValue /\ target.expires[r] = "never"
      /\ val \in Values \cup {NoValue} /\ time \in {"never", "later", "past"}
  BY LookupTwoFacts
<1>3. Signals(s, s)
  BY DEF Signals, Differs
<1> HIDE DEF result, target, val, time
<1>4. CASE p # q /\ val # NoValue /\ result = Dirty(signalModifiedKey(told, q))
  <2>1. /\ Good(cleared)
        /\ \A r \in Places : r # p =>
             cleared.dict[r] = target.dict[r] /\ cleared.expires[r] = target.expires[r]
    BY <1>2, DeleteFacts
  <2> HIDE DEF cleared
  <2>2. val \in Values /\ time \in {"never", "later", "past"} /\ q \in Places
    BY <1>2, <1>4
  <2>3. /\ Good(moved)
        /\ \A r \in Places : r # q =>
             moved.dict[r] = cleared.dict[r] /\ moved.expires[r] = cleared.expires[r]
    <3>1. Good(cleared) /\ q \in Places
      BY <2>1
    <3> HIDE DEF moved
    <3>2. Good(Written(cleared, q, val, time))
      BY <2>2, <3>1, WriteFacts
    <3>3. \A r \in Places : r # q =>
             /\ Written(cleared, q, val, time).dict[r] = cleared.dict[r]
             /\ Written(cleared, q, val, time).expires[r] = cleared.expires[r]
      BY <3>1 DEF Written, Good, StoreSet, Dict, Expires
    <3> QED BY <3>2, <3>3 DEF moved
  <2> HIDE DEF moved
  <2>4. Good(told) /\ p \in told.touched
          /\ told.dict = moved.dict /\ told.expires = moved.expires
    BY <2>3, SignalFacts
  <2> HIDE DEF told
  <2> DEFINE both == signalModifiedKey(told, q)
  <2>5. Good(both) /\ p \in both.touched /\ q \in both.touched
          /\ both.dict = moved.dict /\ both.expires = moved.expires
    BY <2>4, SignalFacts
  <2> HIDE DEF both
  <2>6. Good(result) /\ p \in result.touched /\ q \in result.touched
          /\ result.dict = moved.dict /\ result.expires = moved.expires
    BY <1>4, <2>5, DirtyFacts DEF both
  <2>7. \A r \in Places : r # p /\ r # q => ~Differs(s, result, r)
    BY <1>2, <2>1, <2>3, <2>6 DEF Differs
  <2> QED BY <2>6, <2>7 DEF Signals, result
<1> QED BY <1>1, <1>2, <1>3, <1>4 DEF result

(* MOVE keeps the key space in order; it signals nothing. *)
LEMMA MoveKeepsOrder ==
  ASSUME NEW s, Good(s), NEW p \in Places, NEW q
  PROVE  Good(moveCommand(s, p, q))
<1>0. CASE q \notin Places
  BY <1>0 DEF moveCommand
<1> SUFFICES ASSUME q \in Places PROVE Good(moveCommand(s, p, q))
  BY <1>0
<1> DEFINE found == expireIfNeeded(s, p)
           target == expireIfNeeded(found, q)
           v == found.dict[p]
           cleared == dbDelete(target, p)
           moved == [cleared EXCEPT !.dict[q] = v]
           result == moveCommand(s, p, q)
<1>1. \/ result = s \/ result = found \/ result = target
      \/ v # NoValue /\ result = Dirty(moved)
  BY DEF moveCommand, Exists
<1>2. Good(found) /\ Good(target) /\ v \in Values \cup {NoValue}
  BY LookupTwoFacts
<1> HIDE DEF result, found, target, v
<1>3. Good(cleared)
  BY <1>2, DeleteFacts
<1> HIDE DEF cleared
<1>4. CASE v # NoValue /\ result = Dirty(moved)
  <2>1. Good(moved)
    BY <1>2, <1>3, <1>4 DEF Good, StoreSet, HaveKeys, Dict
  <2> HIDE DEF moved
  <2> QED BY <1>4, <2>1, DirtyFacts DEF result
<1> QED BY <1>1, <1>2, <1>4 DEF result

(* Emptying databases keeps the order and signals every key that existed. *)
LEMMA FlushFacts ==
  ASSUME NEW s, Good(s), NEW dbs \in SUBSET Dbs
  PROVE  Good(Flushed(s, dbs)) /\ Signals(s, Flushed(s, dbs))
<1> DEFINE t == Flushed(s, dbs)
           existing == { p \in dbs \X Keys : Exists(s, p) }
           dictOf == [p \in Places |-> IF p[1] \in dbs THEN NoValue ELSE s.dict[p]]
           expiresOf == [p \in Places |-> IF p[1] \in dbs THEN "never"
                                          ELSE s.expires[p]]
<1>1. t = [s EXCEPT !.flushed = existing, !.dict = dictOf, !.expires = expiresOf]
  BY DEF Flushed
<1>2. existing \subseteq Places
  BY DEF Places
<1>3. \A p \in Places : p[1] \in dbs /\ s.dict[p] # NoValue => p \in existing
  BY DEF Places, Exists
<1>4. dictOf \in Dict /\ expiresOf \in Expires
  BY DEF Dict, Expires, Good, StoreSet
<1>5. \A p \in Places :
        /\ dictOf[p] = IF p[1] \in dbs THEN NoValue ELSE s.dict[p]
        /\ expiresOf[p] = IF p[1] \in dbs THEN "never" ELSE s.expires[p]
  OBVIOUS
<1> HIDE DEF t, existing, dictOf, expiresOf
<1>6. t \in StoreSet
  BY <1>1, <1>2, <1>4 DEF Good, StoreSet
<1>7. /\ t.dict = dictOf /\ t.expires = expiresOf /\ t.slave = FALSE
      /\ t.flushed = existing
  BY <1>1 DEF Good, StoreSet
<1>8. HaveKeys(t)
  BY <1>5, <1>7 DEF Good, HaveKeys
<1>9. Signals(s, t)
  BY <1>3, <1>5, <1>7 DEF Signals, Differs, Good, HaveKeys
<1> QED BY <1>6, <1>7, <1>8, <1>9 DEF Good, t

(* FLUSHDB and FLUSHALL signal every key they remove. *)
LEMMA FlushSignals ==
  ASSUME NEW s, Good(s), NEW d \in Dbs
  PROVE  /\ Good(flushdbCommand(s, d)) /\ Signals(s, flushdbCommand(s, d))
         /\ Good(flushallCommand(s)) /\ Signals(s, flushallCommand(s))
<1> DEFINE one == Flushed(s, {d})
           all == Flushed(s, Dbs)
<1>1. Good(one) /\ Signals(s, one) /\ Good(all) /\ Signals(s, all)
  BY FlushFacts
<1>2. flushdbCommand(s, d) \in {one, Dirty(one)} /\ flushallCommand(s) = Dirty(all)
  BY DEF flushdbCommand, flushallCommand
<1> HIDE DEF one, all
<1> QED BY <1>1, <1>2, DirtyFacts DEF Signals, Differs

KeySpaceOps == { op \in Ops : op.cmd \notin {"select", "unwatch", "multi", "exec"} }

(* Every command on the key space keeps the store in order, and all but    *)
(* MOVE and PERSIST signal every change they make.                         *)
LEMMA ExecuteSignals ==
  ASSUME NEW s, Good(s), NEW d \in Dbs, NEW op \in KeySpaceOps
  PROVE  /\ Good(Execute(s, d, op))
         /\ op.cmd \notin Unsignalled => Signals(s, Execute(s, d, op))
<1> DEFINE result == Execute(s, d, op)
<1>0. op \in Ops /\ op.cmd \notin {"select", "unwatch", "multi", "exec"}
  BY DEF KeySpaceOps
<1>1. CASE op \in [cmd : {"get", "persist"}, key : Keys]
  <2>1. <<d, op.key>> \in Places
    BY <1>1 DEF Places
  <2>2. CASE op.cmd = "get"
    <3>1. result = lookupKeyRead(s, <<d, op.key>>)
      BY <2>2 DEF Execute
    <3> QED BY <2>1, <3>1, ReadSignals
  <2>3. CASE op.cmd = "persist"
    <3>1. result = persistCommand(s, <<d, op.key>>)
      BY <2>3 DEF Execute
    <3> QED BY <2>1, <2>3, <3>1, PersistKeepsOrder DEF Unsignalled
  <2> QED BY <1>1, <2>2, <2>3
<1>2. CASE op \in [cmd : {"set"}, key : Keys, val : Values, nx : BOOLEAN, ttl : BOOLEAN]
  <2>1. <<d, op.key>> \in Places /\ op.val \in Values
          /\ op.nx \in BOOLEAN /\ op.ttl \in BOOLEAN
    BY <1>2 DEF Places
  <2>2. result = setGenericCommand(s, <<d, op.key>>, op.val, op.nx, op.ttl)
    BY <1>2 DEF Execute
  <2> QED BY <2>1, <2>2, SetSignals
<1>3. CASE op \in [cmd : {"del"}, keys : SUBSET Keys]
  <2>1. result = delCommand(s, d, op.keys) /\ op.keys \in SUBSET Keys
    BY <1>3 DEF Execute
  <2> QED BY <2>1, DelSignals
<1>4. CASE op \in [cmd : {"expire"}, key : Keys, past : BOOLEAN]
  <2>1. <<d, op.key>> \in Places /\ op.past \in BOOLEAN
    BY <1>4 DEF Places
  <2>2. result = expireGenericCommand(s, <<d, op.key>>, op.past)
    BY <1>4 DEF Execute
  <2> QED BY <2>1, <2>2, ExpireSignals
<1>5. CASE op \in [cmd : {"rename"}, key : Keys, to : Keys, nx : BOOLEAN]
  <2>1. <<d, op.key>> \in Places /\ <<d, op.to>> \in Places /\ op.nx \in BOOLEAN
    BY <1>5 DEF Places
  <2>2. result = renameGenericCommand(s, <<d, op.key>>, <<d, op.to>>, op.nx)
    BY <1>5 DEF Execute
  <2> QED BY <2>1, <2>2, RenameSignals
<1>6. CASE op \in [cmd : {"move"}, key : Keys, db : Int]
  <2>1. <<d, op.key>> \in Places /\ op.cmd = "move"
    BY <1>6 DEF Places
  <2>2. result = moveCommand(s, <<d, op.key>>, <<op.db, op.key>>)
    BY <1>6 DEF Execute
  <2> QED BY <2>1, <2>2, MoveKeepsOrder DEF Unsignalled
<1>7. CASE op \in [cmd : {"flushdb", "flushall", "unwatch", "multi", "exec"}]
  <2>1. op.cmd \in {"flushdb", "flushall"}
    BY <1>0, <1>7
  <2>2. result = flushdbCommand(s, d) \/ result = flushallCommand(s)
    BY <2>1 DEF Execute
  <2> QED BY <2>2, FlushSignals
<1>8. op \notin [cmd : {"select"}, db : Dbs]
  BY <1>0
<1> HIDE DEF result
<1>9. Good(result) /\ (op.cmd \notin Unsignalled => Signals(s, result))
  BY <1>0, <1>1, <1>2, <1>3, <1>4, <1>5, <1>6, <1>7, <1>8 DEF Ops, result
<1> QED BY <1>9 DEF result

-----------------------------------------------------------------------------
(* The server.                                                             *)

(* The part of the invariant about the key space. *)
DataInv == dict \in Dict /\ expires \in Expires /\ ExpiresHaveKeys

(* The part about who is where, and what is queued. *)
SessionInv ==
  /\ db \in [Clients -> Dbs]
  /\ multi \in [Clients -> BOOLEAN]
  /\ queue \in [Clients -> Seq(Commands)]
  /\ running \in Clients \cup {Nobody}

(* The part about watched keys. *)
WatchInv ==
  /\ watched \in [Clients -> SUBSET Places]
  /\ watched_keys \in [Places -> SUBSET Clients]
  /\ dirty_cas \in [Clients -> BOOLEAN]
  /\ stale \in [Clients -> BOOLEAN]
  /\ WatchListsAgree
  /\ DirtyOnlyIfWatching
  /\ StaleIsDirty

Inv == DataInv /\ SessionInv /\ WatchInv /\ RunningWatchesNothing

(* The store a command starts from is in order. *)
LEMMA StoreIsGood ==
  ASSUME DataInv
  PROVE  Good(Store(dict, expires, FALSE))
<1> DEFINE s == Store(dict, expires, FALSE)
<1>1. s \in StoreSet
  <2>1. <<>> \in Seq(Message)
    OBVIOUS
  <2> QED BY <2>1 DEF Store, StoreSet, DataInv
<1>2. s.dict = dict /\ s.expires = expires /\ s.slave = FALSE
  BY DEF Store
<1> HIDE DEF s
<1> QED BY <1>1, <1>2 DEF Good, HaveKeys, DataInv, ExpiresHaveKeys, s

(* What a command run by the master leaves behind. *)
LEMMA CallFacts ==
  ASSUME DataInv, NEW d \in Dbs, NEW op \in KeySpaceOps
  PROVE  LET s == call(dict, expires, d, op)
         IN /\ s.dict \in Dict /\ s.expires \in Expires
            /\ \A p \in Places : s.expires[p] # "never" => s.dict[p] # NoValue
            /\ s.touched \subseteq Places /\ s.flushed \subseteq Places
            /\ op.cmd \notin Unsignalled =>
                 Changed(s) \subseteq s.touched \cup s.flushed
<1> DEFINE start == Store(dict, expires, FALSE)
           t == Execute(start, d, op)
           s == call(dict, expires, d, op)
<1>1. Good(start) /\ start.dict = dict /\ start.expires = expires
  BY StoreIsGood DEF Store
<1>2. s.dict = t.dict /\ s.expires = t.expires
        /\ s.touched = t.touched /\ s.flushed = t.flushed
  <2>1. Good(t)
    BY <1>1, ExecuteSignals
  <2> DEFINE m == [db |-> d, op |-> PropagatedAs(op)]
  <2>2. s = t \/ s = [t EXCEPT !.out = Append(t.out, m)]
    BY DEF call
  <2> HIDE DEF s, t, m
  <2> QED BY <2>1, <2>2 DEF Good, StoreSet
<1> HIDE DEF start, s
<1>3. Good(t) /\ (op.cmd \notin Unsignalled => Signals(start, t))
  BY <1>1, ExecuteSignals
<1> HIDE DEF t
<1>4. /\ s.dict \in Dict /\ s.expires \in Expires
      /\ s.touched \subseteq Places /\ s.flushed \subseteq Places
  BY <1>2, <1>3 DEF Good, StoreSet
<1>5. \A p \in Places : s.expires[p] # "never" => s.dict[p] # NoValue
  BY <1>2, <1>3 DEF Good, HaveKeys
<1>6. op.cmd \notin Unsignalled => Changed(s) \subseteq s.touched \cup s.flushed
  BY <1>1, <1>2, <1>3 DEF Signals, Differs, Changed, Exists
<1> QED BY <1>4, <1>5, <1>6 DEF s

(* A client that leaves every list it is on, with its flag cleared or      *)
(* clear before, keeps the lists in agreement.                             *)
LEMMA UnwatchKeepsWatchInv ==
  ASSUME WatchInv, NEW c \in Clients, unwatchAllKeys(c),
         \/ dirty_cas' = [dirty_cas EXCEPT ![c] = FALSE]
         \/ dirty_cas' = dirty_cas /\ ~dirty_cas[c]
  PROVE  WatchInv'
<1>1. /\ watched' \in [Clients -> SUBSET Places]
      /\ stale' \in [Clients -> BOOLEAN]
      /\ dirty_cas' \in [Clients -> BOOLEAN]
      /\ watched_keys' \in [Places -> SUBSET Clients]
  BY DEF WatchInv, unwatchAllKeys, Unwatched
<1>2. /\ watched'[c] = {}
      /\ stale'[c] = FALSE
      /\ dirty_cas'[c] = FALSE
      /\ \A x \in Clients : x # c =>
           /\ watched'[x] = watched[x] /\ stale'[x] = stale[x]
           /\ dirty_cas'[x] = dirty_cas[x]
  BY DEF WatchInv, unwatchAllKeys
<1>3. \A p \in Places, x \in Clients :
        x \in watched_keys'[p] <=> x \in watched_keys[p] /\ x # c
  BY DEF WatchInv, WatchListsAgree, unwatchAllKeys, Unwatched
<1>4. WatchListsAgree'
  BY <1>2, <1>3 DEF WatchInv, WatchListsAgree
<1>5. DirtyOnlyIfWatching' /\ StaleIsDirty'
  BY <1>2 DEF WatchInv, DirtyOnlyIfWatching, StaleIsDirty
<1> QED BY <1>1, <1>4, <1>5 DEF WatchInv

(* One command of a client, sent or queued, keeps the invariant. *)
LEMMA CallsKeepInv ==
  ASSUME Inv, NEW c \in Clients, NEW op \in Commands, Calls(c, op)
  PROVE  /\ DataInv' /\ WatchInv' /\ db' \in [Clients -> Dbs]
         /\ \A x \in Clients : watched[x] = {} => watched'[x] = {}
<1>0. op \in Ops /\ op.cmd \notin {"multi", "exec"} /\ db[c] \in Dbs
  BY RedisMultiAssumption DEF Inv, SessionInv
<1>1. \A x \in Clients : watched[x] = {} => watched'[x] = {}
  BY DEF Calls, unwatchCommand, unwatchAllKeys, watching, Inv, WatchInv
<1>2. CASE op.cmd = "select" /\ selectDb(c, op.db)
             /\ UNCHANGED <<keyspace, dirty_cas, watching, slave, stale>>
  <2>2. db' \in [Clients -> Dbs]
    BY <1>2 DEF Inv, SessionInv, selectDb
  <2>3. DataInv'
    BY <1>2 DEF Inv, DataInv, ExpiresHaveKeys, keyspace
  <2>4. WatchInv'
    BY <1>2 DEF Inv, WatchInv, WatchListsAgree, DirtyOnlyIfWatching, StaleIsDirty,
                watching
  <2> QED BY <1>1, <2>2, <2>3, <2>4
<1>3. CASE op.cmd = "unwatch" /\ unwatchCommand(c)
             /\ UNCHANGED <<keyspace, db, slave>>
  <2>1. WatchInv'
    BY <1>3, UnwatchKeepsWatchInv DEF Inv, unwatchCommand
  <2>2. DataInv'
    BY <1>3 DEF Inv, DataInv, ExpiresHaveKeys, keyspace
  <2> QED BY <1>3, <1>1, <2>1, <2>2 DEF Inv, SessionInv
<1>4. CASE op.cmd \notin {"select", "unwatch"}
             /\ Commits(call(dict, expires, db[c], op), op)
             /\ UNCHANGED <<db, watching>>
  <2> DEFINE s == call(dict, expires, db[c], op)
  <2>1. op \in KeySpaceOps
    BY <1>0, <1>4 DEF KeySpaceOps
  <2>2. /\ s.dict \in Dict /\ s.expires \in Expires
        /\ \A p \in Places : s.expires[p] # "never" => s.dict[p] # NoValue
        /\ s.touched \subseteq Places /\ s.flushed \subseteq Places
        /\ op.cmd \notin Unsignalled =>
             Changed(s) \subseteq s.touched \cup s.flushed
    BY <1>0, <2>1, CallFacts DEF Inv
  <2>3. /\ dict' = s.dict /\ expires' = s.expires /\ dirty_cas' = Touched(s)
        /\ stale' = [x \in Clients |->
             \/ stale[x]
             \/ op.cmd \notin Unsignalled /\ Changed(s) \cap watched[x] # {}]
    BY <1>4 DEF Commits
  <2>4. watched' = watched /\ watched_keys' = watched_keys /\ db' = db
    BY <1>4 DEF watching
  <2> HIDE DEF s
  <2>5. DataInv'
    BY <2>2, <2>3 DEF DataInv, ExpiresHaveKeys
  <2>6. \A x \in Clients : dirty_cas'[x] <=>
          \/ dirty_cas[x]
          \/ \E p \in s.touched : x \in watched_keys[p]
          \/ \E p \in s.flushed : p \in watched[x]
    BY <2>3 DEF Touched
  <2>7. dirty_cas' \in [Clients -> BOOLEAN] /\ stale' \in [Clients -> BOOLEAN]
    BY <2>3 DEF Touched, Inv, WatchInv
  <2>8. DirtyOnlyIfWatching'
    BY <2>2, <2>4, <2>6 DEF Inv, WatchInv, WatchListsAgree, DirtyOnlyIfWatching
  <2>9. StaleIsDirty'
    <3> SUFFICES ASSUME NEW x \in Clients, stale'[x]
                 PROVE  dirty_cas'[x]
      BY DEF StaleIsDirty
    <3>1. CASE stale[x]
      BY <2>6, <3>1 DEF Inv, WatchInv, StaleIsDirty
    <3>2. CASE op.cmd \notin Unsignalled /\ Changed(s) \cap watched[x] # {}
      <4>1. PICK p \in Changed(s) : p \in watched[x]
        BY <3>2
      <4>2. p \in Places /\ p \in s.touched \cup s.flushed
        BY <2>2, <3>2, <4>1
      <4>3. x \in watched_keys[p]
        BY <4>1, <4>2 DEF Inv, WatchInv, WatchListsAgree
      <4> QED BY <2>6, <4>1, <4>2, <4>3
    <3> QED BY <2>3, <3>1, <3>2
  <2>10. WatchListsAgree'
    BY <2>4 DEF Inv, WatchInv, WatchListsAgree
  <2>11. WatchInv'
    BY <2>4, <2>7, <2>8, <2>9, <2>10 DEF Inv, WatchInv
  <2> QED BY <1>1, <2>4, <2>5, <2>11 DEF Inv, SessionInv
<1> QED BY <1>2, <1>3, <1>4 DEF Calls

(* A key removed by the server keeps the key space in order. *)
LEMMA RemovesKeepsDataInv ==
  ASSUME DataInv, NEW p \in Places, Removes(p)
  PROVE  DataInv'
<1> DEFINE start == Store(dict, expires, FALSE)
           told == propagateExpire(start, p)
           s == dbDelete(told, p)
<1>1. Good(start) /\ start.dict = dict /\ start.expires = expires
  BY StoreIsGood DEF Store
<1>2. start \in StoreSet
  BY <1>1 DEF Good
<1>3. dict' = s.dict /\ expires' = s.expires
  BY DEF Removes
<1> HIDE DEF start
<1>4. told.dict = dict /\ told.expires = expires
  BY <1>1, <1>2 DEF propagateExpire, StoreSet
<1>5. /\ s.dict = [dict EXCEPT ![p] = NoValue]
      /\ s.expires = [expires EXCEPT ![p] = "never"]
  BY <1>2, <1>4 DEF dbDelete, propagateExpire, StoreSet
<1> HIDE DEF told, s
<1> QED BY <1>3, <1>5 DEF DataInv, ExpiresHaveKeys, Dict, Expires

(* An empty server satisfies the invariant. *)
LEMMA InitInv == Init => Inv
<1> SUFFICES ASSUME Init PROVE Inv
  OBVIOUS
<1>1. DataInv
  BY DEF Init, DataInv, Dict, Expires, ExpiresHaveKeys
<1>2. SessionInv
  <2>1. <<>> \in Seq(Commands)
    OBVIOUS
  <2> QED BY <2>1, RedisDbAssumption DEF Init, SessionInv
<1>3. WatchInv
  BY DEF Init, WatchInv, WatchListsAgree, DirtyOnlyIfWatching, StaleIsDirty
<1>4. RunningWatchesNothing
  BY DEF Init, RunningWatchesNothing
<1> QED BY <1>1, <1>2, <1>3, <1>4 DEF Inv

(* Each of the three parts depends on its own variables only. *)
LEMMA Frames ==
  /\ DataInv /\ UNCHANGED keyspace => DataInv'
  /\ SessionInv /\ UNCHANGED <<session, running>> => SessionInv'
  /\ WatchInv /\ UNCHANGED <<watching, dirty_cas, stale>> => WatchInv'
<1>1. DataInv /\ UNCHANGED keyspace => DataInv'
  BY DEF DataInv, ExpiresHaveKeys, keyspace
<1>2. SessionInv /\ UNCHANGED <<session, running>> => SessionInv'
  BY DEF SessionInv, session
<1>3. WatchInv /\ UNCHANGED <<watching, dirty_cas, stale>> => WatchInv'
  BY DEF WatchInv, WatchListsAgree, DirtyOnlyIfWatching, StaleIsDirty, watching
<1> QED BY <1>1, <1>2, <1>3

(* Who runs EXEC watches nothing, as long as nobody begins to watch        *)
(* meanwhile.                                                              *)
LEMMA RunningFrame ==
  ASSUME RunningWatchesNothing,
         \A x \in Clients : watched[x] = {} => watched'[x] = {},
         running' = running
  PROVE  RunningWatchesNothing'
  BY DEF RunningWatchesNothing

(* A client's transaction is given up, and perhaps the client with it. *)
LEMMA DiscardKeepsInv ==
  ASSUME Inv, NEW c \in Clients, discardTransaction(c), UNCHANGED <<keyspace, running>>,
         db' = db \/ db' = [db EXCEPT ![c] = 0]
  PROVE  Inv'
<1>1. DataInv'
  BY Frames DEF Inv
<1>2. WatchInv'
  BY UnwatchKeepsWatchInv DEF Inv, discardTransaction
<1>3. SessionInv'
  <2>1. <<>> \in Seq(Commands)
    OBVIOUS
  <2>2. queue' \in [Clients -> Seq(Commands)] /\ multi' \in [Clients -> BOOLEAN]
    BY <2>1 DEF Inv, SessionInv, discardTransaction
  <2>3. db' \in [Clients -> Dbs]
    BY RedisDbAssumption DEF Inv, SessionInv
  <2> QED BY <2>2, <2>3 DEF Inv, SessionInv
<1>4. RunningWatchesNothing'
  BY RunningFrame DEF Inv, WatchInv, discardTransaction, unwatchAllKeys
<1> QED BY <1>1, <1>2, <1>3, <1>4 DEF Inv

(* Every step of the server, its clients and its clock keeps the           *)
(* invariant.                                                              *)
LEMMA NextInv == Inv /\ [Next]_vars => Inv'
<1> SUFFICES ASSUME Inv, [Next]_vars PROVE Inv'
  OBVIOUS
<1>1. ASSUME NEW c \in Clients, NEW op \in Commands, Command(c, op)
      PROVE  Inv'
  <2>1. /\ DataInv' /\ WatchInv' /\ db' \in [Clients -> Dbs]
        /\ \A x \in Clients : watched[x] = {} => watched'[x] = {}
    BY <1>1, CallsKeepInv DEF Command
  <2>2. SessionInv'
    BY <1>1, <2>1 DEF Command, Inv, SessionInv
  <2>3. RunningWatchesNothing'
    BY <1>1, <2>1, RunningFrame DEF Command, Inv
  <2> QED BY <2>1, <2>2, <2>3 DEF Inv
<1>2. ASSUME NEW c \in Clients, NEW op \in Commands, queueMultiCommand(c, op)
      PROVE  Inv'
  <2>1. Append(queue[c], op) \in Seq(Commands)
    BY <1>2 DEF Inv, SessionInv
  <2>2. SessionInv'
    BY <1>2, <2>1 DEF queueMultiCommand, Inv, SessionInv
  <2>3. RunningWatchesNothing'
    BY <1>2, RunningFrame DEF queueMultiCommand, watching, Inv
  <2> QED BY <1>2, <2>2, <2>3, Frames DEF queueMultiCommand, Inv
<1>3. ASSUME NEW c \in Clients, NEW k \in WatchKeys, watchCommand(c, k)
      PROVE  Inv'
  <2> DEFINE p == <<db[c], k>>
  <2>1. p \in Places
    BY RedisMultiAssumption DEF Places, Inv, SessionInv
  <2>2. /\ watched' = [watched EXCEPT ![c] = @ \cup {p}]
        /\ watched_keys' = [watched_keys EXCEPT ![p] = @ \cup {c}]
        /\ dirty_cas' = dirty_cas /\ stale' = stale
    BY <1>3 DEF watchCommand
  <2> HIDE DEF p
  <2>3. /\ watched' \in [Clients -> SUBSET Places]
        /\ watched_keys' \in [Places -> SUBSET Clients]
    BY <2>1, <2>2 DEF Inv, WatchInv
  <2>4. WatchListsAgree'
    BY <2>1, <2>2 DEF Inv, WatchInv, WatchListsAgree
  <2>5. DirtyOnlyIfWatching' /\ StaleIsDirty'
    BY <2>2 DEF Inv, WatchInv, DirtyOnlyIfWatching, StaleIsDirty
  <2>6. WatchInv'
    BY <2>2, <2>3, <2>4, <2>5 DEF Inv, WatchInv
  <2>7. RunningWatchesNothing'
    BY <1>3, RedisMultiAssumption DEF watchCommand, Idle, RunningWatchesNothing
  <2> QED BY <1>3, <2>6, <2>7, Frames DEF watchCommand, Inv
<1>4. ASSUME NEW c \in Clients, multiCommand(c)
      PROVE  Inv'
  <2>1. SessionInv'
    BY <1>4 DEF multiCommand, Inv, SessionInv
  <2>2. RunningWatchesNothing'
    BY <1>4, RunningFrame DEF multiCommand, watching, Inv
  <2> QED BY <1>4, <2>1, <2>2, Frames DEF multiCommand, Inv
<1>5. ASSUME NEW c \in Clients, discardCommand(c) \/ ExecAbort(c) \/ freeClient(c)
      PROVE  Inv'
  BY <1>5, DiscardKeepsInv DEF discardCommand, ExecAbort, freeClient
<1>6. ASSUME NEW c \in Clients, ExecStart(c)
      PROVE  Inv'
  <2>1. WatchInv'
    BY <1>6, UnwatchKeepsWatchInv DEF ExecStart, Inv
  <2>2. SessionInv'
    BY <1>6 DEF ExecStart, Inv, SessionInv, session
  <2>3. RunningWatchesNothing'
    BY <1>6 DEF ExecStart, unwatchAllKeys, RunningWatchesNothing, Inv, WatchInv
  <2> QED BY <1>6, <2>1, <2>2, <2>3, Frames DEF ExecStart, Inv
<1>7. ASSUME NEW c \in Clients, ExecStep(c)
      PROVE  Inv'
  <2>1. queue[c] \in Seq(Commands) /\ queue[c] # <<>>
    BY <1>7 DEF ExecStep, Inv, SessionInv
  <2>2. Head(queue[c]) \in Commands /\ Tail(queue[c]) \in Seq(Commands)
    BY <2>1
  <2>3. /\ DataInv' /\ WatchInv' /\ db' \in [Clients -> Dbs]
        /\ \A x \in Clients : watched[x] = {} => watched'[x] = {}
    BY <1>7, <2>2, CallsKeepInv DEF ExecStep
  <2>4. SessionInv'
    BY <1>7, <2>2, <2>3 DEF ExecStep, Inv, SessionInv
  <2>5. RunningWatchesNothing'
    BY <1>7, <2>3, RunningFrame DEF ExecStep, Inv
  <2> QED BY <2>3, <2>4, <2>5 DEF Inv
<1>8. ASSUME NEW c \in Clients, ExecEnd(c)
      PROVE  Inv'
  <2>1. SessionInv'
    BY <1>8 DEF ExecEnd, Inv, SessionInv
  <2>2. /\ dirty_cas' \in [Clients -> BOOLEAN] /\ dirty_cas'[c] = FALSE
        /\ \A x \in Clients : x # c => dirty_cas'[x] = dirty_cas[x]
    BY <1>8 DEF ExecEnd, Inv, WatchInv
  <2>3. watched' = watched /\ watched_keys' = watched_keys /\ stale' = stale
    BY <1>8 DEF ExecEnd, watching
  <2>4. ~stale[c]
    BY <1>8 DEF ExecEnd, Inv, WatchInv, RunningWatchesNothing, DirtyOnlyIfWatching,
                StaleIsDirty
  <2>5. DirtyOnlyIfWatching' /\ StaleIsDirty'
    BY <2>2, <2>3, <2>4 DEF Inv, WatchInv, DirtyOnlyIfWatching, StaleIsDirty
  <2>6. WatchInv'
    BY <2>2, <2>3, <2>5 DEF Inv, WatchInv, WatchListsAgree
  <2>7. RunningWatchesNothing'
    BY <1>8, RedisMultiAssumption DEF ExecEnd, RunningWatchesNothing
  <2>8. DataInv'
    BY <1>8, Frames DEF ExecEnd, Inv
  <2> QED BY <2>1, <2>6, <2>7, <2>8 DEF Inv
<1>9. ASSUME NEW p \in Places, Clock(p)
      PROVE  Inv'
  <2>1. DataInv'
    BY <1>9 DEF Clock, Inv, DataInv, ExpiresHaveKeys, Expires
  <2>2. RunningWatchesNothing'
    BY <1>9 DEF Clock, Inv, RunningWatchesNothing, watching
  <2> QED BY <1>9, <2>1, <2>2, Frames DEF Clock, Inv
<1>10. ASSUME NEW p \in Places, activeExpireCycle(p) \/ freeMemoryIfNeeded(p)
       PROVE  Inv'
  <2>1. Removes(p)
    BY <1>10 DEF activeExpireCycle, freeMemoryIfNeeded
  <2>2. DataInv'
    BY <2>1, RemovesKeepsDataInv DEF Inv
  <2>3. UNCHANGED <<session, dirty_cas, watching, running, stale>>
    BY <2>1 DEF Removes
  <2>4. RunningWatchesNothing'
    BY <2>3 DEF Inv, RunningWatchesNothing, watching
  <2> QED BY <2>2, <2>3, <2>4, Frames DEF Inv
<1>11. CASE UNCHANGED vars
  <2>1. RunningWatchesNothing'
    BY <1>11 DEF Inv, RunningWatchesNothing, vars
  <2> QED BY <1>11, <2>1, Frames DEF vars, keyspace, session, watching, Inv
<1> QED
  BY <1>1, <1>2, <1>3, <1>4, <1>5, <1>6, <1>7, <1>8, <1>9, <1>10, <1>11
     DEF Next, Exec

(* The invariant holds of every behaviour. *)
THEOREM Invariant == Spec => []Inv
  BY InitInv, NextInv, PTL DEF Spec

(* Type correctness of the server's variables. *)
THEOREM TypeCorrect == Spec => []TypeOK
<1>1. Inv => TypeOK
  BY DEF Inv, DataInv, SessionInv, WatchInv, TypeOK
<1> QED BY <1>1, Invariant, PTL

(* unwatchAllKeys always finds the client on the list of each key it       *)
(* watches (the assertion at multi.c:200), and a freed client is on none.  *)
THEOREM ListsAgree == Spec => []WatchListsAgree
<1>1. Inv => WatchListsAgree
  BY DEF Inv, WatchInv
<1> QED BY <1>1, Invariant, PTL

(* No command sequence, expiry or eviction leaves an expire time without   *)
(* its key: the assertions at db.c:416, 425 and 441 never fail.            *)
THEOREM ExpireAssertionsHold == Spec => []ExpiresHaveKeys
<1>1. Inv => ExpiresHaveKeys
  BY DEF Inv, DataInv
<1> QED BY <1>1, Invariant, PTL

(* EXEC without WATCH never fails. *)
THEOREM FlagNeedsWatch == Spec => []DirtyOnlyIfWatching
<1>1. Inv => DirtyOnlyIfWatching
  BY DEF Inv, WatchInv
<1> QED BY <1>1, Invariant, PTL

(* A changed watched key keeps the flag set until the client stops         *)
(* watching.                                                               *)
THEOREM StaleWatchIsNoticed == Spec => []StaleIsDirty
<1>1. Inv => StaleIsDirty
  BY DEF Inv, WatchInv
<1> QED BY <1>1, Invariant, PTL

(* The check-and-set guarantee of WATCH, for the commands that signal:     *)
(* EXEC never starts once one of them has changed a watched key.           *)
THEOREM CheckAndSet == Spec => ExecOnlyIfUnchanged
<1>1. ASSUME Inv, [Next]_vars, NEW c \in Clients, Idle, running' = c
      PROVE  ~stale[c]
  <2>1. running' # running /\ running = Nobody
    BY <1>1, RedisMultiAssumption DEF Idle
  <2>2. \E x \in Clients : ExecStart(x)
    BY <1>1, <2>1 DEF Next, Exec, Command, queueMultiCommand, watchCommand,
         multiCommand, discardCommand, ExecAbort, ExecStep, ExecEnd, freeClient,
         Clock, activeExpireCycle, freeMemoryIfNeeded, Removes, vars
  <2>3. ExecStart(c)
    BY <1>1, <2>2 DEF ExecStart
  <2>4. ~dirty_cas[c]
    BY <2>3 DEF ExecStart
  <2> QED BY <1>1, <2>4 DEF Inv, WatchInv, StaleIsDirty
<1>2. Inv /\ [Next]_vars =>
        [\A c \in Clients : Idle /\ running' = c => ~stale[c]]_vars
  BY <1>1
<1> QED BY <1>2, Invariant, PTL DEF Spec, ExecOnlyIfUnchanged

-----------------------------------------------------------------------------
(* The slave.  A command looks up at most two keys, which sends a DEL for  *)
(* those that have expired; what it does then to the store it has found    *)
(* (Mirrors) a slave does that has the same data and executes what the     *)
(* command sends.  That is carried through the messages of a command       *)
(* (Follows), which the slave executes at once or, inside MULTI, when EXEC *)
(* comes (View).                                                           *)

(* The store of a slave. *)
Slavish(w) == w \in StoreSet /\ w.slave = TRUE

(* The same keys with the same values, and the same ones volatile. *)
Same(s, w) ==
  /\ s.dict = w.dict
  /\ \A p \in Places : s.expires[p] = "never" <=> w.expires[p] = "never"

(* p is not expired, or expireIfNeeded leaves it alone. *)
Fresh(s, p) == s.slave \/ s.expires[p] # "past"

(* A fresh key is found as it is. *)
LEMMA FreshKeys ==
  ASSUME NEW s, NEW p, Fresh(s, p)
  PROVE  expireIfNeeded(s, p) = s
  BY DEF Fresh, expireIfNeeded

(* dbDelete changes the data at one place. *)
LEMMA DeleteFields ==
  ASSUME NEW s \in StoreSet, NEW p \in Places
  PROVE  /\ dbDelete(s, p) \in StoreSet
         /\ dbDelete(s, p).dict = [s.dict EXCEPT ![p] = NoValue]
         /\ dbDelete(s, p).expires = [s.expires EXCEPT ![p] = "never"]
         /\ dbDelete(s, p).out = s.out /\ dbDelete(s, p).slave = s.slave
         /\ dbDelete(s, p).dirty = s.dirty
  BY DEF StoreSet, dbDelete, Dict, Expires

(* Signalling keeps all that a slave can see. *)
LEMMA SignalFields ==
  ASSUME NEW s \in StoreSet, NEW p \in Places
  PROVE  LET t == signalModifiedKey(s, p)
         IN /\ t \in StoreSet
            /\ t.dict = s.dict /\ t.expires = s.expires
            /\ t.out = s.out /\ t.slave = s.slave /\ t.dirty = s.dirty
  BY DEF StoreSet, signalModifiedKey

(* Counting a modification keeps the data and what was sent. *)
LEMMA DirtyFields ==
  ASSUME NEW s \in StoreSet
  PROVE  LET t == Dirty(s)
         IN /\ t \in StoreSet
            /\ t.dict = s.dict /\ t.expires = s.expires
            /\ t.out = s.out /\ t.slave = s.slave /\ t.dirty = TRUE
  BY DEF StoreSet, Dirty

(* setExpire changes one expire time. *)
LEMMA SetExpireFields ==
  ASSUME NEW s \in StoreSet, NEW p \in Places
  PROVE  LET t == setExpire(s, p)
         IN /\ t \in StoreSet
            /\ t.dict = s.dict
            /\ t.expires = [s.expires EXCEPT ![p] = "later"]
            /\ t.out = s.out /\ t.slave = s.slave /\ t.dirty = s.dirty
  BY DEF StoreSet, setExpire, Dict, Expires

-----------------------------------------------------------------------------
(* What the commands make of a store.                                      *)

(* t is x with other data, and a modification or not. *)
Becomes(x, t, dictOf, expiresOf, dirty) ==
  /\ t \in StoreSet /\ t.dict = dictOf /\ t.expires = expiresOf
  /\ t.out = x.out /\ t.slave = x.slave /\ t.dirty = dirty

(* SET, SETNX and SETEX on a key that need not be expired first. *)
LEMMA SetEffect ==
  ASSUME NEW x \in StoreSet, NEW p \in Places, Fresh(x, p), NEW v \in Values,
         NEW nx \in BOOLEAN, NEW ttl \in BOOLEAN
  PROVE  LET t == setGenericCommand(x, p, v, nx, ttl)
         IN IF nx /\ Exists(x, p) THEN t = x
            ELSE Becomes(x, t, [x.dict EXCEPT ![p] = v],
                   [x.expires EXCEPT ![p] = IF ttl THEN "later" ELSE "never"], TRUE)
<1> DEFINE w == Written(x, p, v, "never")
           k == signalModifiedKey(w, p)
           d == Dirty(k)
           t == setGenericCommand(x, p, v, nx, ttl)
<1>1. t = IF nx /\ Exists(x, p) THEN x ELSE IF ttl THEN setExpire(d, p) ELSE d
  <2>1. expireIfNeeded(x, p) = x
    BY FreshKeys
  <2>2. setKey(x, p, v) = k
    BY <2>1, Zenon DEF setKey, Written
  <2> QED BY <2>1, <2>2, Zenon DEF setGenericCommand
<1>2. Becomes(x, w, [x.dict EXCEPT ![p] = v], [x.expires EXCEPT ![p] = "never"], x.dirty)
  <2>1. v \in Values \cup {NoValue} /\ "never" \in {"never", "later", "past"}
    OBVIOUS
  <2>2. /\ w \in StoreSet
        /\ w.dict = [x.dict EXCEPT ![p] = v]
        /\ w.expires = [x.expires EXCEPT ![p] = "never"]
        /\ w.out = x.out /\ w.slave = x.slave /\ w.dirty = x.dirty
    BY DEF Written, StoreSet, Dict, Expires
  <2> QED BY <2>2, Zenon DEF Becomes
<1> HIDE DEF w, t
<1>3. Becomes(x, k, [x.dict EXCEPT ![p] = v], [x.expires EXCEPT ![p] = "never"], x.dirty)
  BY <1>2, SignalFields DEF Becomes
<1> HIDE DEF k
<1>4. Becomes(x, d, [x.dict EXCEPT ![p] = v], [x.expires EXCEPT ![p] = "never"], TRUE)
  BY <1>3, DirtyFields DEF Becomes
<1> HIDE DEF d
<1>5. [[x.expires EXCEPT ![p] = "never"] EXCEPT ![p] = "later"] = [x.expires EXCEPT ![p] = "later"]
  BY DEF StoreSet, Expires
<1>6. Becomes(x, setExpire(d, p), [x.dict EXCEPT ![p] = v], [x.expires EXCEPT ![p] = "later"], TRUE)
  BY <1>4, <1>5, SetExpireFields DEF Becomes
<1> QED BY <1>1, <1>4, <1>6 DEF t

(* The data without the places in gone. *)
DictWithout(x, gone) == [p \in Places |-> IF p \in gone THEN NoValue ELSE x.dict[p]]
ExpiresWithout(x, gone) == [p \in Places |-> IF p \in gone THEN "never" ELSE x.expires[p]]

(* DEL, which counts as a modification if one of the keys existed. *)
LEMMA DelEffect ==
  ASSUME NEW x \in StoreSet, NEW d \in Dbs, NEW keys \in SUBSET Keys
  PROVE  LET gone == {d} \X keys
         IN Becomes(x, delCommand(x, d, keys), DictWithout(x, gone), ExpiresWithout(x, gone),
                    x.dirty \/ \E p \in gone : Exists(x, p))
<1> DEFINE gone == {d} \X keys
           deleted == { p \in gone : Exists(x, p) }
           t == delCommand(x, d, keys)
<1>1. t = [x EXCEPT !.dict = DictWithout(x, gone), !.expires = ExpiresWithout(x, gone),
                    !.touched = x.touched \cup deleted, !.dirty = x.dirty \/ deleted # {}]
  BY DEF delCommand, DictWithout, ExpiresWithout
<1>2. deleted \subseteq Places
  BY DEF Places
<1>3. deleted # {} <=> \E p \in gone : Exists(x, p)
  OBVIOUS
<1>4. DictWithout(x, gone) \in Dict /\ ExpiresWithout(x, gone) \in Expires
  BY DEF DictWithout, ExpiresWithout, Dict, Expires, StoreSet
<1> HIDE DEF t, gone, deleted
<1>5. t \in StoreSet
  BY <1>1, <1>2, <1>4 DEF StoreSet
<1>6. /\ t.dict = DictWithout(x, gone) /\ t.expires = ExpiresWithout(x, gone)
      /\ t.out = x.out /\ t.slave = x.slave /\ t.dirty = (x.dirty \/ deleted # {})
  BY <1>1 DEF StoreSet
<1>7. t.dirty = (x.dirty \/ \E p \in gone : Exists(x, p))
  BY <1>3, <1>6
<1> QED BY <1>5, <1>6, <1>7 DEF Becomes, t, gone

(* EXPIRE of an existing key: on a master whose time has gone by it        *)
(* deletes.                                                                *)
LEMMA ExpireEffect ==
  ASSUME NEW x \in StoreSet, NEW p \in Places, Exists(x, p), NEW past \in BOOLEAN
  PROVE  IF past /\ ~x.slave
         THEN Becomes(x, expireGenericCommand(x, p, past), [x.dict EXCEPT ![p] = NoValue],
                      [x.expires EXCEPT ![p] = "never"], TRUE)
         ELSE Becomes(x, expireGenericCommand(x, p, past), x.dict,
                      [x.expires EXCEPT ![p] = "later"], TRUE)
<1> DEFINE y == IF past /\ ~x.slave THEN dbDelete(x, p) ELSE setExpire(x, p)
           k == signalModifiedKey(y, p)
           t == expireGenericCommand(x, p, past)
<1>1. t = Dirty(k)
  BY DEF expireGenericCommand
<1>2. IF past /\ ~x.slave
      THEN Becomes(x, y, [x.dict EXCEPT ![p] = NoValue], [x.expires EXCEPT ![p] = "never"], x.dirty)
      ELSE Becomes(x, y, x.dict, [x.expires EXCEPT ![p] = "later"], x.dirty)
  BY DeleteFields, SetExpireFields DEF Becomes
<1>2a. y \in StoreSet
  BY <1>2 DEF Becomes
<1> HIDE DEF y, t
<1>3. k \in StoreSet /\ k.dict = y.dict /\ k.expires = y.expires /\ k.out = y.out /\ k.slave = y.slave
  BY <1>2a, SignalFields
<1> HIDE DEF k
<1>4. t \in StoreSet /\ t.dict = y.dict /\ t.expires = y.expires /\ t.out = y.out /\ t.slave = y.slave
        /\ t.dirty = TRUE
  BY <1>1, <1>3, DirtyFields
<1> QED BY <1>2, <1>4 DEF Becomes, t

(* PERSIST, which does nothing to a key that does not expire. *)
LEMMA PersistEffect ==
  ASSUME NEW x \in StoreSet, NEW p \in Places
  PROVE  IF ~Exists(x, p) \/ x.expires[p] = "never" THEN persistCommand(x, p) = x
         ELSE Becomes(x, persistCommand(x, p), x.dict, [x.expires EXCEPT ![p] = "never"], TRUE)
<1> DEFINE y == [x EXCEPT !.expires[p] = "never"]
<1>1. Becomes(x, y, x.dict, [x.expires EXCEPT ![p] = "never"], x.dirty)
  BY DEF Becomes, StoreSet, Expires
<1> HIDE DEF y
<1>2. Becomes(x, Dirty(y), x.dict, [x.expires EXCEPT ![p] = "never"], TRUE)
  BY <1>1, DirtyFields DEF Becomes
<1> QED BY <1>2 DEF persistCommand, y

(* RENAME and RENAMENX between keys that need not be expired first. *)
LEMMA RenameEffect ==
  ASSUME NEW x \in StoreSet, NEW p \in Places, NEW q \in Places, Fresh(x, p), Fresh(x, q),
         NEW nx \in BOOLEAN
  PROVE  IF p = q \/ ~Exists(x, p) \/ (Exists(x, q) /\ nx)
         THEN renameGenericCommand(x, p, q, nx) = x
         ELSE Becomes(x, renameGenericCommand(x, p, q, nx),
                      [[x.dict EXCEPT ![p] = NoValue] EXCEPT ![q] = x.dict[p]],
                      [[x.expires EXCEPT ![p] = "never"] EXCEPT ![q] = x.expires[p]], TRUE)
<1> DEFINE t == renameGenericCommand(x, p, q, nx)
           y == dbDelete(x, p)
           m == Written(y, q, x.dict[p], x.expires[p])
           k == signalModifiedKey(m, p)
           l == signalModifiedKey(k, q)
           dictOf == [[x.dict EXCEPT ![p] = NoValue] EXCEPT ![q] = x.dict[p]]
           expiresOf == [[x.expires EXCEPT ![p] = "never"] EXCEPT ![q] = x.expires[p]]
<1>1. t = IF p = q \/ ~Exists(x, p) \/ (Exists(x, q) /\ nx) THEN x ELSE Dirty(l)
  <2>1. expireIfNeeded(x, p) = x /\ expireIfNeeded(x, q) = x
    BY FreshKeys
  <2> DEFINE found == expireIfNeeded(x, p)
             target == expireIfNeeded(found, q)
             moved == Written(dbDelete(target, p), q, found.dict[p], found.expires[p])
  <2>2. t = IF p = q THEN x ELSE IF ~Exists(found, p) THEN found
            ELSE IF Exists(target, q) /\ nx THEN target
            ELSE Dirty(signalModifiedKey(signalModifiedKey(moved, p), q))
    BY Zenon DEF renameGenericCommand, Written
  <2>3. found = x /\ target = x
    BY <2>1
  <2>4. moved = m
    BY <2>3
  <2> HIDE DEF found, target, moved, m, t
  <2> QED BY <2>2, <2>3, <2>4
<1>2. Becomes(x, y, [x.dict EXCEPT ![p] = NoValue], [x.expires EXCEPT ![p] = "never"], x.dirty)
  BY DeleteFields DEF Becomes
<1> HIDE DEF y
<1>3. x.dict[p] \in Values \cup {NoValue} /\ x.expires[p] \in {"never", "later", "past"}
  BY DEF StoreSet, Dict, Expires
<1>4. Becomes(x, m, dictOf, expiresOf, x.dirty)
  <2>0. y \in StoreSet
    BY <1>2 DEF Becomes
  <2>1. /\ m \in StoreSet
        /\ m.dict = [y.dict EXCEPT ![q] = x.dict[p]]
        /\ m.expires = [y.expires EXCEPT ![q] = x.expires[p]]
        /\ m.out = y.out /\ m.slave = y.slave /\ m.dirty = y.dirty
    BY <2>0, <1>3 DEF Written, StoreSet, Dict, Expires
  <2> HIDE DEF m
  <2> QED BY <1>2, <2>1 DEF Becomes
<1> HIDE DEF m, t, dictOf, expiresOf
<1>5. Becomes(x, k, dictOf, expiresOf, x.dirty)
  BY <1>4, SignalFields DEF Becomes
<1> HIDE DEF k
<1>6. Becomes(x, l, dictOf, expiresOf, x.dirty)
  BY <1>5, SignalFields DEF Becomes
<1> HIDE DEF l
<1>7. Becomes(x, Dirty(l), dictOf, expiresOf, TRUE)
  BY <1>6, DirtyFields DEF Becomes
<1> QED BY <1>1, <1>7 DEF t, dictOf, expiresOf

(* MOVE between places that need not be expired first. *)
LEMMA MoveEffect ==
  ASSUME NEW x \in StoreSet, NEW p \in Places, NEW q, Fresh(x, p), Fresh(x, q)
  PROVE  IF q \notin Places \/ p = q \/ ~Exists(x, p) \/ Exists(x, q)
         THEN moveCommand(x, p, q) = x
         ELSE Becomes(x, moveCommand(x, p, q),
                      [[x.dict EXCEPT ![p] = NoValue] EXCEPT ![q] = x.dict[p]],
                      [x.expires EXCEPT ![p] = "never"], TRUE)
<1> DEFINE t == moveCommand(x, p, q)
           y == dbDelete(x, p)
           m == [y EXCEPT !.dict[q] = x.dict[p]]
           dictOf == [[x.dict EXCEPT ![p] = NoValue] EXCEPT ![q] = x.dict[p]]
           expiresOf == [x.expires EXCEPT ![p] = "never"]
<1>1. t = IF q \notin Places \/ p = q \/ ~Exists(x, p) \/ Exists(x, q) THEN x ELSE Dirty(m)
  BY FreshKeys DEF moveCommand
<1> SUFFICES ASSUME q \in Places PROVE Becomes(x, Dirty(m), dictOf, expiresOf, TRUE)
  BY <1>1
<1>2. Becomes(x, y, [x.dict EXCEPT ![p] = NoValue], [x.expires EXCEPT ![p] = "never"], x.dirty)
  BY DeleteFields DEF Becomes
<1> HIDE DEF y
<1>3. x.dict[p] \in Values \cup {NoValue}
  BY DEF StoreSet, Dict
<1>4. Becomes(x, m, dictOf, expiresOf, x.dirty)
  BY <1>2, <1>3 DEF Becomes, StoreSet, Dict, Expires
<1> HIDE DEF m, dictOf, expiresOf
<1> QED BY <1>4, DirtyFields DEF Becomes

(* The places of some databases emptied. *)
LEMMA FlushEffect ==
  ASSUME NEW x \in StoreSet, NEW dbs \in SUBSET Dbs
  PROVE  LET gone == dbs \X Keys
         IN /\ Becomes(x, Flushed(x, dbs), DictWithout(x, gone), ExpiresWithout(x, gone), x.dirty)
            /\ Flushed(x, dbs).flushed = { p \in gone : Exists(x, p) }
<1> DEFINE gone == dbs \X Keys
           f == { p \in gone : Exists(x, p) }
           t == Flushed(x, dbs)
<1>1. \A p \in Places : p[1] \in dbs <=> p \in gone
  BY DEF Places
<1>2. DictWithout(x, gone) = [p \in Places |-> IF p[1] \in dbs THEN NoValue ELSE x.dict[p]]
  BY <1>1 DEF DictWithout
<1>3. ExpiresWithout(x, gone) = [p \in Places |-> IF p[1] \in dbs THEN "never" ELSE x.expires[p]]
  BY <1>1 DEF ExpiresWithout
<1>4. t = [x EXCEPT !.flushed = f, !.dict = DictWithout(x, gone), !.expires = ExpiresWithout(x, gone)]
  BY <1>2, <1>3 DEF Flushed
<1>5. f \subseteq Places
  BY DEF Places
<1>6. DictWithout(x, gone) \in Dict /\ ExpiresWithout(x, gone) \in Expires
  BY DEF DictWithout, ExpiresWithout, Dict, Expires, StoreSet
<1> HIDE DEF t, f, gone
<1>7. t \in StoreSet
  BY <1>4, <1>5, <1>6 DEF StoreSet
<1>8. /\ t.dict = DictWithout(x, gone) /\ t.expires = ExpiresWithout(x, gone)
      /\ t.out = x.out /\ t.slave = x.slave /\ t.dirty = x.dirty /\ t.flushed = f
  BY <1>4 DEF StoreSet
<1> QED BY <1>7, <1>8 DEF Becomes, t, f, gone

(* So is what such a store becomes. *)
LEMMA BecomesSlavish ==
  ASSUME NEW x, Slavish(x), NEW t, NEW a, NEW e, NEW b, Becomes(x, t, a, e, b)
  PROVE  Slavish(t)
  BY DEF Slavish, Becomes

(* Every command keeps a slave's store in order. *)
LEMMA SlaveExecutes ==
  ASSUME NEW w, Slavish(w), NEW d \in Dbs, NEW op \in KeySpaceOps
  PROVE  Slavish(Execute(w, d, op))
<1> DEFINE result == Execute(w, d, op)
<1>0. /\ op \in Ops /\ op.cmd \notin {"select", "unwatch", "multi", "exec"}
      /\ w \in StoreSet /\ w.slave = TRUE /\ \A p : Fresh(w, p)
  BY DEF KeySpaceOps, Slavish, Fresh
<1>1. CASE op \in [cmd : {"get", "persist"}, key : Keys]
  <2>1. <<d, op.key>> \in Places
    BY <1>1 DEF Places
  <2>2. CASE op.cmd = "get"
    <3>1. result = lookupKeyRead(w, <<d, op.key>>)
      BY <2>2 DEF Execute
    <3> QED BY <1>0, <3>1, FreshKeys DEF lookupKeyRead
  <2>3. CASE op.cmd = "persist"
    <3>1. result = persistCommand(w, <<d, op.key>>)
      BY <2>3 DEF Execute
    <3>2. \/ result = w
          \/ Becomes(w, result, w.dict, [w.expires EXCEPT ![<<d, op.key>>] = "never"], TRUE)
      BY <1>0, <2>1, <3>1, PersistEffect
    <3> QED BY <3>2, BecomesSlavish
  <2> QED BY <1>1, <2>2, <2>3
<1>2. CASE op \in [cmd : {"set"}, key : Keys, val : Values, nx : BOOLEAN, ttl : BOOLEAN]
  <2>1. <<d, op.key>> \in Places /\ op.val \in Values
          /\ op.nx \in BOOLEAN /\ op.ttl \in BOOLEAN
    BY <1>2 DEF Places
  <2>2. result = setGenericCommand(w, <<d, op.key>>, op.val, op.nx, op.ttl)
    BY <1>2 DEF Execute
  <2> DEFINE p == <<d, op.key>>
  <2>3. IF op.nx /\ Exists(w, p) THEN result = w
        ELSE Becomes(w, result, [w.dict EXCEPT ![p] = op.val],
               [w.expires EXCEPT ![p] = IF op.ttl THEN "later" ELSE "never"], TRUE)
    BY <1>0, <2>1, <2>2, SetEffect
  <2> HIDE DEF result, p
  <2>4. Slavish(result)
    BY <2>3, BecomesSlavish
  <2> QED BY <2>4 DEF result
<1>3. CASE op \in [cmd : {"del"}, keys : SUBSET Keys]
  <2>1. result = delCommand(w, d, op.keys) /\ op.keys \in SUBSET Keys
    BY <1>3 DEF Execute
  <2> QED BY <1>0, <2>1, DelEffect DEF Becomes, Slavish
<1>4. CASE op \in [cmd : {"expire"}, key : Keys, past : BOOLEAN]
  <2>1. <<d, op.key>> \in Places /\ op.past \in BOOLEAN
    BY <1>4 DEF Places
  <2>2. result = expireGenericCommand(w, <<d, op.key>>, op.past)
    BY <1>4 DEF Execute
  <2>3. CASE Exists(w, <<d, op.key>>)
    <3> DEFINE p == <<d, op.key>>
    <3>1. IF op.past /\ ~w.slave
          THEN Becomes(w, expireGenericCommand(w, p, op.past), [w.dict EXCEPT ![p] = NoValue],
                      [w.expires EXCEPT ![p] = "never"], TRUE)
          ELSE Becomes(w, expireGenericCommand(w, p, op.past), w.dict,
                      [w.expires EXCEPT ![p] = "later"], TRUE)
      BY <1>0, <2>1, <2>3, ExpireEffect
    <3> HIDE DEF result, p
    <3>2. Slavish(expireGenericCommand(w, p, op.past))
      BY <3>1, BecomesSlavish
    <3> QED BY <2>2, <3>2 DEF result, p
  <2>4. CASE ~Exists(w, <<d, op.key>>)
    BY <2>2, <2>4 DEF expireGenericCommand
  <2> QED BY <2>3, <2>4
<1>5. CASE op \in [cmd : {"rename"}, key : Keys, to : Keys, nx : BOOLEAN]
  <2>1. <<d, op.key>> \in Places /\ <<d, op.to>> \in Places /\ op.nx \in BOOLEAN
    BY <1>5 DEF Places
  <2>2. result = renameGenericCommand(w, <<d, op.key>>, <<d, op.to>>, op.nx)
    BY <1>5 DEF Execute
  <2> DEFINE p == <<d, op.key>>
             q == <<d, op.to>>
  <2>3. IF p = q \/ ~Exists(w, p) \/ (Exists(w, q) /\ op.nx)
        THEN renameGenericCommand(w, p, q, op.nx) = w
        ELSE Becomes(w, renameGenericCommand(w, p, q, op.nx),
                     [[w.dict EXCEPT ![p] = NoValue] EXCEPT ![q] = w.dict[p]],
                     [[w.expires EXCEPT ![p] = "never"] EXCEPT ![q] = w.expires[p]], TRUE)
    BY <1>0, <2>1, RenameEffect
  <2> HIDE DEF result, p, q
  <2>4. Slavish(renameGenericCommand(w, p, q, op.nx))
    BY <2>3, BecomesSlavish
  <2> QED BY <2>2, <2>4 DEF result, p, q
<1>6. CASE op \in [cmd : {"move"}, key : Keys, db : Int]
  <2>1. <<d, op.key>> \in Places /\ op.cmd = "move"
    BY <1>6 DEF Places
  <2>2. result = moveCommand(w, <<d, op.key>>, <<op.db, op.key>>)
    BY <1>6 DEF Execute
  <2> DEFINE p == <<d, op.key>>
             q == <<op.db, op.key>>
  <2>3. IF q \notin Places \/ p = q \/ ~Exists(w, p) \/ Exists(w, q)
        THEN moveCommand(w, p, q) = w
        ELSE Becomes(w, moveCommand(w, p, q),
                     [[w.dict EXCEPT ![p] = NoValue] EXCEPT ![q] = w.dict[p]],
                     [w.expires EXCEPT ![p] = "never"], TRUE)
    BY <1>0, <2>1, MoveEffect
  <2> HIDE DEF result, p, q
  <2>4. Slavish(moveCommand(w, p, q))
    BY <2>3, BecomesSlavish
  <2> QED BY <2>2, <2>4 DEF result, p, q
<1>7. CASE op \in [cmd : {"flushdb", "flushall", "unwatch", "multi", "exec"}]
  <2> DEFINE one == Flushed(w, {d})
             all == Flushed(w, Dbs)
  <2>1. op.cmd \in {"flushdb", "flushall"}
    BY <1>0, <1>7
  <2>2. result = flushdbCommand(w, d) \/ result = flushallCommand(w)
    BY <2>1 DEF Execute
  <2>3. result \in {one, Dirty(one), Dirty(all)}
    BY <2>2 DEF flushdbCommand, flushallCommand
  <2>4. Slavish(one) /\ Slavish(all)
    BY <1>0, FlushEffect DEF Becomes, Slavish
  <2> HIDE DEF one, all, result
  <2> QED BY <2>3, <2>4, DirtyFields DEF Slavish, result
<1>8. op \notin [cmd : {"select"}, db : Int]
  BY <1>0
<1> HIDE DEF result
<1>9. Slavish(result)
  BY <1>0, <1>1, <1>2, <1>3, <1>4, <1>5, <1>6, <1>7, <1>8 DEF Ops, result
<1> QED BY <1>9 DEF result

-----------------------------------------------------------------------------
(* A command found the store as mid after its lookups and left it as t:    *)
(* a slave that has the data of mid and executes what the command sends    *)
(* has the data of t, and if it sends nothing nothing has changed.         *)
Mirrors(mid, t, d, op) ==
  /\ t.out = mid.out
  /\ ~t.dirty => Same(mid, t)
  /\ t.dirty => \A w : Slavish(w) /\ Same(mid, w) => Same(t, Execute(w, d, PropagatedAs(op)))

(* A store a command may find when it looks up at most two keys. *)
Reached(s, mid) ==
  \/ mid = s
  \/ \E p \in Places : mid = expireIfNeeded(s, p)
  \/ \E p, q \in Places : mid = expireIfNeeded(expireIfNeeded(s, p), q)

(* s has become t by a command that does so after some lookups. *)
Answers(s, t, d, op) == \E mid : Reached(s, mid) /\ Mirrors(mid, t, d, op)

(* A key looked up is fresh, as are those that were before. *)
LEMMA LookupFields ==
  ASSUME NEW s, Good(s), NEW p \in Places
  PROVE  LET t == expireIfNeeded(s, p)
         IN Good(t) /\ t.dirty = s.dirty /\ Fresh(t, p) /\ \A q \in Places : Fresh(s, q) => Fresh(t, q)
<1> DEFINE t == expireIfNeeded(s, p)
<1>1. /\ Good(t) /\ t.expires[p] # "past"
      /\ \A q \in Places :
            \/ t.dict[q] = s.dict[q] /\ t.expires[q] = s.expires[q]
            \/ /\ s.expires[q] = "past"
               /\ t.dict[q] = NoValue /\ t.expires[q] = "never"
  BY ExpireFacts
<1>2. t.dirty = s.dirty
  BY DEF expireIfNeeded, dbDelete, propagateExpire, Good, StoreSet
<1> HIDE DEF t
<1>3. Fresh(t, p)
  BY <1>1 DEF Fresh
<1>4. ASSUME NEW q \in Places, Fresh(s, q) PROVE Fresh(t, q)
  BY <1>1, <1>4 DEF Fresh, Good
<1> QED BY <1>1, <1>2, <1>3, <1>4 DEF t

(* Nothing was modified. *)
LEMMA UnmodifiedMirrors ==
  ASSUME NEW mid, mid.dirty = FALSE, NEW d, NEW op
  PROVE  Mirrors(mid, mid, d, op)
  BY DEF Mirrors, Same

(* The slave sets what the master has set, and SETNX of an existing key is *)
(* not sent.                                                               *)
LEMMA SetMirrors ==
  ASSUME NEW x, Good(x), x.dirty = FALSE, NEW d \in Dbs,
         NEW op \in [cmd : {"set"}, key : Keys, val : Values, nx : BOOLEAN, ttl : BOOLEAN],
         Fresh(x, <<d, op.key>>)
  PROVE  Mirrors(x, setGenericCommand(x, <<d, op.key>>, op.val, op.nx, op.ttl), d, op)
<1> DEFINE p == <<d, op.key>>
           t == setGenericCommand(x, p, op.val, op.nx, op.ttl)
<1>1. p \in Places /\ op.val \in Values /\ op.nx \in BOOLEAN /\ op.ttl \in BOOLEAN /\ x \in StoreSet
        /\ op.cmd = "set"
  BY DEF Places, Good
<1>2. IF op.nx /\ Exists(x, p) THEN t = x
      ELSE Becomes(x, t, [x.dict EXCEPT ![p] = op.val],
                   [x.expires EXCEPT ![p] = IF op.ttl THEN "later" ELSE "never"], TRUE)
  BY <1>1, SetEffect
<1>3. CASE op.nx /\ Exists(x, p)
  BY <1>2, <1>3, UnmodifiedMirrors
<1>4. CASE ~(op.nx /\ Exists(x, p))
  <2> SUFFICES ASSUME NEW w, Slavish(w), Same(x, w)
               PROVE  Same(t, Execute(w, d, PropagatedAs(op)))
    BY <1>2, <1>4 DEF Mirrors, Becomes
  <2> DEFINE r == Execute(w, d, PropagatedAs(op))
  <2>1. r = setGenericCommand(w, p, op.val, op.nx, op.ttl)
    BY <1>1 DEF Execute, PropagatedAs
  <2>2. ~(op.nx /\ Exists(w, p)) /\ Fresh(w, p) /\ w \in StoreSet
    BY <1>4 DEF Same, Exists, Slavish, Fresh
  <2>a. IF op.nx /\ Exists(w, p) THEN r = w
        ELSE Becomes(w, r, [w.dict EXCEPT ![p] = op.val],
               [w.expires EXCEPT ![p] = IF op.ttl THEN "later" ELSE "never"], TRUE)
    <3> DEFINE u == setGenericCommand(w, p, op.val, op.nx, op.ttl)
    <3>1. IF op.nx /\ Exists(w, p) THEN u = w
          ELSE Becomes(w, u, [w.dict EXCEPT ![p] = op.val],
                 [w.expires EXCEPT ![p] = IF op.ttl THEN "later" ELSE "never"], TRUE)
      BY <1>1, <2>2, SetEffect
    <3>2. r = u
      BY <2>1
    <3> HIDE DEF r, u, p
    <3> QED BY <3>1, <3>2
  <2> HIDE DEF r, t, p
  <2>3. Becomes(w, r, [w.dict EXCEPT ![p] = op.val],
                   [w.expires EXCEPT ![p] = IF op.ttl THEN "later" ELSE "never"], TRUE)
    BY <2>2, <2>a
  <2>4. r.dict = [x.dict EXCEPT ![p] = op.val] /\ t.dict = r.dict
    BY <1>2, <1>4, <2>3 DEF Same, Becomes
  <2>5. ASSUME NEW z \in Places PROVE t.expires[z] = "never" <=> r.expires[z] = "never"
    BY <1>1, <1>2, <1>4, <2>2, <2>3 DEF Same, Becomes, StoreSet, Expires
  <2> QED BY <2>4, <2>5 DEF Same, r
<1> QED BY <1>3, <1>4

(* DEL sends itself if a key existed; otherwise no place of its keys had   *)
(* an expire time either.                                                  *)
LEMMA DelMirrors ==
  ASSUME NEW x, Good(x), x.dirty = FALSE, NEW d \in Dbs,
         NEW op \in [cmd : {"del"}, keys : SUBSET Keys]
  PROVE  Mirrors(x, delCommand(x, d, op.keys), d, op)
<1> DEFINE gone == {d} \X op.keys
           t == delCommand(x, d, op.keys)
<1>1. gone \subseteq Places /\ op.keys \in SUBSET Keys /\ op.cmd = "del" /\ x \in StoreSet
  BY DEF Places, Good
<1>2. Becomes(x, t, DictWithout(x, gone), ExpiresWithout(x, gone), \E p \in gone : Exists(x, p))
  BY <1>1, DelEffect
<1> HIDE DEF t
<1>3. ASSUME ~t.dirty PROVE Same(x, t)
  <2> HIDE DEF gone
  <2>1. \A p \in Places : p \in gone => x.dict[p] = NoValue /\ x.expires[p] = "never"
    BY <1>1, <1>2, <1>3 DEF Becomes, Exists, Good, HaveKeys
  <2>2. t.dict = x.dict
    BY <1>1, <1>2, <2>1 DEF Becomes, DictWithout, StoreSet, Dict
  <2>3. t.expires = x.expires
    BY <1>1, <1>2, <2>1 DEF Becomes, ExpiresWithout, StoreSet, Expires
  <2> QED BY <2>2, <2>3 DEF Same
<1>4. ASSUME NEW w, Slavish(w), Same(x, w)
      PROVE  Same(t, Execute(w, d, PropagatedAs(op)))
  <2> DEFINE r == delCommand(w, d, op.keys)
  <2>1. Execute(w, d, PropagatedAs(op)) = r
    BY <1>1 DEF Execute, PropagatedAs
  <2>2. Becomes(w, r, DictWithout(w, gone), ExpiresWithout(w, gone), w.dirty \/ \E p \in gone : Exists(w, p))
    BY <1>1, <1>4, DelEffect DEF Slavish
  <2> HIDE DEF r, gone
  <2>3. t.dict = r.dict
    BY <1>2, <1>4, <2>2 DEF Becomes, DictWithout, Same
  <2>4. \A p \in Places : t.expires[p] = "never" <=> r.expires[p] = "never"
    BY <1>2, <1>4, <2>2 DEF Becomes, ExpiresWithout, Same
  <2> QED BY <2>1, <2>3, <2>4 DEF Same
<1>5. t.out = x.out
  BY <1>2 DEF Becomes
<1> QED BY <1>3, <1>4, <1>5 DEF Mirrors, t

(* EXPIRE with a time gone by is a DEL for the slave. *)
LEMMA ExpireMirrors ==
  ASSUME NEW x, Good(x), x.dirty = FALSE, NEW d \in Dbs,
         NEW op \in [cmd : {"expire"}, key : Keys, past : BOOLEAN]
  PROVE  Mirrors(x, expireGenericCommand(x, <<d, op.key>>, op.past), d, op)
<1> DEFINE p == <<d, op.key>>
           t == expireGenericCommand(x, p, op.past)
<1>1. p \in Places /\ op.past \in BOOLEAN /\ x \in StoreSet /\ x.slave = FALSE
        /\ op.cmd = "expire" /\ op.key \in Keys
  BY DEF Places, Good
<1>2. CASE ~Exists(x, p)
  <2>1. t = x
    BY <1>2 DEF expireGenericCommand
  <2> QED BY <2>1, UnmodifiedMirrors
<1>3. CASE Exists(x, p) /\ op.past
  <2>1. Becomes(x, t, [x.dict EXCEPT ![p] = NoValue], [x.expires EXCEPT ![p] = "never"], TRUE)
    BY <1>1, <1>3, ExpireEffect
  <2> SUFFICES ASSUME NEW w, Slavish(w), Same(x, w)
               PROVE  Same(t, Execute(w, d, PropagatedAs(op)))
    BY <2>1 DEF Mirrors, Becomes
  <2> DEFINE gone == {d} \X {op.key}
             r == delCommand(w, d, {op.key})
  <2>2. Execute(w, d, PropagatedAs(op)) = r
    BY <1>1, <1>3 DEF Execute, PropagatedAs, DelOp
  <2>3. gone = {p}
    OBVIOUS
  <2>4. Becomes(w, r, DictWithout(w, gone), ExpiresWithout(w, gone), w.dirty \/ \E z \in gone : Exists(w, z))
    BY <1>1, DelEffect DEF Slavish
  <2> HIDE DEF r, gone, t, p
  <2>5. t.dict = r.dict
    BY <1>1, <2>1, <2>3, <2>4 DEF Becomes, DictWithout, Same, Slavish, StoreSet, Dict
  <2>6. \A z \in Places : t.expires[z] = "never" <=> r.expires[z] = "never"
    BY <1>1, <2>1, <2>3, <2>4 DEF Becomes, ExpiresWithout, Same, Slavish, StoreSet, Expires
  <2> QED BY <2>2, <2>5, <2>6 DEF Same
<1>4. CASE Exists(x, p) /\ ~op.past
  <2>1. Becomes(x, t, x.dict, [x.expires EXCEPT ![p] = "later"], TRUE)
    BY <1>1, <1>4, ExpireEffect
  <2> SUFFICES ASSUME NEW w, Slavish(w), Same(x, w)
               PROVE  Same(t, Execute(w, d, PropagatedAs(op)))
    BY <2>1 DEF Mirrors, Becomes
  <2> DEFINE r == expireGenericCommand(w, p, op.past)
  <2>2. Execute(w, d, PropagatedAs(op)) = r
    BY <1>1, <1>4 DEF Execute, PropagatedAs
  <2>3. Exists(w, p) /\ w \in StoreSet
    BY <1>4 DEF Same, Exists, Slavish
  <2>4. Becomes(w, r, w.dict, [w.expires EXCEPT ![p] = "later"], TRUE)
    BY <1>1, <1>4, <2>3, ExpireEffect
  <2> HIDE DEF r, t, p
  <2>5. t.dict = r.dict
    BY <2>1, <2>4 DEF Becomes, Same
  <2>6. \A z \in Places : t.expires[z] = "never" <=> r.expires[z] = "never"
    BY <1>1, <2>1, <2>3, <2>4 DEF Becomes, Same, StoreSet, Expires
  <2> QED BY <2>2, <2>5, <2>6 DEF Same
<1> QED BY <1>2, <1>3, <1>4

(* PERSIST is sent when the key was volatile, as it is on the slave. *)
LEMMA PersistMirrors ==
  ASSUME NEW x, Good(x), x.dirty = FALSE, NEW d \in Dbs,
         NEW op \in [cmd : {"get", "persist"}, key : Keys], op.cmd = "persist"
  PROVE  Mirrors(x, persistCommand(x, <<d, op.key>>), d, op)
<1> DEFINE p == <<d, op.key>>
           t == persistCommand(x, p)
<1>1. p \in Places /\ x \in StoreSet
  BY DEF Places, Good
<1>2. CASE ~Exists(x, p) \/ x.expires[p] = "never"
  <2>1. t = x
    BY <1>2 DEF persistCommand
  <2> QED BY <2>1, UnmodifiedMirrors
<1>3. CASE Exists(x, p) /\ x.expires[p] # "never"
  <2>1. Becomes(x, t, x.dict, [x.expires EXCEPT ![p] = "never"], TRUE)
    BY <1>1, <1>3, PersistEffect
  <2> SUFFICES ASSUME NEW w, Slavish(w), Same(x, w)
               PROVE  Same(t, Execute(w, d, PropagatedAs(op)))
    BY <2>1 DEF Mirrors, Becomes
  <2> DEFINE r == persistCommand(w, p)
  <2>2. Execute(w, d, PropagatedAs(op)) = r
    BY DEF Execute, PropagatedAs
  <2>3. Exists(w, p) /\ w.expires[p] # "never" /\ w \in StoreSet
    BY <1>1, <1>3 DEF Same, Exists, Slavish
  <2>4. Becomes(w, r, w.dict, [w.expires EXCEPT ![p] = "never"], TRUE)
    BY <1>1, <2>3, PersistEffect
  <2> HIDE DEF r, t, p
  <2>5. t.dict = r.dict
    BY <2>1, <2>4 DEF Becomes, Same
  <2>6. \A z \in Places : t.expires[z] = "never" <=> r.expires[z] = "never"
    BY <1>1, <2>1, <2>3, <2>4 DEF Becomes, Same, StoreSet, Expires
  <2> QED BY <2>2, <2>5, <2>6 DEF Same
<1> QED BY <1>2, <1>3

(* The slave renames, and overwrites, the same keys. *)
LEMMA RenameMirrors ==
  ASSUME NEW x, Good(x), x.dirty = FALSE, NEW d \in Dbs,
         NEW op \in [cmd : {"rename"}, key : Keys, to : Keys, nx : BOOLEAN],
         Fresh(x, <<d, op.key>>), Fresh(x, <<d, op.to>>)
  PROVE  Mirrors(x, renameGenericCommand(x, <<d, op.key>>, <<d, op.to>>, op.nx), d, op)
<1> DEFINE p == <<d, op.key>>
           q == <<d, op.to>>
           t == renameGenericCommand(x, p, q, op.nx)
           Kept(z) == p = q \/ ~Exists(z, p) \/ (Exists(z, q) /\ op.nx)
<1>1. p \in Places /\ q \in Places /\ op.nx \in BOOLEAN /\ x \in StoreSet /\ op.cmd = "rename"
  BY DEF Places, Good
<1>a. ASSUME NEW z \in StoreSet, Fresh(z, p), Fresh(z, q)
      PROVE  IF Kept(z) THEN renameGenericCommand(z, p, q, op.nx) = z
             ELSE Becomes(z, renameGenericCommand(z, p, q, op.nx),
                      [[z.dict EXCEPT ![p] = NoValue] EXCEPT ![q] = z.dict[p]],
                      [[z.expires EXCEPT ![p] = "never"] EXCEPT ![q] = z.expires[p]], TRUE)
  <2> HIDE DEF p, q
  <2> QED BY <1>1, <1>a, RenameEffect
<1>2. CASE Kept(x)
  <2>1. t = x
    <3> HIDE DEF Kept, p, q
    <3> QED BY <1>1, <1>2, <1>a DEF p, q
  <2> HIDE DEF t
  <2>2. Mirrors(x, t, d, op)
    BY <2>1, UnmodifiedMirrors
  <2> QED BY <2>2 DEF t
<1>3. CASE ~Kept(x)
  <2>1. Becomes(x, t, [[x.dict EXCEPT ![p] = NoValue] EXCEPT ![q] = x.dict[p]],
                      [[x.expires EXCEPT ![p] = "never"] EXCEPT ![q] = x.expires[p]], TRUE)
    <3> HIDE DEF Kept, p, q
    <3> QED BY <1>1, <1>3, <1>a DEF p, q
  <2> SUFFICES ASSUME NEW w, Slavish(w), Same(x, w)
               PROVE  Same(t, Execute(w, d, PropagatedAs(op)))
    BY <2>1 DEF Mirrors, Becomes
  <2> DEFINE r == renameGenericCommand(w, p, q, op.nx)
  <2>2. Execute(w, d, PropagatedAs(op)) = r
    BY <1>1 DEF Execute, PropagatedAs
  <2>3. ~Kept(w) /\ w \in StoreSet /\ Fresh(w, p) /\ Fresh(w, q)
    BY <1>1, <1>3 DEF Same, Exists, Slavish, Fresh
  <2>4. Becomes(w, r, [[w.dict EXCEPT ![p] = NoValue] EXCEPT ![q] = w.dict[p]],
                      [[w.expires EXCEPT ![p] = "never"] EXCEPT ![q] = w.expires[p]], TRUE)
    <3> HIDE DEF Kept, p, q
    <3> QED BY <1>1, <2>3, <1>a
  <2> HIDE DEF r, t, p, q, Kept
  <2>5. t.dict = r.dict
    BY <2>1, <2>4 DEF Becomes, Same
  <2>6. ASSUME NEW z \in Places PROVE t.expires[z] = "never" <=> r.expires[z] = "never"
    <3>1. x.expires \in Expires /\ w.expires \in Expires
      BY <1>1, <2>3 DEF StoreSet
    <3>2. /\ t.expires[z] = IF z = q THEN x.expires[p] ELSE IF z = p THEN "never" ELSE x.expires[z]
          /\ r.expires[z] = IF z = q THEN w.expires[p] ELSE IF z = p THEN "never" ELSE w.expires[z]
      BY <1>1, <2>1, <2>4, <3>1 DEF Becomes, Expires
    <3> QED BY <1>1, <3>2 DEF Same
  <2> QED BY <2>2, <2>5, <2>6 DEF Same
<1> QED BY <1>2, <1>3

(* The slave moves the same key, to a place that is as free there. *)
LEMMA MoveMirrors ==
  ASSUME NEW x, Good(x), x.dirty = FALSE, NEW d \in Dbs,
         NEW op \in [cmd : {"move"}, key : Keys, db : Int],
         Fresh(x, <<d, op.key>>), Fresh(x, <<op.db, op.key>>)
  PROVE  Mirrors(x, moveCommand(x, <<d, op.key>>, <<op.db, op.key>>), d, op)
<1> DEFINE p == <<d, op.key>>
           q == <<op.db, op.key>>
           t == moveCommand(x, p, q)
           Kept(z) == q \notin Places \/ p = q \/ ~Exists(z, p) \/ Exists(z, q)
<1>1. p \in Places /\ x \in StoreSet /\ op.cmd = "move"
  BY DEF Places, Good
<1>a. ASSUME NEW z \in StoreSet, Fresh(z, p), Fresh(z, q)
      PROVE  IF Kept(z) THEN moveCommand(z, p, q) = z
             ELSE Becomes(z, moveCommand(z, p, q),
                      [[z.dict EXCEPT ![p] = NoValue] EXCEPT ![q] = z.dict[p]],
                      [z.expires EXCEPT ![p] = "never"], TRUE)
  BY <1>1, <1>a, MoveEffect
<1>2. CASE Kept(x)
  <2>1. t = x
    <3> HIDE DEF Kept, p, q
    <3> QED BY <1>1, <1>2, <1>a DEF p, q
  <2> HIDE DEF t
  <2>2. Mirrors(x, t, d, op)
    BY <2>1, UnmodifiedMirrors
  <2> QED BY <2>2 DEF t
<1>3. CASE ~Kept(x)
  <2>1. Becomes(x, t, [[x.dict EXCEPT ![p] = NoValue] EXCEPT ![q] = x.dict[p]],
                      [x.expires EXCEPT ![p] = "never"], TRUE)
    <3> HIDE DEF Kept, p, q
    <3> QED BY <1>1, <1>3, <1>a DEF p, q
  <2> SUFFICES ASSUME NEW w, Slavish(w), Same(x, w)
               PROVE  Same(t, Execute(w, d, PropagatedAs(op)))
    BY <2>1 DEF Mirrors, Becomes
  <2> DEFINE r == moveCommand(w, p, q)
  <2>2. Execute(w, d, PropagatedAs(op)) = r
    BY <1>1 DEF Execute, PropagatedAs
  <2>3. ~Kept(w) /\ w \in StoreSet /\ Fresh(w, p) /\ Fresh(w, q)
    BY <1>1, <1>3 DEF Same, Exists, Slavish, Fresh
  <2>4. Becomes(w, r, [[w.dict EXCEPT ![p] = NoValue] EXCEPT ![q] = w.dict[p]],
                      [w.expires EXCEPT ![p] = "never"], TRUE)
    <3> HIDE DEF Kept, p, q
    <3> QED BY <1>1, <2>3, <1>a
  <2> HIDE DEF r, t, p, q, Kept
  <2>5. t.dict = r.dict
    BY <2>1, <2>4 DEF Becomes, Same
  <2>6. \A z \in Places : t.expires[z] = "never" <=> r.expires[z] = "never"
    BY <1>1, <2>1, <2>3, <2>4 DEF Becomes, Same, StoreSet, Expires
  <2> QED BY <2>2, <2>5, <2>6 DEF Same
<1> QED BY <1>2, <1>3

(* FLUSHDB of an empty database is not sent, and FLUSHALL always is. *)
LEMMA FlushMirrors ==
  ASSUME NEW x, Good(x), x.dirty = FALSE, NEW d \in Dbs,
         NEW op \in [cmd : {"flushdb", "flushall", "unwatch", "multi", "exec"}],
         op.cmd \in {"flushdb", "flushall"}
  PROVE  Mirrors(x, Execute(x, d, op), d, op)
<1> DEFINE dbs == IF op.cmd = "flushdb" THEN {d} ELSE Dbs
           gone == dbs \X Keys
           y == Flushed(x, dbs)
           t == Execute(x, d, op)
<1>1. dbs \in SUBSET Dbs /\ gone \subseteq Places /\ x \in StoreSet
  BY DEF Places, Good
<1>a. ASSUME NEW z \in StoreSet
      PROVE  /\ Becomes(z, Flushed(z, dbs), DictWithout(z, gone), ExpiresWithout(z, gone), z.dirty)
             /\ Flushed(z, dbs).flushed = { p \in gone : Exists(z, p) }
  <2> HIDE DEF dbs
  <2> QED BY <1>1, FlushEffect
<1>b. ASSUME NEW z \in StoreSet
      PROVE  /\ Execute(z, d, op).dict = DictWithout(z, gone)
             /\ Execute(z, d, op).expires = ExpiresWithout(z, gone)
             /\ Execute(z, d, op).out = z.out
             /\ ~Execute(z, d, op).dirty => \A p \in gone : ~Exists(z, p)
  <2> DEFINE f == Flushed(z, dbs)
             e == Execute(z, d, op)
  <2>1. e = Dirty(f) \/ (e = f /\ f.flushed = {})
    BY DEF Execute, flushdbCommand, flushallCommand
  <2>2. Becomes(z, f, DictWithout(z, gone), ExpiresWithout(z, gone), z.dirty)
        /\ f.flushed = { p \in gone : Exists(z, p) }
    BY <1>a
  <2> HIDE DEF f, e, gone
  <2>3. Becomes(z, Dirty(f), DictWithout(z, gone), ExpiresWithout(z, gone), TRUE)
    BY <2>2, DirtyFields DEF Becomes
  <2>4. e.dict = DictWithout(z, gone) /\ e.expires = ExpiresWithout(z, gone) /\ e.out = z.out
    BY <2>1, <2>2, <2>3 DEF Becomes
  <2>5. ~e.dirty => \A p \in gone : ~Exists(z, p)
    BY <2>1, <2>2, <2>3 DEF Becomes
  <2> QED BY <2>4, <2>5 DEF e
<1> HIDE DEF t, gone, dbs
<1>2. t.dict = DictWithout(x, gone) /\ t.expires = ExpiresWithout(x, gone) /\ t.out = x.out
        /\ (~t.dirty => \A p \in gone : ~Exists(x, p))
  BY <1>1, <1>b DEF t
<1>3. ASSUME ~t.dirty PROVE Same(x, t)
  <2>1. \A p \in Places : p \in gone => x.dict[p] = NoValue /\ x.expires[p] = "never"
    BY <1>1, <1>2, <1>3 DEF Exists, Good, HaveKeys
  <2>2. t.dict = x.dict
    BY <1>1, <1>2, <2>1 DEF DictWithout, StoreSet, Dict
  <2>3. t.expires = x.expires
    BY <1>1, <1>2, <2>1 DEF ExpiresWithout, StoreSet, Expires
  <2> QED BY <2>2, <2>3 DEF Same
<1>4. ASSUME NEW w, Slavish(w), Same(x, w)
      PROVE  Same(t, Execute(w, d, PropagatedAs(op)))
  <2> DEFINE r == Execute(w, d, op)
  <2>1. PropagatedAs(op) = op
    BY DEF PropagatedAs
  <2>2. r.dict = DictWithout(w, gone) /\ r.expires = ExpiresWithout(w, gone)
    BY <1>4, <1>b DEF Slavish
  <2> HIDE DEF r
  <2>3. t.dict = r.dict
    BY <1>2, <1>4, <2>2 DEF DictWithout, Same
  <2>4. \A p \in Places : t.expires[p] = "never" <=> r.expires[p] = "never"
    BY <1>2, <1>4, <2>2 DEF ExpiresWithout, Same
  <2>5. Same(t, r)
    BY <2>3, <2>4 DEF Same
  <2> QED BY <2>1, <2>5 DEF r
<1>5. Mirrors(x, t, d, op)
  BY <1>2, <1>3, <1>4 DEF Mirrors
<1> QED BY <1>5 DEF t

-----------------------------------------------------------------------------
(* Every command looks up at most two keys, and then does what a slave     *)
(* does that executes what it sends.                                       *)
LEMMA ExecuteAnswers ==
  ASSUME NEW s, Good(s), s.dirty = FALSE, NEW d \in Dbs, NEW op \in KeySpaceOps
  PROVE  Answers(s, Execute(s, d, op), d, op)
<1> DEFINE result == Execute(s, d, op)
<1>0. /\ op \in Ops /\ op.cmd \notin {"select", "unwatch", "multi", "exec"}
  BY DEF KeySpaceOps
<1>1. CASE op \in [cmd : {"get", "persist"}, key : Keys]
  <2> DEFINE p == <<d, op.key>>
             found == expireIfNeeded(s, p)
  <2>1. p \in Places
    BY <1>1 DEF Places
  <2>2. CASE op.cmd = "get"
    <3>1. result = found
      BY <2>2 DEF Execute, lookupKeyRead
    <3>2. found.dirty = FALSE
      BY <2>1, LookupFields
    <3>3. Mirrors(found, found, d, op)
      <4> HIDE DEF found
      <4> QED BY <3>2, UnmodifiedMirrors
    <3> QED BY <2>1, <3>1, <3>3 DEF Answers, Reached
  <2>3. CASE op.cmd = "persist"
    <3>1. result = persistCommand(s, p)
      BY <2>3 DEF Execute
    <3>2. Mirrors(s, persistCommand(s, p), d, op)
      BY <1>1, <2>3, PersistMirrors
    <3> QED BY <3>1, <3>2 DEF Answers, Reached
  <2> QED BY <1>1, <2>2, <2>3
<1>2. CASE op \in [cmd : {"set"}, key : Keys, val : Values, nx : BOOLEAN, ttl : BOOLEAN]
  <2> DEFINE p == <<d, op.key>>
             found == expireIfNeeded(s, p)
  <2>1. p \in Places
    BY <1>2 DEF Places
  <2>2. Good(found) /\ found.dirty = FALSE /\ Fresh(found, p)
    BY <2>1, LookupFields
  <2>3. expireIfNeeded(found, p) = found
    BY <2>2, FreshKeys
  <2>4. result = setGenericCommand(s, p, op.val, op.nx, op.ttl)
    BY <1>2 DEF Execute
  <2>5. setGenericCommand(s, p, op.val, op.nx, op.ttl) = setGenericCommand(found, p, op.val, op.nx, op.ttl)
    BY <2>3, Zenon DEF setGenericCommand
  <2> HIDE DEF found
  <2>6. Mirrors(found, setGenericCommand(found, p, op.val, op.nx, op.ttl), d, op)
    BY <1>2, <2>2, SetMirrors
  <2> QED BY <2>1, <2>4, <2>5, <2>6 DEF Answers, Reached, found
<1>3. CASE op \in [cmd : {"del"}, keys : SUBSET Keys]
  <2>1. result = delCommand(s, d, op.keys)
    BY <1>3 DEF Execute
  <2>2. Mirrors(s, delCommand(s, d, op.keys), d, op)
    BY <1>3, DelMirrors
  <2> QED BY <2>1, <2>2 DEF Answers, Reached
<1>4. CASE op \in [cmd : {"expire"}, key : Keys, past : BOOLEAN]
  <2>2. result = expireGenericCommand(s, <<d, op.key>>, op.past)
    BY <1>4 DEF Execute
  <2>3. Mirrors(s, expireGenericCommand(s, <<d, op.key>>, op.past), d, op)
    BY <1>4, ExpireMirrors
  <2> QED BY <2>2, <2>3 DEF Answers, Reached
<1>5. CASE op \in [cmd : {"rename"}, key : Keys, to : Keys, nx : BOOLEAN]
  <2> DEFINE p == <<d, op.key>>
             q == <<d, op.to>>
             found == expireIfNeeded(s, p)
             target == expireIfNeeded(found, q)
  <2>1. p \in Places /\ q \in Places /\ op.nx \in BOOLEAN
    BY <1>5 DEF Places
  <2>2. result = renameGenericCommand(s, p, q, op.nx)
    BY <1>5 DEF Execute
  <2>3. Good(found) /\ found.dirty = FALSE /\ Fresh(found, p)
    BY <2>1, LookupFields
  <2> HIDE DEF found
  <2>4. Good(target) /\ target.dirty = FALSE /\ Fresh(target, p) /\ Fresh(target, q)
    BY <2>1, <2>3, LookupFields
  <2>5. expireIfNeeded(target, p) = target /\ expireIfNeeded(target, q) = target
    BY <2>4, FreshKeys
  <2>6. p # q => target.dict[p] = found.dict[p] /\ target.expires[p] = found.expires[p]
    <3>1. CASE found.expires[q] # "past"
      BY <3>1 DEF expireIfNeeded
    <3>2. CASE found.expires[q] = "past"
      <4> DEFINE u == propagateExpire(found, q)
      <4>1. target = dbDelete(u, q)
        BY <3>2, <2>3 DEF expireIfNeeded, Good
      <4>2. u.dict = found.dict /\ u.expires = found.expires
        BY <2>3 DEF propagateExpire, Good, StoreSet
      <4>3. dbDelete(u, q).dict = [found.dict EXCEPT ![q] = NoValue]
            /\ dbDelete(u, q).expires = [found.expires EXCEPT ![q] = "never"]
        BY <2>3, <4>2 DEF dbDelete, propagateExpire, Good, StoreSet
      <4> HIDE DEF target, u, p, q
      <4> QED BY <2>1, <2>3, <4>1, <4>3 DEF Good, StoreSet, Dict, Expires
    <3> QED BY <3>1, <3>2
  <2>7. CASE p = q
    <3>1. result = s
      BY <2>2, <2>7 DEF renameGenericCommand
    <3> QED BY <3>1, UnmodifiedMirrors DEF Answers, Reached
  <2>8. CASE p # q /\ ~Exists(found, p)
    <3>1. result = found
      BY <2>2, <2>8 DEF renameGenericCommand, found
    <3>2. Mirrors(found, found, d, op)
      BY <2>3, UnmodifiedMirrors
    <3> QED BY <2>1, <3>1, <3>2 DEF Answers, Reached, found
  <2>9. CASE p # q /\ Exists(found, p)
    <3>1. renameGenericCommand(s, p, q, op.nx) = renameGenericCommand(target, p, q, op.nx)
      <4> DEFINE moved(f, t) == Written(dbDelete(t, p), q, f.dict[p], f.expires[p])
                 Out(t, m) == IF Exists(t, q) /\ op.nx THEN t
                              ELSE Dirty(signalModifiedKey(signalModifiedKey(m, p), q))
      <4>1. renameGenericCommand(s, p, q, op.nx) =
              IF p = q THEN s ELSE IF ~Exists(found, p) THEN found ELSE Out(target, moved(found, target))
        BY Zenon DEF renameGenericCommand, Written, found
      <4>2. renameGenericCommand(target, p, q, op.nx) =
              IF p = q THEN target ELSE IF ~Exists(target, p) THEN target ELSE Out(target, moved(target, target))
        <5> DEFINE f == expireIfNeeded(target, p)
                   g == expireIfNeeded(f, q)
        <5>1. renameGenericCommand(target, p, q, op.nx) =
                IF p = q THEN target ELSE IF ~Exists(f, p) THEN f ELSE Out(g, moved(f, g))
          BY Zenon DEF renameGenericCommand, Written
        <5>2. f = target /\ g = target
          BY <2>5
        <5> HIDE DEF f, g, Out, moved, target
        <5> QED BY <5>1, <5>2
      <4>3. moved(found, target) = moved(target, target) /\ Exists(target, p)
        BY <2>6, <2>9 DEF Exists
      <4> HIDE DEF Out, moved, target, p, q
      <4> QED BY <2>9, <4>1, <4>2, <4>3
    <3> HIDE DEF target
    <3>2. Mirrors(target, renameGenericCommand(target, p, q, op.nx), d, op)
      BY <1>5, <2>4, RenameMirrors
    <3>3. Reached(s, target)
      BY <2>1 DEF Reached, target, found
    <3> QED BY <2>2, <3>1, <3>2, <3>3 DEF Answers
  <2> QED BY <2>7, <2>8, <2>9
<1>6. CASE op \in [cmd : {"move"}, key : Keys, db : Int]
  <2> DEFINE p == <<d, op.key>>
             q == <<op.db, op.key>>
             found == expireIfNeeded(s, p)
             target == expireIfNeeded(found, q)
  <2>1. p \in Places
    BY <1>6 DEF Places
  <2>2. result = moveCommand(s, p, q)
    BY <1>6 DEF Execute
  <2>3. Good(found) /\ found.dirty = FALSE /\ Fresh(found, p)
    BY <2>1, LookupFields
  <2> HIDE DEF found
  <2>7. CASE q \notin Places \/ p = q
    <3>1. result = s
      BY <2>2, <2>7 DEF moveCommand
    <3> QED BY <3>1, UnmodifiedMirrors DEF Answers, Reached
  <2>8. CASE q \in Places /\ p # q /\ ~Exists(found, p)
    <3>1. result = found
      BY <2>2, <2>8 DEF moveCommand, found
    <3>2. Mirrors(found, found, d, op)
      BY <2>3, UnmodifiedMirrors
    <3> QED BY <2>1, <3>1, <3>2 DEF Answers, Reached, found
  <2>9. CASE q \in Places /\ p # q /\ Exists(found, p)
    <3>4. Good(target) /\ target.dirty = FALSE /\ Fresh(target, p) /\ Fresh(target, q)
      BY <2>1, <2>3, <2>9, LookupFields
    <3>5. expireIfNeeded(target, p) = target /\ expireIfNeeded(target, q) = target
      BY <3>4, FreshKeys
    <3>6. target.dict[p] = found.dict[p]
      <4>1. CASE found.expires[q] # "past"
        BY <4>1 DEF expireIfNeeded
      <4>2. CASE found.expires[q] = "past"
        <5> DEFINE u == propagateExpire(found, q)
        <5>1. target = dbDelete(u, q)
          BY <4>2, <2>3 DEF expireIfNeeded, Good
        <5>2. u.dict = found.dict
          BY <2>3 DEF propagateExpire, Good, StoreSet
        <5>3. dbDelete(u, q).dict = [found.dict EXCEPT ![q] = NoValue]
          BY <2>3, <5>2 DEF dbDelete, propagateExpire, Good, StoreSet
        <5> HIDE DEF target, u, p, q
        <5> QED BY <2>1, <2>3, <2>9, <5>1, <5>3 DEF Good, StoreSet, Dict
      <4> QED BY <4>1, <4>2
    <3>1. moveCommand(s, p, q) = moveCommand(target, p, q)
      <4> DEFINE moved(f, t) == [dbDelete(t, p) EXCEPT !.dict[q] = f.dict[p]]
      <4>1. moveCommand(s, p, q) = IF Exists(target, q) THEN target ELSE Dirty(moved(found, target))
        BY <2>9, Zenon DEF moveCommand, found
      <4>2. moveCommand(target, p, q) = IF Exists(target, q) THEN target ELSE Dirty(moved(target, target))
        <5> DEFINE f == expireIfNeeded(target, p)
                   g == expireIfNeeded(f, q)
        <5>1. moveCommand(target, p, q) =
                IF ~Exists(f, p) THEN f ELSE IF Exists(g, q) THEN g ELSE Dirty(moved(f, g))
          BY <2>9, Zenon DEF moveCommand
        <5>2. f = target /\ g = target
          BY <3>5
        <5>3. Exists(target, p)
          BY <3>6, <2>9 DEF Exists
        <5> HIDE DEF f, g, moved, target
        <5> QED BY <5>1, <5>2, <5>3
      <4>3. moved(found, target) = moved(target, target)
        BY <3>6
      <4> HIDE DEF moved, target, p, q
      <4> QED BY <4>1, <4>2, <4>3
    <3> HIDE DEF target
    <3>2. Mirrors(target, moveCommand(target, p, q), d, op)
      BY <1>6, <3>4, MoveMirrors
    <3>3. Reached(s, target)
      BY <2>1, <2>9 DEF Reached, target, found
    <3> QED BY <2>2, <3>1, <3>2, <3>3 DEF Answers
  <2> QED BY <2>7, <2>8, <2>9
<1>7. CASE op \in [cmd : {"flushdb", "flushall", "unwatch", "multi", "exec"}]
  <2>1. op.cmd \in {"flushdb", "flushall"}
    BY <1>0, <1>7
  <2>2. Mirrors(s, result, d, op)
    BY <1>7, <2>1, FlushMirrors
  <2> QED BY <2>2 DEF Answers, Reached
<1>8. op \notin [cmd : {"select"}, db : Int]
  BY <1>0
<1> HIDE DEF result
<1>9. Answers(s, result, d, op)
  BY <1>0, <1>1, <1>2, <1>3, <1>4, <1>5, <1>6, <1>7, <1>8 DEF Ops, result
<1> QED BY <1>9 DEF result

-----------------------------------------------------------------------------
(* The slave.                                                              *)

(* What it may be. *)
Sent == KeySpaceOps \cup { SelectOp(d) : d \in Dbs }
SlaveSet ==
  [seldb : Dbs, db : Dbs, multi : BOOLEAN, queue : Seq(Sent), dict : Dict, expires : Expires]

(* What the master may send. *)
FeedSet == [db : Dbs, op : KeySpaceOps \cup {[cmd |-> "multi"], [cmd |-> "exec"]}]

(* A slave's own store. *)
OwnStore(f) == Store(f.dict, f.expires, TRUE)

(* It is one. *)
LEMMA OwnStoreIsSlavish ==
  ASSUME NEW f \in SlaveSet
  PROVE  Slavish(OwnStore(f)) /\ OwnStore(f).dict = f.dict /\ OwnStore(f).expires = f.expires
<1>1. <<>> \in Seq(Message)
  OBVIOUS
<1> QED BY <1>1 DEF Slavish, OwnStore, Store, StoreSet, SlaveSet

(* A slave that executes a command has the data the command leaves, and is *)
(* otherwise as it was.                                                    *)
LEMMA AppliedFields ==
  ASSUME NEW f \in SlaveSet, NEW op \in KeySpaceOps
  PROVE  LET g == Applied(f, op)
             s == Execute(OwnStore(f), f.db, op)
         IN /\ g \in SlaveSet /\ Slavish(s)
            /\ g.dict = s.dict /\ g.expires = s.expires
            /\ g.db = f.db /\ g.seldb = f.seldb /\ g.multi = f.multi /\ g.queue = f.queue
<1> DEFINE g == Applied(f, op)
           s == Execute(OwnStore(f), f.db, op)
<1>1. op.cmd # "select"
  BY DEF KeySpaceOps
<1>2. g = [f EXCEPT !.dict = s.dict, !.expires = s.expires]
  BY <1>1 DEF Applied, OwnStore
<1>3. Slavish(s)
  <2>1. f.db \in Dbs
    BY DEF SlaveSet
  <2> QED BY <2>1, OwnStoreIsSlavish, SlaveExecutes
<1> HIDE DEF s, g
<1>4. s.dict \in Dict /\ s.expires \in Expires
  BY <1>3 DEF Slavish, StoreSet
<1>5. g \in SlaveSet
  BY <1>2, <1>4 DEF SlaveSet
<1>6. /\ g.dict = s.dict /\ g.expires = s.expires
      /\ g.db = f.db /\ g.seldb = f.seldb /\ g.multi = f.multi /\ g.queue = f.queue
  BY <1>2 DEF SlaveSet
<1> QED BY <1>3, <1>5, <1>6 DEF g, s

(* SELECT changes nothing but the database. *)
LEMMA SelectFields ==
  ASSUME NEW f \in SlaveSet, NEW d \in Dbs
  PROVE  LET g == Applied(f, SelectOp(d))
         IN /\ g \in SlaveSet
            /\ g.dict = f.dict /\ g.expires = f.expires
            /\ g.db = d /\ g.seldb = f.seldb /\ g.multi = f.multi /\ g.queue = f.queue
<1>1. Applied(f, SelectOp(d)) = [f EXCEPT !.db = d]
  BY DEF Applied, SelectOp
<1> QED BY <1>1 DEF SlaveSet

(* A slave that executes what it is sent is a slave, and receives as       *)
(* before.                                                                 *)
LEMMA AppliedType ==
  ASSUME NEW f \in SlaveSet, NEW op \in Sent
  PROVE  /\ Applied(f, op) \in SlaveSet
         /\ Applied(f, op).seldb = f.seldb /\ Applied(f, op).multi = f.multi
         /\ Applied(f, op).queue = f.queue
  BY AppliedFields, SelectFields DEF Sent

(* The function of Applied. *)
ApplyStep == [p \in SlaveSet \X Sent |-> Applied(p[1], p[2])]

(* ApplyStep stays among the slaves, and is Applied there. *)
LEMMA ApplyStepType ==
  /\ Stays(ApplyStep, SlaveSet, Sent)
  /\ \A r \in SlaveSet, op \in Sent : ApplyStep[<<r, op>>] = Applied(r, op)
<1>1. ASSUME NEW p \in SlaveSet \X Sent PROVE Applied(p[1], p[2]) \in SlaveSet
  BY AppliedType
<1>2. \A r \in SlaveSet, op \in Sent : <<r, op>> \in SlaveSet \X Sent
  OBVIOUS
<1> HIDE DEF SlaveSet, Sent
<1> QED BY <1>1, <1>2 DEF ApplyStep, Stays

(* Executing a queue is running ApplyStep over it. *)
LEMMA AppliedFold ==
  ASSUME NEW b \in SlaveSet, NEW q \in Seq(Sent)
  PROVE  FoldLeft(Applied, b, q) = Result(ApplyStep, b, q)
<1> DEFINE P(g) == g = [s \in SUBSET DOMAIN q |->
             IF s = {} THEN b ELSE Applied(g[s \ {Max(s)}], q[Max(s)])]
<1>1. FoldLeft(Applied, b, q) = (CHOOSE g : P(g))[DOMAIN q]
  BY Zenon DEF FoldLeft, MapThenFoldSet
<1>2. DOMAIN q = 1 .. Len(q) /\ Len(q) \in Nat
  OBVIOUS
<1>3. PICK f : IsFold(f, SlaveSet, ApplyStep, b, q)
  BY ApplyStepType, SubsetFoldOfSequence, Zenon
<1>4. P(f)
  <2>1. f \in [SUBSET (1 .. Len(q)) -> SlaveSet] /\ f = SubsetStep(ApplyStep, b, q, f)
    BY <1>3 DEF IsFold
  <2>2. ASSUME NEW s \in SUBSET (1 .. Len(q)), s # {}
        PROVE  f[s] = Applied(f[s \ {Max(s)}], q[Max(s)])
    <3>1. Max(s) \in 1 .. Len(q)
      BY <1>2, <2>2, MaxOfPositions
    <3>2. q[Max(s)] \in Sent
      BY <3>1
    <3>a. f[s \ {Max(s)}] \in SlaveSet
      <4>1. s \ {Max(s)} \in SUBSET (1 .. Len(q))
        OBVIOUS
      <4> QED BY <2>1, <4>1
    <3>3. f[s] = ApplyStep[<<f[s \ {Max(s)}], q[Max(s)]>>]
      BY <2>1, <2>2 DEF SubsetStep
    <3> QED BY <3>2, <3>a, <3>3, ApplyStepType
  <2>3. f[{}] = b
    BY <2>1 DEF SubsetStep
  <2>4. f = [s \in SUBSET (1 .. Len(q)) |-> f[s]]
    BY <2>1
  <2> QED BY <1>2, <2>2, <2>3, <2>4, Zenon
<1>5. P(CHOOSE g : P(g))
  <2> HIDE DEF P
  <2> QED BY <1>4, Zenon
<1> DEFINE g == CHOOSE g : P(g)
<1>6. /\ g[{}] = b
      /\ \A s \in SUBSET (1 .. Len(q)) : s # {} =>
            g[s] = Applied(g[s \ {Max(s)}], q[Max(s)])
  BY <1>2, <1>5
<1> HIDE DEF g
<1>7. SolvesFold(g, SlaveSet, ApplyStep, b, q)
  <2> SUFFICES ASSUME NEW s \in SUBSET (1 .. Len(q)), s # {}, g[s \ {Max(s)}] \in SlaveSet
               PROVE  g[s] = ApplyStep[<<g[s \ {Max(s)}], q[Max(s)]>>]
    BY <1>6, Zenon DEF SolvesFold
  <2>1. Max(s) \in 1 .. Len(q)
    BY <1>2, MaxOfPositions
  <2>2. q[Max(s)] \in Sent
    BY <2>1
  <2> QED BY <1>6, <2>2, ApplyStepType
<1>8. Gives(g, ApplyStep, b, q)
  <2>1. Stays(ApplyStep, SlaveSet, Sent)
    BY ApplyStepType
  <2> QED BY <1>7, <2>1, FoldIsResult
<1> QED BY <1>1, <1>2, <1>8 DEF g, Gives

(* f when it has executed its queue. *)
Drained(f, q) == FoldLeft(Applied, f, q)
(* The data and the database of two slaves are the same. *)
Like(f, g) == f.dict = g.dict /\ f.expires = g.expires /\ f.db = g.db

(* An empty queue changes nothing, the last command is executed last, and  *)
(* the master's idea of the slave is not concerned.                        *)
LEMMA DrainedFacts ==
  ASSUME NEW f \in SlaveSet
  PROVE  /\ Drained(f, <<>>) = f
         /\ \A q \in Seq(Sent) : /\ Drained(f, q) \in SlaveSet
                                 /\ Drained(f, q).seldb = f.seldb
                                 /\ \A op \in Sent : Drained(f, Append(q, op)) = Applied(Drained(f, q), op)
<1>1. Stays(ApplyStep, SlaveSet, Sent)
  BY ApplyStepType
<1>2. <<>> \in Seq(Sent)
  OBVIOUS
<1>3. \A q \in Seq(Sent) : Drained(f, q) = Result(ApplyStep, f, q)
  BY AppliedFold DEF Drained
<1>4. Drained(f, <<>>) = f
  BY <1>1, <1>2, <1>3, ResultEmpty
<1>5. ASSUME NEW q \in Seq(Sent) PROVE Drained(f, q) \in SlaveSet
  BY <1>1, <1>3, ResultType
<1>6. ASSUME NEW q \in Seq(Sent), NEW op \in Sent
      PROVE  Drained(f, Append(q, op)) = Applied(Drained(f, q), op)
  <2>1. Append(q, op) \in Seq(Sent)
    OBVIOUS
  <2>2. Result(ApplyStep, f, Append(q, op)) = ApplyStep[<<Result(ApplyStep, f, q), op>>]
    BY <1>1, ResultAppend
  <2> QED BY <1>3, <1>5, <2>1, <2>2, ApplyStepType
<1>7. ASSUME NEW q \in Seq(Sent) PROVE Drained(f, q).seldb = f.seldb
  <2> DEFINE T == { p \in SlaveSet \X SlaveSet : p[1].seldb = f.seldb }
  <2>1. <<f, f>> \in T
    OBVIOUS
  <2>2. ASSUME NEW x \in SlaveSet, NEW y \in SlaveSet, NEW e \in Sent, <<x, y>> \in T
        PROVE  <<ApplyStep[<<x, e>>], ApplyStep[<<y, e>>]>> \in T
    <3>1. x.seldb = f.seldb
      BY <2>2
    <3> QED BY <3>1, ApplyStepType, AppliedType
  <2> HIDE DEF T
  <2>3. Related(T, SlaveSet, ApplyStep, SlaveSet, ApplyStep, Sent)
    BY <2>2 DEF Related
  <2>4. <<Result(ApplyStep, f, q), Result(ApplyStep, f, q)>> \in T
    BY <1>1, <2>1, <2>3, ResultsRelated
  <2> QED BY <1>3, <2>4 DEF T
<1> QED BY <1>4, <1>5, <1>6, <1>7

(* What a queue does depends on the data and the database only. *)
LEMMA DrainedAlike ==
  ASSUME NEW f \in SlaveSet, NEW g \in SlaveSet, Like(f, g), NEW q \in Seq(Sent)
  PROVE  Like(Drained(f, q), Drained(g, q))
<1> DEFINE T == { p \in SlaveSet \X SlaveSet : Like(p[1], p[2]) }
<1>1. <<f, g>> \in T
  OBVIOUS
<1>2. ASSUME NEW x \in SlaveSet, NEW y \in SlaveSet, NEW e \in Sent, <<x, y>> \in T
      PROVE  <<ApplyStep[<<x, e>>], ApplyStep[<<y, e>>]>> \in T
  <2>1. Like(x, y)
    BY <1>2
  <2>2. Applied(x, e) \in SlaveSet /\ Applied(y, e) \in SlaveSet
    BY AppliedType
  <2>3. CASE e \in KeySpaceOps
    <3>1. OwnStore(x) = OwnStore(y) /\ x.db = y.db
      BY <2>1 DEF Like, OwnStore
    <3>2. Like(Applied(x, e), Applied(y, e))
      BY <2>3, <3>1, AppliedFields DEF Like
    <3> QED BY <2>2, <3>2, ApplyStepType
  <2>4. ASSUME NEW d \in Dbs, e = SelectOp(d)
        PROVE  Like(Applied(x, e), Applied(y, e))
    BY <2>1, <2>4, SelectFields DEF Like
  <2>5. Like(Applied(x, e), Applied(y, e)) => <<ApplyStep[<<x, e>>], ApplyStep[<<y, e>>]>> \in T
    BY <2>2, ApplyStepType
  <2> QED BY <2>3, <2>4, <2>5 DEF Sent
<1> HIDE DEF T
<1>3. <<Result(ApplyStep, f, q), Result(ApplyStep, g, q)>> \in T
  <2>1. Stays(ApplyStep, SlaveSet, Sent)
    BY ApplyStepType
  <2>2. Related(T, SlaveSet, ApplyStep, SlaveSet, ApplyStep, Sent)
    BY <1>2 DEF Related
  <2> QED BY <1>1, <2>1, <2>2, ResultsRelated
<1> QED BY <1>3, AppliedFold DEF T, Drained

(* f when EXEC comes. *)
View(f) == IF f.multi THEN Drained(f, f.queue) ELSE f

(* It is a slave. *)
LEMMA ViewType ==
  ASSUME NEW f \in SlaveSet
  PROVE  View(f) \in SlaveSet /\ View(f).seldb = f.seldb
<1>1. f.queue \in Seq(Sent)
  BY DEF SlaveSet
<1> QED BY <1>1, DrainedFacts DEF View

(* A command received is executed, at once or with the queue; inside MULTI *)
(* the data stays as it is.                                                *)
LEMMA ReceivedOne ==
  ASSUME NEW f \in SlaveSet, NEW op \in Sent
  PROVE  LET g == Received(f, op)
         IN /\ g \in SlaveSet
            /\ g.multi = f.multi /\ g.seldb = f.seldb
            /\ ~f.multi => g.queue = f.queue
            /\ f.multi => g.dict = f.dict /\ g.expires = f.expires
            /\ Like(View(g), Applied(View(f), op))
<1> DEFINE g == Received(f, op)
<1>1. op.cmd \notin {"multi", "exec"}
  BY DEF Sent, KeySpaceOps, SelectOp
<1>2. f.queue \in Seq(Sent) /\ f.multi \in BOOLEAN
  BY DEF SlaveSet
<1>3. g = IF f.multi THEN [f EXCEPT !.queue = Append(f.queue, op)] ELSE Applied(f, op)
  BY <1>1 DEF Received
<1> HIDE DEF g
<1>4. CASE f.multi
  <2>1. Append(f.queue, op) \in Seq(Sent)
    BY <1>2
  <2>2. g \in SlaveSet
    BY <1>3, <1>4, <2>1 DEF SlaveSet
  <2>3. /\ g.multi = f.multi /\ g.seldb = f.seldb /\ g.queue = Append(f.queue, op)
        /\ g.dict = f.dict /\ g.expires = f.expires /\ g.db = f.db
    BY <1>3, <1>4 DEF SlaveSet
  <2>4. Like(f, g)
    BY <2>3 DEF Like
  <2>5. Like(Drained(g, Append(f.queue, op)), Drained(f, Append(f.queue, op)))
    BY <2>1, <2>2, <2>4, DrainedAlike DEF Like
  <2>6. Drained(f, Append(f.queue, op)) = Applied(Drained(f, f.queue), op)
    BY <1>2, DrainedFacts
  <2>7. View(g) = Drained(g, Append(f.queue, op)) /\ View(f) = Drained(f, f.queue)
    BY <1>4, <2>3 DEF View
  <2>8. Like(View(g), Applied(View(f), op))
    BY <2>5, <2>6, <2>7
  <2> QED BY <1>4, <2>2, <2>3, <2>8 DEF g
<1>5. CASE ~f.multi
  <2>1. g = Applied(f, op) /\ View(f) = f
    BY <1>3, <1>5 DEF View
  <2>2. /\ g \in SlaveSet /\ g.seldb = f.seldb /\ g.multi = f.multi /\ g.queue = f.queue
    BY <2>1, AppliedType
  <2>3. View(g) = g
    BY <1>5, <2>2 DEF View
  <2>4. Like(View(g), Applied(View(f), op))
    BY <2>1, <2>3 DEF Like
  <2> QED BY <1>5, <2>2, <2>4 DEF g
<1> QED BY <1>4, <1>5

(* MULTI opens the queue. *)
LEMMA ReceivedMulti ==
  ASSUME NEW f \in SlaveSet
  PROVE  LET g == Received(f, [cmd |-> "multi"])
         IN g \in SlaveSet /\ g = [f EXCEPT !.multi = TRUE]
<1>1. Received(f, [cmd |-> "multi"]) = [f EXCEPT !.multi = TRUE]
  BY DEF Received
<1>2. [f EXCEPT !.multi = TRUE] \in SlaveSet
  BY DEF SlaveSet
<1> QED BY <1>1, <1>2

(* EXEC executes the queue. *)
LEMMA ReceivedExec ==
  ASSUME NEW f \in SlaveSet
  PROVE  LET g == Received(f, [cmd |-> "exec"])
         IN /\ g \in SlaveSet /\ Like(g, Drained(f, f.queue))
            /\ ~g.multi /\ g.queue = <<>> /\ g.seldb = f.seldb
<1> DEFINE e == Drained(f, f.queue)
           g == Received(f, [cmd |-> "exec"])
<1>1. g = [e EXCEPT !.multi = FALSE, !.queue = <<>>]
  BY DEF Received, Drained
<1>2. e \in SlaveSet /\ e.seldb = f.seldb
  <2>1. f.queue \in Seq(Sent)
    BY DEF SlaveSet
  <2> QED BY <2>1, DrainedFacts
<1>3. <<>> \in Seq(Sent)
  OBVIOUS
<1> HIDE DEF e, g
<1>4. g \in SlaveSet
  BY <1>1, <1>2, <1>3 DEF SlaveSet
<1>5. /\ ~g.multi /\ g.queue = <<>> /\ g.seldb = f.seldb
      /\ g.dict = e.dict /\ g.expires = e.expires /\ g.db = e.db
  BY <1>1, <1>2 DEF SlaveSet
<1> QED BY <1>4, <1>5 DEF Like, e, g

(* The slave has the right database selected. *)
Chosen(f) == f \in SlaveSet /\ View(f).db = f.seldb

(* f with database d selected, if it was not. *)
Selected(f, d) ==
  IF f.seldb # d THEN Received([f EXCEPT !.seldb = d], SelectOp(d)) ELSE f

(* What the master sends is received after a SELECT where one is needed. *)
LEMMA FeedIsReceived ==
  ASSUME NEW f, NEW m
  PROVE  replicationFeedSlave(f, m) = Received(Selected(f, m.db), m.op)
  BY DEF replicationFeedSlave, Selected

(* SELECT is executed or queued like any command, and keeps the data. *)
LEMMA SelectedFacts ==
  ASSUME NEW f \in SlaveSet, NEW d \in Dbs
  PROVE  LET h == Selected(f, d)
         IN /\ h \in SlaveSet /\ h.seldb = d /\ h.multi = f.multi
            /\ ~f.multi => h.queue = f.queue
            /\ f.multi => h.dict = f.dict /\ h.expires = f.expires
            /\ View(h).dict = View(f).dict /\ View(h).expires = View(f).expires
            /\ Chosen(f) => View(h).db = d
<1> DEFINE e == [f EXCEPT !.seldb = d]
           h == Selected(f, d)
<1>1. CASE f.seldb = d
  BY <1>1 DEF Selected, Chosen
<1>2. CASE f.seldb # d
  <2>1. h = Received(e, SelectOp(d))
    BY <1>2 DEF Selected
  <2>2. /\ e \in SlaveSet /\ e.seldb = d /\ e.multi = f.multi /\ e.queue = f.queue
        /\ e.dict = f.dict /\ e.expires = f.expires /\ e.db = f.db
    BY DEF SlaveSet
  <2>3. SelectOp(d) \in Sent
    BY DEF Sent
  <2> HIDE DEF e, h
  <2>4. /\ h \in SlaveSet
        /\ h.multi = e.multi /\ h.seldb = e.seldb
        /\ ~e.multi => h.queue = e.queue
        /\ e.multi => h.dict = e.dict /\ h.expires = e.expires
        /\ Like(View(h), Applied(View(e), SelectOp(d)))
    BY <2>1, <2>2, <2>3, ReceivedOne
  <2>5. Like(View(e), View(f))
    <3>1. f.queue \in Seq(Sent) /\ Like(e, f)
      BY <2>2 DEF SlaveSet, Like
    <3> QED BY <2>2, <3>1, DrainedAlike DEF View
  <2>6. View(e) \in SlaveSet
    BY <2>2, ViewType
  <2>7. /\ Applied(View(e), SelectOp(d)).dict = View(e).dict
        /\ Applied(View(e), SelectOp(d)).expires = View(e).expires
        /\ Applied(View(e), SelectOp(d)).db = d
    BY <2>6, SelectFields
  <2> QED BY <2>2, <2>4, <2>5, <2>7 DEF Like, h
<1> QED BY <1>1, <1>2

(* One command of the master, on a slave whose database the master knows:  *)
(* it is executed in the master's database, at once or with the queue.     *)
LEMMA FeedOne ==
  ASSUME NEW f, Chosen(f), NEW d \in Dbs, NEW op \in KeySpaceOps
  PROVE  LET g == replicationFeedSlave(f, [db |-> d, op |-> op])
             s == Execute(OwnStore(View(f)), d, op)
         IN /\ Chosen(g) /\ g.multi = f.multi
            /\ ~f.multi => g.queue = f.queue
            /\ f.multi => g.dict = f.dict /\ g.expires = f.expires
            /\ View(g).dict = s.dict /\ View(g).expires = s.expires
<1> DEFINE m == [db |-> d, op |-> op]
           g == replicationFeedSlave(f, m)
           h == Selected(f, d)
           s == Execute(OwnStore(View(f)), d, op)
<1>0. f \in SlaveSet /\ op \in Sent
  BY DEF Chosen, Sent
<1>1. g = Received(h, op)
  BY FeedIsReceived
<1>2. /\ h \in SlaveSet /\ h.seldb = d /\ h.multi = f.multi
      /\ ~f.multi => h.queue = f.queue
      /\ f.multi => h.dict = f.dict /\ h.expires = f.expires
      /\ View(h).dict = View(f).dict /\ View(h).expires = View(f).expires
      /\ View(h).db = d
  BY <1>0, SelectedFacts
<1> HIDE DEF g, h
<1>3. /\ g \in SlaveSet
      /\ g.multi = h.multi /\ g.seldb = h.seldb
      /\ ~h.multi => g.queue = h.queue
      /\ h.multi => g.dict = h.dict /\ g.expires = h.expires
      /\ Like(View(g), Applied(View(h), op))
  BY <1>0, <1>1, <1>2, ReceivedOne
<1>4. View(h) \in SlaveSet
  BY <1>2, ViewType
<1>5. /\ Applied(View(h), op).dict = Execute(OwnStore(View(h)), View(h).db, op).dict
      /\ Applied(View(h), op).expires = Execute(OwnStore(View(h)), View(h).db, op).expires
      /\ Applied(View(h), op).db = View(h).db
  BY <1>4, AppliedFields
<1>6. OwnStore(View(h)) = OwnStore(View(f))
  BY <1>2 DEF OwnStore
<1>7. View(g).dict = s.dict /\ View(g).expires = s.expires /\ View(g).db = g.seldb
  BY <1>2, <1>3, <1>5, <1>6 DEF Like
<1>8. Chosen(g)
  BY <1>3, <1>7 DEF Chosen
<1> HIDE DEF s
<1>9. g.multi = f.multi /\ (~f.multi => g.queue = f.queue)
      /\ (f.multi => g.dict = f.dict /\ g.expires = f.expires)
  BY <1>2, <1>3
<1> QED BY <1>7, <1>8, <1>9 DEF g, s

(* A slave stays one whatever it is sent. *)
LEMMA FeedType ==
  ASSUME NEW f \in SlaveSet, NEW m \in FeedSet
  PROVE  replicationFeedSlave(f, m) \in SlaveSet
<1>1. m.db \in Dbs /\ (m.op \in KeySpaceOps \/ m.op = [cmd |-> "multi"] \/ m.op = [cmd |-> "exec"])
  BY DEF FeedSet
<1>2. Selected(f, m.db) \in SlaveSet
  BY <1>1, SelectedFacts
<1>3. m.op \in KeySpaceOps => m.op \in Sent
  BY DEF Sent
<1>4. Received(Selected(f, m.db), m.op) \in SlaveSet
  BY <1>1, <1>2, <1>3, ReceivedOne, ReceivedMulti, ReceivedExec
<1> QED BY <1>4, FeedIsReceived

(* The function of replicationFeedSlave. *)
FeedStep == [p \in SlaveSet \X FeedSet |-> replicationFeedSlave(p[1], p[2])]

(* FeedStep stays among the slaves, and is replicationFeedSlave there. *)
LEMMA FeedStepType ==
  /\ Stays(FeedStep, SlaveSet, FeedSet)
  /\ \A r \in SlaveSet, op \in FeedSet : FeedStep[<<r, op>>] = replicationFeedSlave(r, op)
<1>1. ASSUME NEW p \in SlaveSet \X FeedSet PROVE replicationFeedSlave(p[1], p[2]) \in SlaveSet
  BY FeedType
<1>2. \A r \in SlaveSet, op \in FeedSet : <<r, op>> \in SlaveSet \X FeedSet
  OBVIOUS
<1> HIDE DEF SlaveSet, FeedSet
<1> QED BY <1>1, <1>2 DEF FeedStep, Stays

(* Feeding messages is running FeedStep over them. *)
LEMMA FeedFold ==
  ASSUME NEW b \in SlaveSet, NEW q \in Seq(FeedSet)
  PROVE  FoldLeft(replicationFeedSlave, b, q) = Result(FeedStep, b, q)
<1> DEFINE P(g) == g = [s \in SUBSET DOMAIN q |->
             IF s = {} THEN b ELSE replicationFeedSlave(g[s \ {Max(s)}], q[Max(s)])]
<1>1. FoldLeft(replicationFeedSlave, b, q) = (CHOOSE g : P(g))[DOMAIN q]
  BY Zenon DEF FoldLeft, MapThenFoldSet
<1>2. DOMAIN q = 1 .. Len(q) /\ Len(q) \in Nat
  OBVIOUS
<1>3. PICK f : IsFold(f, SlaveSet, FeedStep, b, q)
  BY FeedStepType, SubsetFoldOfSequence, Zenon
<1>4. P(f)
  <2>1. f \in [SUBSET (1 .. Len(q)) -> SlaveSet] /\ f = SubsetStep(FeedStep, b, q, f)
    BY <1>3 DEF IsFold
  <2>2. ASSUME NEW s \in SUBSET (1 .. Len(q)), s # {}
        PROVE  f[s] = replicationFeedSlave(f[s \ {Max(s)}], q[Max(s)])
    <3>1. Max(s) \in 1 .. Len(q)
      BY <1>2, <2>2, MaxOfPositions
    <3>2. q[Max(s)] \in FeedSet
      BY <3>1
    <3>a. f[s \ {Max(s)}] \in SlaveSet
      <4>1. s \ {Max(s)} \in SUBSET (1 .. Len(q))
        OBVIOUS
      <4> QED BY <2>1, <4>1
    <3>3. f[s] = FeedStep[<<f[s \ {Max(s)}], q[Max(s)]>>]
      BY <2>1, <2>2 DEF SubsetStep
    <3> QED BY <3>2, <3>a, <3>3, FeedStepType
  <2>3. f[{}] = b
    BY <2>1 DEF SubsetStep
  <2>4. f = [s \in SUBSET (1 .. Len(q)) |-> f[s]]
    BY <2>1
  <2> QED BY <1>2, <2>2, <2>3, <2>4, Zenon
<1>5. P(CHOOSE g : P(g))
  <2> HIDE DEF P
  <2> QED BY <1>4, Zenon
<1> DEFINE g == CHOOSE g : P(g)
<1>6. /\ g[{}] = b
      /\ \A s \in SUBSET (1 .. Len(q)) : s # {} =>
            g[s] = replicationFeedSlave(g[s \ {Max(s)}], q[Max(s)])
  BY <1>2, <1>5
<1> HIDE DEF g
<1>7. SolvesFold(g, SlaveSet, FeedStep, b, q)
  <2> SUFFICES ASSUME NEW s \in SUBSET (1 .. Len(q)), s # {}, g[s \ {Max(s)}] \in SlaveSet
               PROVE  g[s] = FeedStep[<<g[s \ {Max(s)}], q[Max(s)]>>]
    BY <1>6, Zenon DEF SolvesFold
  <2>1. Max(s) \in 1 .. Len(q)
    BY <1>2, MaxOfPositions
  <2>2. q[Max(s)] \in FeedSet
    BY <2>1
  <2> QED BY <1>6, <2>2, FeedStepType
<1>8. Gives(g, FeedStep, b, q)
  <2>1. Stays(FeedStep, SlaveSet, FeedSet)
    BY FeedStepType
  <2> QED BY <1>7, <2>1, FoldIsResult
<1> QED BY <1>1, <1>2, <1>8 DEF g, Gives


(* What f becomes when it has received the messages. *)
FedTo(f, messages) == FoldLeft(replicationFeedSlave, f, messages)

(* No message changes nothing, the last one is received last, and a single *)
(* one is one call of replicationFeedSlave.                                *)
LEMMA FedFacts ==
  ASSUME NEW f \in SlaveSet
  PROVE  /\ FedTo(f, <<>>) = f
         /\ \A q \in Seq(FeedSet) : /\ FedTo(f, q) \in SlaveSet
                                    /\ \A m \in FeedSet : FedTo(f, Append(q, m)) = replicationFeedSlave(FedTo(f, q), m)
         /\ \A m \in FeedSet : FedTo(f, <<m>>) = replicationFeedSlave(f, m)
<1>1. Stays(FeedStep, SlaveSet, FeedSet)
  BY FeedStepType
<1>2. <<>> \in Seq(FeedSet)
  OBVIOUS
<1>3. \A q \in Seq(FeedSet) : FedTo(f, q) = Result(FeedStep, f, q)
  BY FeedFold DEF FedTo
<1>4. FedTo(f, <<>>) = f
  BY <1>1, <1>2, <1>3, ResultEmpty
<1>5. ASSUME NEW q \in Seq(FeedSet) PROVE FedTo(f, q) \in SlaveSet
  BY <1>1, <1>3, ResultType
<1>6. ASSUME NEW q \in Seq(FeedSet), NEW m \in FeedSet
      PROVE  FedTo(f, Append(q, m)) = replicationFeedSlave(FedTo(f, q), m)
  <2>1. Append(q, m) \in Seq(FeedSet)
    OBVIOUS
  <2>2. Result(FeedStep, f, Append(q, m)) = FeedStep[<<Result(FeedStep, f, q), m>>]
    BY <1>1, ResultAppend
  <2> QED BY <1>3, <1>5, <2>1, <2>2, FeedStepType
<1>7. ASSUME NEW m \in FeedSet PROVE FedTo(f, <<m>>) = replicationFeedSlave(f, m)
  <2>1. Append(<<>>, m) = <<m>>
    OBVIOUS
  <2>2. FedTo(f, Append(<<>>, m)) = replicationFeedSlave(FedTo(f, <<>>), m)
    BY <1>2, <1>6
  <2> QED BY <1>4, <2>1, <2>2
<1> QED BY <1>4, <1>5, <1>6, <1>7

-----------------------------------------------------------------------------
(* g comes from f by commands on the key space alone. *)
Linked(f, g) ==
  /\ Chosen(g) /\ g.multi = f.multi
  /\ ~f.multi => g.queue = f.queue
  /\ f.multi => g.dict = f.dict /\ g.expires = f.expires

(* Slave f, when it has received what the store sends, has its data. *)
Follows(s, f) ==
  /\ s.out \in Seq(FeedSet)
  /\ Linked(f, FedTo(f, s.out))
  /\ Same(s, View(FedTo(f, s.out)))

(* s has become t, and sends m for that. *)
Sends(s, t, m) ==
  /\ t.out = Append(s.out, m)
  /\ \A w : Slavish(w) /\ Same(s, w) => Same(t, Execute(w, m.db, m.op))

(* A store that has sent nothing is followed by a slave with its data. *)
LEMMA FollowsStart ==
  ASSUME NEW s, s.out = <<>>, NEW f, Chosen(f), Same(s, View(f))
  PROVE  Follows(s, f)
<1>1. f \in SlaveSet
  BY DEF Chosen
<1>2. FedTo(f, s.out) = f
  BY <1>1, FedFacts
<1>3. s.out \in Seq(FeedSet)
  OBVIOUS
<1> QED BY <1>2, <1>3 DEF Follows, Linked

(* A slave that follows s follows what s has become when it is sent m. *)
LEMMA FollowsMessage ==
  ASSUME NEW f \in SlaveSet, NEW s, NEW t, NEW d \in Dbs, NEW op \in KeySpaceOps,
         Follows(s, f), Sends(s, t, [db |-> d, op |-> op])
  PROVE  Follows(t, f)
<1> DEFINE m == [db |-> d, op |-> op]
           g == FedTo(f, s.out)
           h == FedTo(f, t.out)
           w == OwnStore(View(g))
<1>1. m \in FeedSet /\ m.db = d /\ m.op = op
  BY DEF FeedSet
<1>2. t.out = Append(s.out, m) /\ \A x : Slavish(x) /\ Same(s, x) => Same(t, Execute(x, d, op))
  BY <1>1 DEF Sends
<1>3. s.out \in Seq(FeedSet) /\ Linked(f, g) /\ Same(s, View(g))
  BY DEF Follows
<1>5. h = replicationFeedSlave(g, m)
  <2> HIDE DEF m
  <2> QED BY <1>1, <1>2, <1>3, FedFacts
<1>6. t.out \in Seq(FeedSet)
  <2> HIDE DEF m
  <2> QED BY <1>1, <1>2, <1>3
<1> HIDE DEF h, g
<1>7. Chosen(g)
  BY <1>3 DEF Linked
<1>8. /\ Chosen(h) /\ h.multi = g.multi
      /\ ~g.multi => h.queue = g.queue
      /\ g.multi => h.dict = g.dict /\ h.expires = g.expires
      /\ View(h).dict = Execute(w, d, op).dict /\ View(h).expires = Execute(w, d, op).expires
  BY <1>5, <1>7, FeedOne
<1>9. Slavish(w) /\ w.dict = View(g).dict /\ w.expires = View(g).expires
  <2>1. View(g) \in SlaveSet
    BY <1>7, ViewType DEF Chosen
  <2> QED BY <2>1, OwnStoreIsSlavish
<1> HIDE DEF w
<1>10. Same(s, w)
  BY <1>3, <1>9 DEF Same
<1>11. Same(t, Execute(w, d, op))
  BY <1>2, <1>9, <1>10
<1>12. Same(t, View(h))
  BY <1>8, <1>11 DEF Same
<1>13. Linked(f, h)
  BY <1>3, <1>8 DEF Linked
<1> QED BY <1>6, <1>12, <1>13 DEF Follows, h

(* A key the master removes on its own account is removed from the slave. *)
LEMMA RemoveSends ==
  ASSUME NEW s, s \in StoreSet, NEW p \in Places
  PROVE  Sends(s, dbDelete(propagateExpire(s, p), p), [db |-> p[1], op |-> DelOp({p[2]})])
<1> DEFINE op == DelOp({p[2]})
           m == [db |-> p[1], op |-> op]
           u == propagateExpire(s, p)
           t == dbDelete(u, p)
<1>1. p[1] \in Dbs /\ p[2] \in Keys /\ p = <<p[1], p[2]>>
  BY DEF Places
<1>2. t.out = Append(s.out, m)
  BY DEF dbDelete, propagateExpire, StoreSet
<1>3. t.dict = [s.dict EXCEPT ![p] = NoValue] /\ t.expires = [s.expires EXCEPT ![p] = "never"]
  BY DEF dbDelete, propagateExpire, StoreSet
<1>4. ASSUME NEW w, Slavish(w), Same(s, w)
      PROVE  Same(t, Execute(w, p[1], op))
  <2> DEFINE gone == {p[1]} \X {p[2]}
             r == delCommand(w, p[1], {p[2]})
  <2>1. Execute(w, p[1], op) = r
    BY DEF Execute, DelOp
  <2>2. gone = {p}
    BY <1>1
  <2>3. Becomes(w, r, DictWithout(w, gone), ExpiresWithout(w, gone), w.dirty \/ \E z \in gone : Exists(w, z))
    BY <1>1, <1>4, DelEffect DEF Slavish
  <2> HIDE DEF r, gone, t
  <2>5. t.dict = r.dict
    BY <1>3, <1>4, <2>2, <2>3 DEF Becomes, DictWithout, Same, Slavish, StoreSet, Dict
  <2>6. \A z \in Places : t.expires[z] = "never" <=> r.expires[z] = "never"
    BY <1>3, <1>4, <2>2, <2>3 DEF Becomes, ExpiresWithout, Same, Slavish, StoreSet, Expires
  <2> QED BY <2>1, <2>5, <2>6 DEF Same
<1> HIDE DEF t, op
<1>5. m.db = p[1] /\ m.op = op
  OBVIOUS
<1>6. Sends(s, t, m)
  BY <1>2, <1>4, <1>5 DEF Sends
<1> QED BY <1>6 DEF t, op

(* The DEL of one key is among what a master sends. *)
LEMMA DelIsSent ==
  ASSUME NEW p \in Places
  PROVE  p[1] \in Dbs /\ DelOp({p[2]}) \in KeySpaceOps
<1>1. p[1] \in Dbs /\ p[2] \in Keys
  BY DEF Places
<1>2. DelOp({p[2]}) \in Ops /\ DelOp({p[2]}).cmd = "del"
  BY <1>1 DEF DelOp, Ops
<1> QED BY <1>1, <1>2 DEF KeySpaceOps

(* A key found expired is sent as a DEL, so the slave still follows. *)
LEMMA FollowsLookup ==
  ASSUME NEW f \in SlaveSet, NEW s, Good(s), NEW p \in Places, Follows(s, f)
  PROVE  Follows(expireIfNeeded(s, p), f)
<1>1. CASE s.expires[p] # "past"
  BY <1>1 DEF expireIfNeeded
<1>2. CASE s.expires[p] = "past"
  <2> DEFINE t == dbDelete(propagateExpire(s, p), p)
  <2>1. expireIfNeeded(s, p) = t
    BY <1>2 DEF expireIfNeeded, Good
  <2>2. Sends(s, t, [db |-> p[1], op |-> DelOp({p[2]})])
    BY RemoveSends DEF Good
  <2> HIDE DEF t
  <2>3. Follows(t, f)
    BY <2>2, DelIsSent, FollowsMessage
  <2> QED BY <2>1, <2>3
<1> QED BY <1>1, <1>2

(* So it does after all lookups of a command. *)
LEMMA FollowsReached ==
  ASSUME NEW f \in SlaveSet, NEW s, Good(s), Follows(s, f), NEW mid, Reached(s, mid)
  PROVE  Follows(mid, f) /\ Good(mid)
<1>1. ASSUME NEW p \in Places PROVE Follows(expireIfNeeded(s, p), f) /\ Good(expireIfNeeded(s, p))
  BY FollowsLookup, ExpireFacts
<1>2. ASSUME NEW p \in Places, NEW q \in Places
      PROVE  Follows(expireIfNeeded(expireIfNeeded(s, p), q), f) /\ Good(expireIfNeeded(expireIfNeeded(s, p), q))
  BY <1>1, FollowsLookup, ExpireFacts
<1> QED BY <1>1, <1>2 DEF Reached

(* What is sent for a command is a command on the key space. *)
LEMMA PropagatedType ==
  ASSUME NEW op \in KeySpaceOps
  PROVE  PropagatedAs(op) \in KeySpaceOps
<1>1. CASE op.cmd = "expire" /\ op.past
  <2>1. op.key \in Keys
    BY <1>1 DEF KeySpaceOps, Ops
  <2>2. DelOp({op.key}) \in Ops /\ DelOp({op.key}).cmd = "del"
    BY <2>1 DEF DelOp, Ops
  <2> QED BY <1>1, <2>2 DEF PropagatedAs, KeySpaceOps
<1>2. CASE ~(op.cmd = "expire" /\ op.past)
  BY <1>2 DEF PropagatedAs
<1> QED BY <1>1, <1>2

(* A slave with the data of the master has it again when it has received   *)
(* all that a command sends.                                               *)
LEMMA FollowsCall ==
  ASSUME DataInv, NEW f, Chosen(f), Same(Store(dict, expires, FALSE), View(f)),
         NEW d \in Dbs, NEW op \in KeySpaceOps
  PROVE  Follows(call(dict, expires, d, op), f)
<1> DEFINE s == Store(dict, expires, FALSE)
           e == Execute(s, d, op)
           m == [db |-> d, op |-> PropagatedAs(op)]
           t == call(dict, expires, d, op)
<1>0. f \in SlaveSet
  BY DEF Chosen
<1>1. Good(s) /\ s.dirty = FALSE /\ s.out = <<>>
  BY StoreIsGood DEF Store
<1>2. t = IF e.dirty THEN [e EXCEPT !.out = Append(e.out, m)] ELSE e
  BY DEF call
<1> HIDE DEF s, t
<1>3. Good(e)
  BY <1>1, ExecuteSignals
<1>4. PICK mid : Reached(s, mid) /\ Mirrors(mid, e, d, op)
  BY <1>1, ExecuteAnswers DEF Answers
<1>5. Follows(s, f)
  BY <1>1, FollowsStart DEF s
<1>6. Follows(mid, f) /\ Good(mid)
  BY <1>0, <1>1, <1>4, <1>5, FollowsReached
<1> HIDE DEF e, m
<1>7. CASE ~e.dirty
  <2>1. e.out = mid.out /\ Same(mid, e)
    BY <1>4, <1>7 DEF Mirrors
  <2>2. Follows(e, f)
    BY <1>6, <2>1 DEF Follows, Same
  <2> QED BY <1>2, <1>7, <2>2 DEF t
<1>8. CASE e.dirty
  <2>1. t.out = Append(mid.out, m) /\ t.dict = e.dict /\ t.expires = e.expires
    BY <1>2, <1>3, <1>4, <1>8 DEF Mirrors, Good, StoreSet
  <2>2. m.db = d /\ m.op = PropagatedAs(op) /\ PropagatedAs(op) \in KeySpaceOps
    BY PropagatedType DEF m
  <2>3. Sends(mid, t, m)
    BY <1>4, <1>8, <2>1, <2>2 DEF Sends, Mirrors, Same
  <2>4. Follows(t, f)
    BY <1>0, <1>6, <2>2, <2>3, FollowsMessage DEF m
  <2> QED BY <2>4 DEF t
<1> QED BY <1>7, <1>8

-----------------------------------------------------------------------------
(* What holds of the slave: once it has executed what it has queued it has *)
(* the data of the master, and the database selected that the master       *)
(* thinks; it queues exactly while the master executes EXEC.               *)
SlaveInv ==
  /\ Chosen(slave)
  /\ slave.multi <=> running # Nobody
  /\ ~slave.multi => slave.queue = <<>>
  /\ Same(Store(dict, expires, FALSE), View(slave))

(* The slave has just synchronised with an empty server. *)
LEMMA SlaveInit == Init => SlaveInv
<1> SUFFICES ASSUME Init PROVE SlaveInv
  OBVIOUS
<1>1. slave = [seldb |-> 0, db |-> 0, multi |-> FALSE, queue |-> <<>>,
               dict |-> dict, expires |-> expires]
  BY DEF Init
<1>2. dict \in Dict /\ expires \in Expires /\ running = Nobody
  BY DEF Init, Dict, Expires
<1>3. <<>> \in Seq(Sent)
  OBVIOUS
<1>4. slave \in SlaveSet
  BY <1>1, <1>2, <1>3, RedisDbAssumption DEF SlaveSet
<1>5. View(slave) = slave
  BY <1>1 DEF View
<1>6. Chosen(slave)
  BY <1>1, <1>4, <1>5 DEF Chosen
<1>7. Same(Store(dict, expires, FALSE), View(slave))
  <2>1. slave.dict = dict /\ slave.expires = expires
    BY <1>1
  <2>2. Store(dict, expires, FALSE).dict = dict /\ Store(dict, expires, FALSE).expires = expires
    BY DEF Store
  <2> QED BY <1>5, <2>1, <2>2 DEF Same
<1> QED BY <1>1, <1>2, <1>6, <1>7 DEF SlaveInv

(* The slave is fed what changes the master. *)
LEMMA FollowerKeepsInv ==
  ASSUME SlaveInv, NEW s, Follows(s, slave), slave' = Fed(s.out),
         dict' = s.dict, expires' = s.expires, running' = running
  PROVE  /\ SlaveInv'
         /\ slave.multi => slave'.dict = slave.dict /\ slave'.expires = slave.expires
<1>1. slave' = FedTo(slave, s.out)
  BY DEF Fed, FedTo
<1>2. Linked(slave, slave') /\ Same(s, View(slave'))
  BY <1>1 DEF Follows
<1>3. Same(Store(dict', expires', FALSE), View(slave'))
  BY <1>2 DEF Same, Store
<1> QED BY <1>2, <1>3 DEF Linked, SlaveInv

(* The slave and the data are left alone. *)
LEMMA SlaveFrame ==
  ASSUME SlaveInv, UNCHANGED <<keyspace, slave, running>>
  PROVE  /\ SlaveInv'
         /\ slave.multi => slave'.dict = slave.dict /\ slave'.expires = slave.expires
<1>1. slave' = slave /\ running' = running /\ dict' = dict /\ expires' = expires
  BY DEF keyspace
<1> QED BY <1>1 DEF SlaveInv, Chosen, Same, View, Store, Drained

(* One command of a client, sent or queued, keeps the slave in agreement,  *)
(* and inside EXEC leaves its data alone.                                  *)
LEMMA CallsKeepSlave ==
  ASSUME Inv, SlaveInv, NEW c \in Clients, NEW op \in Commands, Calls(c, op), running' = running
  PROVE  /\ SlaveInv'
         /\ slave.multi => slave'.dict = slave.dict /\ slave'.expires = slave.expires
<1>1. CASE UNCHANGED <<keyspace, slave>>
  BY <1>1, SlaveFrame
<1>2. CASE /\ op.cmd \notin {"select", "unwatch"}
           /\ Commits(call(dict, expires, db[c], op), op)
  <2> DEFINE s == call(dict, expires, db[c], op)
  <2>1. op \in KeySpaceOps /\ db[c] \in Dbs
    BY <1>2, RedisMultiAssumption DEF KeySpaceOps, Inv, SessionInv
  <2>2. Follows(s, slave)
    BY <2>1, FollowsCall DEF Inv, SlaveInv
  <2>3. dict' = s.dict /\ expires' = s.expires /\ slave' = Fed(s.out)
    BY <1>2 DEF Commits
  <2> HIDE DEF s
  <2> QED BY <2>2, <2>3, FollowerKeepsInv
<1> QED BY <1>1, <1>2 DEF Calls

(* So does the removal of a key by the server itself. *)
LEMMA RemovesKeepsSlave ==
  ASSUME Inv, SlaveInv, NEW p \in Places, Removes(p), running' = running
  PROVE  SlaveInv'
<1> DEFINE start == Store(dict, expires, FALSE)
           s == dbDelete(propagateExpire(start, p), p)
<1>1. Good(start) /\ start.out = <<>>
  BY StoreIsGood DEF Inv, Store
<1>2. dict' = s.dict /\ expires' = s.expires /\ slave' = Fed(s.out)
  BY DEF Removes
<1>3. Follows(start, slave)
  <2> HIDE DEF start
  <2> QED BY <1>1, FollowsStart DEF SlaveInv, start
<1> HIDE DEF start
<1>4. Sends(start, s, [db |-> p[1], op |-> DelOp({p[2]})])
  BY <1>1, RemoveSends DEF Good
<1> HIDE DEF s
<1>5. Follows(s, slave)
  BY <1>3, <1>4, DelIsSent, FollowsMessage DEF SlaveInv, Chosen
<1> QED BY <1>2, <1>5, FollowerKeepsInv

(* EXEC begins: the slave gets MULTI, in the client's database. *)
LEMMA StartKeepsSlave ==
  ASSUME Inv, SlaveInv, NEW c \in Clients, ExecStart(c)
  PROVE  SlaveInv'
<1> DEFINE m == [db |-> db[c], op |-> [cmd |-> "multi"]]
           h == Selected(slave, db[c])
<1>1. db[c] \in Dbs
  BY DEF Inv, SessionInv
<1>2. m \in FeedSet
  BY <1>1 DEF FeedSet
<1>3. slave' = FedTo(slave, <<m>>) /\ running' = c /\ dict' = dict /\ expires' = expires
        /\ running = Nobody
  BY DEF ExecStart, Fed, FedTo, keyspace, Idle
<1>4. slave \in SlaveSet /\ Chosen(slave) /\ ~slave.multi /\ slave.queue = <<>>
  BY <1>3 DEF SlaveInv, Chosen
<1>5. slave' = Received(h, [cmd |-> "multi"])
  <2>1. FedTo(slave, <<m>>) = replicationFeedSlave(slave, m)
    <3> HIDE DEF m
    <3> QED BY <1>2, <1>4, FedFacts
  <2> QED BY <1>3, <2>1, FeedIsReceived
<1>6. /\ h \in SlaveSet /\ h.seldb = db[c] /\ h.multi = FALSE /\ h.queue = <<>>
      /\ View(h).dict = View(slave).dict /\ View(h).expires = View(slave).expires
      /\ View(h).db = db[c]
  BY <1>1, <1>4, SelectedFacts DEF SlaveSet
<1> HIDE DEF h, m
<1>7. View(h) = h
  BY <1>6 DEF View
<1>8. /\ slave' \in SlaveSet /\ slave'.multi = TRUE /\ slave'.queue = <<>>
      /\ slave'.dict = h.dict /\ slave'.expires = h.expires /\ slave'.db = h.db
      /\ slave'.seldb = h.seldb
  <2>1. slave' \in SlaveSet /\ slave' = [h EXCEPT !.multi = TRUE]
    BY <1>5, <1>6, ReceivedMulti
  <2> QED BY <1>6, <2>1 DEF SlaveSet
<1>9. View(slave') = slave'
  BY <1>8, DrainedFacts DEF View
<1>10. Chosen(slave')
  BY <1>6, <1>7, <1>8, <1>9 DEF Chosen
<1>11. Same(Store(dict', expires', FALSE), View(slave'))
  BY <1>3, <1>6, <1>7, <1>8, <1>9 DEF SlaveInv, Same, Store
<1>12. running' # Nobody
  BY <1>3, RedisMultiAssumption
<1> QED BY <1>8, <1>10, <1>11, <1>12 DEF SlaveInv

(* EXEC ends: the slave executes what it has queued. *)
LEMMA EndKeepsSlave ==
  ASSUME Inv, SlaveInv, NEW c \in Clients, ExecEnd(c)
  PROVE  SlaveInv'
<1> DEFINE m == [db |-> db[c], op |-> [cmd |-> "exec"]]
           h == Selected(slave, db[c])
<1>1. db[c] \in Dbs
  BY DEF Inv, SessionInv
<1>2. m \in FeedSet
  BY <1>1 DEF FeedSet
<1>3. slave' = FedTo(slave, <<m>>) /\ running' = Nobody /\ dict' = dict /\ expires' = expires
        /\ running # Nobody
  BY RedisMultiAssumption DEF ExecEnd, Fed, FedTo, keyspace
<1>4. slave \in SlaveSet /\ Chosen(slave) /\ slave.multi
  BY <1>3 DEF SlaveInv, Chosen
<1>5. slave' = Received(h, [cmd |-> "exec"])
  <2>1. FedTo(slave, <<m>>) = replicationFeedSlave(slave, m)
    <3> HIDE DEF m
    <3> QED BY <1>2, <1>4, FedFacts
  <2> QED BY <1>3, <2>1, FeedIsReceived
<1>6. /\ h \in SlaveSet /\ h.seldb = db[c] /\ h.multi
      /\ View(h).dict = View(slave).dict /\ View(h).expires = View(slave).expires
      /\ View(h).db = db[c]
  BY <1>1, <1>4, SelectedFacts
<1> HIDE DEF h, m
<1>7. View(h) = Drained(h, h.queue)
  BY <1>6 DEF View
<1>8. /\ slave' \in SlaveSet /\ ~slave'.multi /\ slave'.queue = <<>>
      /\ Like(slave', View(h)) /\ slave'.seldb = h.seldb
  BY <1>5, <1>6, <1>7, ReceivedExec
<1>9. View(slave') = slave'
  BY <1>8 DEF View
<1>10. Chosen(slave')
  BY <1>6, <1>8, <1>9 DEF Chosen, Like
<1>11. Same(Store(dict', expires', FALSE), View(slave'))
  BY <1>3, <1>6, <1>8, <1>9 DEF SlaveInv, Same, Store, Like
<1> QED BY <1>3, <1>8, <1>10, <1>11 DEF SlaveInv

(* Every step keeps the slave in agreement, and none but the last of EXEC  *)
(* changes its data meanwhile.                                             *)
LEMMA NextSlave ==
  ASSUME Inv, SlaveInv, [Next]_vars
  PROVE  /\ SlaveInv'
         /\ running # Nobody /\ running' # Nobody =>
              slave'.dict = slave.dict /\ slave'.expires = slave.expires
<1> DEFINE Kept == running # Nobody /\ running' # Nobody =>
                     slave'.dict = slave.dict /\ slave'.expires = slave.expires
<1>0. slave.multi <=> running # Nobody
  BY DEF SlaveInv
<1>1. ASSUME NEW c \in Clients, NEW op \in Commands, Command(c, op)
      PROVE  SlaveInv' /\ Kept
  BY <1>0, <1>1, CallsKeepSlave DEF Command
<1>2. ASSUME UNCHANGED <<keyspace, slave, running>>
      PROVE  SlaveInv' /\ Kept
  BY <1>0, <1>2, SlaveFrame
<1>3. ASSUME NEW c \in Clients, ExecStart(c)
      PROVE  SlaveInv' /\ Kept
  BY <1>3, StartKeepsSlave DEF ExecStart, Idle
<1>4. ASSUME NEW c \in Clients, ExecStep(c)
      PROVE  SlaveInv' /\ Kept
  <2>1. queue[c] \in Seq(Commands) /\ queue[c] # <<>>
    BY <1>4 DEF ExecStep, Inv, SessionInv
  <2>2. Head(queue[c]) \in Commands
    BY <2>1
  <2> QED BY <1>0, <1>4, <2>2, CallsKeepSlave DEF ExecStep
<1>5. ASSUME NEW c \in Clients, ExecEnd(c)
      PROVE  SlaveInv' /\ Kept
  BY <1>5, EndKeepsSlave DEF ExecEnd
<1>6. ASSUME NEW p \in Places, Clock(p)
      PROVE  SlaveInv' /\ Kept
  <2>1. slave' = slave /\ running' = running /\ dict' = dict
    BY <1>6 DEF Clock
  <2>2. \A q \in Places : expires'[q] = "never" <=> expires[q] = "never"
    BY <1>6 DEF Clock, Inv, DataInv, Expires
  <2>3. Same(Store(dict', expires', FALSE), View(slave))
    BY <2>1, <2>2 DEF SlaveInv, Same, Store
  <2> QED BY <2>1, <2>3 DEF SlaveInv, Chosen, View, Drained
<1>7. ASSUME NEW p \in Places, activeExpireCycle(p) \/ freeMemoryIfNeeded(p)
      PROVE  SlaveInv' /\ Kept
  <2>1. Removes(p) /\ running = Nobody
    BY <1>7 DEF activeExpireCycle, freeMemoryIfNeeded, Idle
  <2>2. running' = running
    BY <2>1 DEF Removes
  <2> QED BY <2>1, <2>2, RemovesKeepsSlave
<1>8. ASSUME NEW c \in Clients
      PROVE  \/ \E op \in Commands : queueMultiCommand(c, op)
             \/ \E k \in WatchKeys : watchCommand(c, k)
             \/ multiCommand(c) \/ discardCommand(c) \/ ExecAbort(c) \/ freeClient(c)
             => UNCHANGED <<keyspace, slave, running>>
  BY DEF queueMultiCommand, watchCommand, multiCommand, discardCommand, ExecAbort, freeClient
<1>9. UNCHANGED vars => UNCHANGED <<keyspace, slave, running>>
  BY DEF vars, keyspace
<1> HIDE DEF Kept
<1>10. SlaveInv' /\ Kept
  BY <1>1, <1>2, <1>3, <1>4, <1>5, <1>6, <1>7, <1>8, <1>9 DEF Next, Exec
<1> QED BY <1>10 DEF Kept

(* Between commands the slave has the data of the master, has no           *)
(* transaction open and has the database selected that the master thinks:  *)
(* for any clients, databases, keys, values and commands, keys that expire *)
(* or are evicted in between, and transactions that change databases.      *)
THEOREM SlaveHasOurData == Spec => []SlaveAgrees
<1>1. Inv /\ SlaveInv => SlaveAgrees
  BY DEF SlaveInv, SlaveAgrees, Idle, View, Same, Chosen, Store
<1>2. Inv /\ SlaveInv /\ [Next]_vars => SlaveInv'
  BY NextSlave
<1>3. Inv /\ [Next]_vars => Inv'
  BY NextInv
<1> QED BY <1>1, <1>2, <1>3, InitInv, SlaveInit, PTL DEF Spec

(* The comment of execCommand holds (multi.c:102): whatever the queued     *)
(* commands are, and whatever they find expired, the slave's data does not *)
(* change between the beginning and the end of EXEC.                       *)
THEOREM TransactionsAreWhole == Spec => SlaveSeesNoHalfTransaction
<1>1. Inv /\ SlaveInv /\ [Next]_vars =>
        [running # Nobody /\ running' # Nobody =>
           slave'.dict = slave.dict /\ slave'.expires = slave.expires]_vars
  BY NextSlave
<1>2. Inv /\ SlaveInv /\ [Next]_vars => SlaveInv'
  BY NextSlave
<1>3. Inv /\ [Next]_vars => Inv'
  BY NextInv
<1> QED BY <1>1, <1>2, <1>3, InitInv, SlaveInit, PTL DEF Spec, SlaveSeesNoHalfTransaction
=============================================================================
