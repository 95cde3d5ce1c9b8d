------------------------------ MODULE RedisLock ------------------------------
(***************************************************************************)
(* The Lua scripts of packages/cache/src/lock.ts.  A lock table maps a     *)
(* lock key to the payload stored under it, or to NoLock when Redis has no *)
(* such key.  A payload is a record with at least an owner field; the      *)
(* scripts compare owners only, never fences or acquisition instants, so a *)
(* successful renewal changes nothing here.  Each script is atomic.        *)
(***************************************************************************)

CONSTANT NoLock          \* the value of a key that Redis does not hold

\* ACQUIRE_LUA: SET NX, otherwise the payload found is left as it is.
LuaAcquire(table, key, payload) ==
  IF table[key] = NoLock THEN [table EXCEPT ![key] = payload] ELSE table

\* redisLockAcquire reports success when the payload read back has the
\* caller's owner: a lock its own process already holds is granted again.
Acquired(table, key, payload) ==
  LuaAcquire(table, key, payload)[key].owner = payload.owner

\* The prefix test that RELEASE_LUA and RENEW_LUA share.
OwnedBy(table, key, owner) ==
  table[key] # NoLock /\ table[key].owner = owner

\* RELEASE_LUA: delete the key when the caller's owner is stored in it.
LuaRelease(table, key, owner) ==
  IF OwnedBy(table, key, owner) THEN [table EXCEPT ![key] = NoLock] ELSE table

\* The PX expiry of a key.
LuaExpire(table, key) == [table EXCEPT ![key] = NoLock]
=============================================================================
