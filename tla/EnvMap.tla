------------------------------- MODULE EnvMap -------------------------------
(***************************************************************************)
(* wl-impl/src/env.rs: the environment, kept as one array of bytes with an *)
(* index.                                                                  *)
(*                                                                         *)
(* A byte is a letter, one of the two terminators or, standing for the     *)
(* size_of::<usize>() bytes of an entry's length, that length; offsets     *)
(* count from 0.                                                           *)
(***************************************************************************)
EXTENDS Naturals, Sequences, SequencesExt

CONSTANTS Keys, Values,  \* sets of sequences of letters
          MaxLen         \* the longest array explored

KEY_TERM == "0xFE"
ENTRY_TERM == "0xFF"
EMPTY == <<KEY_TERM, ENTRY_TERM>>
NoEntry == 1000

VARIABLES env, env_map, freelist,
          vars_set,  \* history: what was last set, or <<NoEntry>> if removed
          fate       \* "running" or "panicked"

vars == <<env, env_map, freelist, vars_set, fate>>

entry_len(k, v) == 1 + 2 + Len(k) + Len(v)
Entry(k, v) == <<entry_len(k, v)>> \o k \o <<KEY_TERM>> \o v \o <<ENTRY_TERM>>
ByteAt(off) == env[off + 1]

\* s with t written over it from offset off on, where it fits.
Fits(s, off, t) == off + Len(t) <= Len(s)
Put(s, off, t) == [i \in 1 .. Len(s) |->
                     IF off < i /\ i <= off + Len(t) THEN t[i - off] ELSE s[i]]

\* Collected from no entries; set_var adds them.
Init == /\ env = <<>>
        /\ env_map = [k \in Keys |-> NoEntry]
        /\ freelist = <<>>
        /\ vars_set = [k \in Keys |-> <<NoEntry>>]
        /\ fate = "running"

remove_var(k) ==
    /\ fate = "running" /\ env_map[k] # NoEntry
    /\ env' = Put(env, env_map[k] + 1, EMPTY)
    /\ env_map' = [env_map EXCEPT ![k] = NoEntry]
    /\ vars_set' = [vars_set EXCEPT ![k] = <<NoEntry>>]
    /\ UNCHANGED <<freelist, fate>>
-----------------------------------------------------------------------------
(* set_var. *)

InPlace(k, v) == env_map[k] # NoEntry /\ entry_len(k, v) <= ByteAt(env_map[k])

\* The first entry of the freelist that passes the test.
Reusable(k, v) == {i \in DOMAIN freelist : ByteAt(freelist[i]) <= entry_len(k, v)}
First(S) == CHOOSE i \in S : \A j \in S : i <= j

\* The key's old entry is marked empty.
Retired(k) == IF env_map[k] = NoEntry THEN env ELSE Put(env, env_map[k] + 1, EMPTY)

SetInPlace(k, v) == /\ env' = Put(env, env_map[k] + 1 + Len(k) + 1, v \o <<ENTRY_TERM>>)
                    /\ UNCHANGED <<env_map, freelist>>

\* swap_remove: the last takes the place of the removed.
SwapRemove(s, i) == Front(IF i = Len(s) THEN s ELSE [s EXCEPT ![i] = Last(s)])

\* The new entry is written into the part of the array in front of elem.
SetReused(k, v) ==
    LET i == First(Reusable(k, v))
        elem == freelist[i]
        body == k \o <<KEY_TERM>> \o v \o <<ENTRY_TERM>>
    IN  IF ~Fits(SubSeq(env, 1, elem), 1, body)
        THEN fate' = "panicked" /\ UNCHANGED <<env, env_map, freelist>>
        ELSE /\ env' = Put(Retired(k), 1, body)
             /\ env_map' = [env_map EXCEPT ![k] = elem]
             /\ freelist' = IF env_map[k] # NoEntry THEN [freelist EXCEPT ![i] = env_map[k]]
                                                    ELSE SwapRemove(freelist, i)
             /\ UNCHANGED fate

SetAppended(k, v) ==
    /\ Len(env) + entry_len(k, v) <= MaxLen
    /\ env' = Retired(k) \o Entry(k, v)
    /\ env_map' = [env_map EXCEPT ![k] = Len(env)]
    /\ freelist' = IF env_map[k] = NoEntry THEN freelist ELSE Append(freelist, env_map[k])

set_var(k, v) ==
    /\ fate = "running"
    /\ vars_set' = [vars_set EXCEPT ![k] = v]
    /\ \/ InPlace(k, v) /\ SetInPlace(k, v) /\ UNCHANGED fate
       \/ ~InPlace(k, v) /\ Reusable(k, v) # {} /\ SetReused(k, v)
       \/ ~InPlace(k, v) /\ Reusable(k, v) = {} /\ SetAppended(k, v) /\ UNCHANGED fate

Next == \E k \in Keys : remove_var(k) \/ \E v \in Values : set_var(k, v)
Spec == Init /\ [][Next]_vars
-----------------------------------------------------------------------------
\* "The entire map is represented in the the environment map content" (env.rs:22),
\* an entry being its length, the key, 0xFE, the value and 0xFF: what was last set
\* is what stands at the place the index gives for the key.
EntriesHoldTheMap == fate = "running" =>
    \A k \in Keys : env_map[k] # NoEntry =>
        LET body == k \o <<KEY_TERM>> \o vars_set[k] \o <<ENTRY_TERM>>
        IN  Fits(env, env_map[k] + 1, body) /\ Put(env, env_map[k] + 1, body) = env
=============================================================================
