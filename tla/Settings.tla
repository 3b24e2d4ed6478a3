------------------------------- MODULE Settings -------------------------------
(***************************************************************************)
(* Settings: what load_from_file() keeps of the events of a YAML file,     *)
(* what verify() says of it, and the look-ups.                             *)
(*                                                                         *)
(* A file is the sequence of its events; a file the parser gives up on is  *)
(* a sequence that ends early, because load_from_file() then leaves its    *)
(* loop and returns true all the same.  A GData list is a sequence of keys *)
(* with values.                                                            *)
(***************************************************************************)
EXTENDS Integers, SequencesExt

CONSTANTS
  Env,       \* m_env, the section to load
  NoKey,     \* GQuark 0
  Positive,  \* values that atoi() makes positive
  Existing,  \* values that name an existing file
  InDir      \* values that name a file in an existing directory

Scalar(v) == [type |-> "scalar", value |-> v]
MappingStart == [type |-> "mapping start"]
MappingEnd == [type |-> "mapping end"]

-----------------------------------------------------------------------------
(* load_from_file                                                          *)

(* g_datalist_id_set_data_full() *)
Put(list, k, v) ==
  IF \E i \in DOMAIN list : list[i].key = k
  THEN [i \in DOMAIN list |-> IF list[i].key = k THEN [list[i] EXCEPT !.value = v] ELSE list[i]]
  ELSE Append(list, [key |-> k, value |-> v])

(* The locals of load_from_file() and m_loaded before the first event. *)
Unread == [count |-> 0, key |-> NoKey, use_keys |-> FALSE, loaded |-> <<>>]

(* A scalar, counted: a key, or the value of one in the section to load. *)
ScalarEvent(s, v) ==
  IF s.count % 2 = 1 THEN [s EXCEPT !.key = v]
  ELSE IF s.key # NoKey /\ s.use_keys
    THEN [s EXCEPT !.key = NoKey, !.loaded = Put(@, s.key, v)]
    ELSE s

(* Defect: the count of scalars is not reset at the start of a mapping. *)
EventKeepsCount(s, e) ==
  CASE e.type = "scalar" -> ScalarEvent([s EXCEPT !.count = @ + 1], e.value)
    [] e.type = "mapping start" ->
         [s EXCEPT !.use_keys = IF s.key # NoKey THEN s.key = Env ELSE @]
    [] OTHER -> s

(* One turn of the loop: scalars are keys and values in turn; the start of *)
(* a mapping decides, by the key before it, whether its keys count.        *)
Event(s, e) ==
  CASE e.type = "scalar" -> ScalarEvent([s EXCEPT !.count = @ + 1], e.value)
    [] e.type = "mapping start" ->
         [s EXCEPT !.count = 0, !.use_keys = IF s.key # NoKey THEN s.key = Env ELSE @]
    [] OTHER -> s

(* m_loaded after all events. *)
Load(events) ==
  LET after[n \in 0 .. Len(events)] ==
        IF n = 0 THEN Unread ELSE Event(after[n - 1], events[n])
  IN  after[Len(events)].loaded

-----------------------------------------------------------------------------
(* verify                                                                  *)

Recorded == {"adapter", "database", "username", "password", "host"}
Numbers == {"pool", "port", "workers", "listen", "pollrate"}

(* Whether a key Verify does not merely record is valid. *)
ValidPair(p) ==
  \/ p.key \in Numbers /\ p.value \in Positive
  \/ p.key = "logfile" /\ p.value \in Existing
  \/ p.key = "pidfile" /\ p.value \in InDir

(* Defect: the first invalid key settles the matter. *)
TestKeyValueAll(valid, p) ==
  IF p.key \in Recorded THEN valid ELSE valid /\ ValidPair(p)

(* test_key_value(): the member valid is overwritten for every key that is *)
(* not merely recorded, unknown keys included.                             *)
TestKeyValue(valid, p) ==
  IF p.key \in Recorded THEN valid ELSE ValidPair(p)

(* g_datalist_foreach() starts with the newest key in older glib versions  *)
(* and with the oldest in newer ones.                                      *)
Foreach(list, newestFirst) ==
  [i \in 1 .. Len(list) |-> IF newestFirst THEN list[Len(list) + 1 - i] ELSE list[i]]

Verify(list, newestFirst) ==
  LET keys == Foreach(list, newestFirst)
      valid[n \in 0 .. Len(keys)] ==
        IF n = 0 THEN TRUE ELSE TestKeyValue(valid[n - 1], keys[n])
  IN  valid[Len(keys)]

-----------------------------------------------------------------------------
(* get_str() and get_bool() on a committed list *)

GetStr(list, k, default) ==
  IF \E i \in DOMAIN list : list[i].key = k
  THEN (CHOOSE x \in {list[i] : i \in DOMAIN list} : x.key = k).value
  ELSE default

GetBool(list, k, default) ==
  IF \E i \in DOMAIN list : list[i].key = k
  THEN GetStr(list, k, NoKey) \in {"yes", "true"}
  ELSE default

-----------------------------------------------------------------------------
(* What a file says, for comparison                                        *)

(* A flat file: a mapping from section names to mappings of scalars. *)
PairEvents(p) == <<Scalar(p.key), Scalar(p.value)>>
SectionEvents(section) ==
  <<Scalar(section.name), MappingStart>>
    \o FlattenSeq([i \in 1 .. Len(section.pairs) |-> PairEvents(section.pairs[i])])
    \o <<MappingEnd>>
Flat(sections) ==
  <<MappingStart>>
    \o FlattenSeq([n \in 1 .. Len(sections) |-> SectionEvents(sections[n])])
    \o <<MappingEnd>>

(* The value a key has in the section for Env: the last one given. *)
Says(sections, k, v) ==
  \E n \in DOMAIN sections : \E i \in DOMAIN sections[n].pairs :
    /\ sections[n].name = Env
    /\ sections[n].pairs[i] = [key |-> k, value |-> v]
    /\ \A m \in n .. Len(sections) : \A j \in DOMAIN sections[m].pairs :
         sections[m].name = Env /\ sections[m].pairs[j].key = k
           => m = n /\ j <= i

(* load_from_file() has kept k with the value v just when the file says so. *)
LoadedAsSaid(sections, k, v) ==
  LET list == Load(Flat(sections))
  IN  (\E i \in DOMAIN list : list[i] = [key |-> k, value |-> v]) <=> Says(sections, k, v)

(* What verify() says of a list is whether the last key it visits that is  *)
(* not merely recorded is valid.                                           *)
JudgedByLast(list, newestFirst) ==
  LET keys == Foreach(list, newestFirst)
      judged == {i \in DOMAIN keys : keys[i].key \notin Recorded}
  IN  Verify(list, newestFirst) <=>
        \A i \in judged : (\A j \in judged : j <= i) => ValidPair(keys[i])
=============================================================================
