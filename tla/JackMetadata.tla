---------------------------- MODULE JackMetadata ----------------------------
(***************************************************************************)
(* Properties of clients and ports (libjack/metadata.c): a database file   *)
(* every process opens for itself, and change notices that go through the  *)
(* server (jackd/engine.c).  Setting a property is four steps that no lock *)
(* joins: open, ask whether the key exists, put, tell the server.          *)
(*                                                                         *)
(* A stored value is the number of bytes of its record: the value with its *)
(* zero, then the type with its zero if there is one.                      *)
(***************************************************************************)
EXTENDS Naturals, Sequences, FiniteSets

CONSTANTS Setters,     \* client processes that set and remove properties
          Subjects,    \* uuids of ports and clients
          Keys,
          Sizes,       \* sizes of the records written
          OwnerOf,     \* subject -> the client whose port it is, gone with it
          MaySet,      \* pairs <<client, subject>>: who describes what
          DbFails,     \* whether opening the database may fail
          MaxNotices   \* bound: notices on their way

NoKey == "all keys"
NoSubject == "all subjects"

ASSUME MetadataAssumption == /\ OwnerOf \in [Subjects -> Setters] /\ MaySet \subseteq Setters \X Subjects
                             /\ DbFails \in BOOLEAN /\ MaxNotices \in Nat /\ Sizes \subseteq Nat \ {0}
                             /\ NoKey \notin Keys /\ NoSubject \notin Subjects

VARIABLES db,       \* (subject, key) -> size of the record, 0 for none
          subjects, \* the subjects whose port exists; a uuid does not come back
          handle,   \* per process: whether its database is open
          call,     \* per process: the call it is in
          notices,  \* PropertyChange events on their way to the listener
          known     \* what the listener has been told exists

metadataVars == <<db, subjects, handle, call, notices, known>>

Pairs == Subjects \X Keys
NoCall == [pc |-> "none"]
Of(s) == {r \in Pairs : r[1] = s}
Stored == {r \in Pairs : db[r] # 0}

Notices == [change : {"Created", "Changed", "Deleted"}, subject : Subjects \cup {NoSubject},
            key : Keys \cup {NoKey}]

MetadataTypeOK ==
  /\ db \in [Pairs -> Sizes \cup {0}] /\ subjects \subseteq Subjects
  /\ handle \in [Setters -> {"none", "open", "broken", "dead"}]
  /\ \A c \in Setters : call[c].pc \in {"none", "put", "notify", "cursor"}
  /\ notices \in Seq(Notices) /\ known \subseteq Pairs

MetadataInit ==
  /\ db = [r \in Pairs |-> 0] /\ subjects = Subjects
  /\ handle = [c \in Setters |-> "none"] /\ call = [c \in Setters |-> NoCall]
  /\ notices = << >> /\ known = {}

Notice(change, s, k) == [change |-> change, subject |-> s, key |-> k]
Tells(notice) == notices' = Append(notices, notice) /\ Len(notices) < MaxNotices

(* The first call of a process opens the database.  When that fails the    *)
(* environment stays, and the next call takes it for an open database.     *)
jack_property_init(c) ==
  /\ handle[c] = "none"
  /\ \/ handle' = [handle EXCEPT ![c] = "open"]
     \/ DbFails /\ handle' = [handle EXCEPT ![c] = "broken"]
  /\ UNCHANGED <<db, subjects, call, notices, known>>

Usable(c) == handle[c] = "open" /\ call[c] = NoCall

UsesBrokenDatabase(c) ==
  /\ handle[c] = "broken" /\ handle' = [handle EXCEPT ![c] = "dead"]
  /\ UNCHANGED <<db, subjects, call, notices, known>>

Change(r) == IF db[r] = 0 THEN "Created" ELSE "Changed"

jack_set_property(c, r, size) ==
  /\ Usable(c) /\ <<c, r[1]>> \in MaySet /\ r[1] \in subjects
  /\ call' = [call EXCEPT ![c] = [pc |-> "put", at |-> r, size |-> size, change |-> Change(r)]]
  /\ UNCHANGED <<db, subjects, handle, notices, known>>

PropertyPut(c) ==
  /\ call[c].pc = "put"
  /\ db' = [db EXCEPT ![call[c].at] = call[c].size]
  /\ call' = [call EXCEPT ![c] = [pc |-> "notify",
                                  notice |-> Notice(call[c].change, call[c].at[1], call[c].at[2])]]
  /\ UNCHANGED <<subjects, handle, notices, known>>

(* The request is answered after the server has sent the event to every    *)
(* listener, so that the notices of one client keep their order.           *)
jack_property_change_notify(c) ==
  /\ call[c].pc = "notify" /\ Tells(call[c].notice)
  /\ call' = [call EXCEPT ![c] = NoCall]
  /\ UNCHANGED <<db, subjects, handle, known>>

(* Removing what is not there is an error and tells nobody. *)
jack_remove_property(c, r) ==
  /\ Usable(c) /\ <<c, r[1]>> \in MaySet /\ db[r] # 0
  /\ db' = [db EXCEPT ![r] = 0]
  /\ call' = [call EXCEPT ![c] = [pc |-> "notify", notice |-> Notice("Deleted", r[1], r[2])]]
  /\ UNCHANGED <<subjects, handle, notices, known>>

(* A cursor walks over the records and deletes those of the subject one by *)
(* one; the server is told if there were any.                              *)
Counted(n) == n > 0

jack_remove_properties(c, s) ==
  \/ /\ Usable(c) /\ <<c, s>> \in MaySet
     /\ call' = [call EXCEPT ![c] = [pc |-> "cursor", left |-> Of(s) \cap Stored, subject |-> s, count |-> 0]]
     /\ UNCHANGED <<db, subjects, handle, notices, known>>
  \/ /\ call[c].pc = "cursor" /\ call[c].subject = s
     /\ \E r \in call[c].left :
          /\ db' = [db EXCEPT ![r] = 0]
          /\ call' = [call EXCEPT ![c].left = @ \ {r}, ![c].count = @ + 1]
     /\ UNCHANGED <<subjects, handle, notices, known>>
  \/ /\ call[c].pc = "cursor" /\ call[c].subject = s /\ call[c].left = {}
     /\ call' = [call EXCEPT ![c] = IF Counted(call[c].count)
                                    THEN [pc |-> "notify", notice |-> Notice("Deleted", s, NoKey)]
                                    ELSE NoCall]
     /\ UNCHANGED <<db, subjects, handle, notices, known>>

jack_remove_all_properties(c) ==
  /\ Usable(c) /\ {c} \X Subjects \subseteq MaySet
  /\ db' = [r \in Pairs |-> 0]
  /\ call' = [call EXCEPT ![c] = [pc |-> "notify", notice |-> Notice("Deleted", NoSubject, NoKey)]]
  /\ UNCHANGED <<subjects, handle, notices, known>>

(* The server removes what describes a port that goes.  The owner asks for *)
(* it between two calls of its own, or is dead.                            *)
Forgotten_Kept(s) == {}
Forgotten(s) == Of(s)

jack_port_release(s) ==
  /\ s \in subjects
  /\ call[OwnerOf[s]] = NoCall
  /\ subjects' = subjects \ {s}
  /\ db' = [r \in Pairs |-> IF r \in Forgotten(s) THEN 0 ELSE db[r]]
  /\ IF Forgotten(s) \cap Stored # {} THEN Tells(Notice("Deleted", s, NoKey)) ELSE UNCHANGED notices
  /\ UNCHANGED <<handle, call, known>>

SetterDies(c) ==
  /\ handle[c] # "dead" /\ handle' = [handle EXCEPT ![c] = "dead"]
  /\ call' = [call EXCEPT ![c] = NoCall]
  /\ UNCHANGED <<db, subjects, notices, known>>

(* What the listener's callback makes of a notice. *)
Told(k, n) ==
  IF n.change # "Deleted" THEN k \cup {<<n.subject, n.key>>}
  ELSE {r \in k : (n.subject # NoSubject /\ r[1] # n.subject) \/ (n.key # NoKey /\ r[2] # n.key)}

PropertyCallback ==
  /\ notices # << >> /\ notices' = Tail(notices) /\ known' = Told(known, Head(notices))
  /\ UNCHANGED <<db, subjects, handle, call>>

MetadataNext ==
  \/ \E c \in Setters :
       \/ jack_property_init(c) \/ UsesBrokenDatabase(c) \/ PropertyPut(c) \/ jack_property_change_notify(c)
       \/ jack_remove_all_properties(c) \/ SetterDies(c)
       \/ \E r \in Pairs : (jack_remove_property(c, r) \/ \E size \in Sizes : jack_set_property(c, r, size))
       \/ \E s \in Subjects : jack_remove_properties(c, s)
  \/ \E s \in Subjects : jack_port_release(s)
  \/ PropertyCallback

MetadataSpec == MetadataInit /\ [][MetadataNext]_metadataVars
-----------------------------------------------------------------------------
(* What jack_get_property finds: a record of less than four bytes is taken *)
(* for damaged, and reported as no property.                               *)
jack_get_property(r) == db[r] >= 4
jack_get_properties(s) == {r \in Of(s) : db[r] >= 4}
(* The reader of everything takes every record as it is. *)
jack_get_all_properties == Stored

(* Once every call has ended, every notice was taken and what a dead owner *)
(* had is gone, the listener believes in exactly the properties there are  *)
(* of the ports there are.  Holds while only a port's owner describes it.  *)
ListenerKnowsAll ==
  (/\ notices = << >> /\ \A c \in Setters : call[c] = NoCall
   /\ \A s \in subjects : handle[OwnerOf[s]] # "dead")
  => {r \in known : r[1] \in subjects} = Stored

(* A notice says "created" of what the listener does not know and          *)
(* "changed" of what it does.                                              *)
CreatedIsNew ==
  notices # << >> /\ Head(notices).change # "Deleted" =>
    LET n == Head(notices) IN n.change = "Created" <=> <<n.subject, n.key>> \notin known

(* A port that is gone leaves no description behind. *)
GoneAreForgotten == \A s \in Subjects \ subjects : Of(s) \cap Stored = {}

(* A property that was set can be read, whichever way one asks: "-1 if the *)
(* subject has no key property" (jack/metadata.h).                         *)
WhatIsSetIsFound ==
  \A r \in jack_get_all_properties : jack_get_property(r) /\ r \in jack_get_properties(r[1])

\* The properties are kept: the listener knows what is stored, what is announced
\* as created is new, and subjects that went are forgotten.
MetadataInv ==
    /\ MetadataTypeOK
    /\ ListenerKnowsAll
    /\ CreatedIsNew
    /\ GoneAreForgotten
=============================================================================
