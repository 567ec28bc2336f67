---------------------------- MODULE MCCommands ----------------------------
(***************************************************************************)
(* Instances of Commands, and with it of Inventory, HostKeyScan, Deploy    *)
(* and Seed, for TLC.                                                      *)
(***************************************************************************)
EXTENDS Commands

CONSTANTS u, v, s

Plain(kind, parent) == [kind |-> kind, parent |-> parent, admin |-> FALSE, key |-> None]
Flagged(parent) == [Plain("user", parent) EXCEPT !.admin = TRUE]
HostKey(m, key) == [Plain("hostkey", m) EXCEPT !.key = key]

Place(table, spare, linked, callers, kinds, serial, scanners) ==
  [rows |-> table, spare |-> spare, linked |-> linked, callers |-> callers,
   kinds |-> kinds, serial |-> serial, writable |-> TRUE, scanners |-> scanners,
   repos |-> {}, seeds |-> {}]
Publishing(place, repos) == [place EXCEPT !.repos = repos]
Seeded(place, seeds) == [place EXCEPT !.seeds = seeds]

(* u belongs to participant 1; v to participant 2, as an admin, or to 1.   *)
Both(i, j) == [c \in Caller |-> IF c = u THEN i ELSE j]
TwoOrgs ==
  <<Plain("participant", None), Plain("participant", None),
    Plain("user", 1), Flagged(2), Plain("machine", 3)>>
OneOrg ==
  <<Plain("participant", None), Plain("participant", None),
    Plain("user", 1), Plain("user", 1), Plain("user", 2), Plain("machine", 3)>>

E1 == [type |-> "ecdsa", blob |-> 1]
E2 == [type |-> "ecdsa", blob |-> 2]
R1 == [type |-> "rsa", blob |-> 1]
MCKey == {E1, E2, R1}

(* No key; one type, over one family or both; a changed key; two types.   *)
MCAnswer == {<< >>, <<E1>>, <<E1, E1>>, <<E2>>, <<E1, E2>>, <<E1, R1, E1>>, <<R1>>}

OneMachine == <<Plain("participant", None), Plain("user", 1), Plain("machine", 2), HostKey(3, E1)>>

(* User 2 has machine 4 with a key; user 3, of the same participant, is an *)
(* admin.                                                                  *)
Crewed ==
  <<Plain("participant", None), Plain("user", 1), Flagged(1), Plain("machine", 2), HostKey(4, E1)>>
Keyless == SubSeq(Crewed, 1, 4)

Full == [only |-> Kind, clear |-> TRUE]
Partial == [only |-> {"machine", "hostkey"}, clear |-> TRUE]
Users0 == [only |-> {"user"}, clear |-> TRUE]
Added == [only |-> Kind, clear |-> FALSE]

(***************************************************************************)
(* An ordinary user and an admin, one request after the other; two users   *)
(* of one participant whose requests interleave; one scanner alone; two    *)
(* scanners; one scanner beside a user who edits host keys and machines.   *)
(* Deployments beside an admin who edits machines; beside a scanner; web   *)
(* posts; seeds, of all tables and of some, beside an admin's edits.       *)
(***************************************************************************)
Places ==
  <<Place(TwoOrgs, 1, Both(3, 4), Caller,
          {"participant", "user", "machine", "premark", "sshkey"}, TRUE, {}),
    Place(OneOrg, 1, Both(3, 4), Caller,
          {"participant", "user", "machine", "mremark"}, FALSE, {}),
    Place(OneMachine, 4, Both(2, None), {}, {}, FALSE, {s}),
    Place(OneMachine, 2, Both(2, None), {}, {}, FALSE, Scanner),
    Place(OneMachine, 1, Both(2, None), {u}, {"hostkey", "machine"}, FALSE, {s}),
    Publishing(Place(Keyless, 0, Both(3, None), {u}, {"machine"}, TRUE, {}), {"ansible"}),
    Publishing(Place(OneMachine, 0, Both(2, None), {}, {}, FALSE, {s}), {"ansible"}),
    Publishing(Place(Keyless, 0, Both(3, None), {u}, {"machine"}, TRUE, {}), {"web"}),
    Seeded(Place(Crewed, 1, Both(3, None), {u}, {"machine", "hostkey"}, FALSE, {}),
           {Full, Partial, Users0, Added})>>

(* Indexed, so that TLC evaluates each place once.                         *)
MCDeployments == [i \in 1..9 |-> Places[i]]
=============================================================================
