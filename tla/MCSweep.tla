------------------------------- MODULE MCSweep ------------------------------
(***************************************************************************)
(* Small instances of SnapshotSweep: two snapshots, the second of which    *)
(* has its head below its name, as the EF snapshots do.                    *)
(***************************************************************************)
EXTENDS SnapshotSweep

TwoSnapshots == {10, 20}
TwoHeads == [s \in TwoSnapshots |-> IF s = 10 THEN 10 ELSE 18]
OneDescribed == {20}
AllMilestones == TwoSnapshots \X (1..2)

OfLine(b, p) == [block |-> b, payloads |-> p]

\* In order; and with every way a line can be wrong: payloads that fit the
\* name and not the head, and a bad URL.
SomeManifests == {<<OfLine(10, 11), OfLine(20, 19)>>,
                  <<OfLine(20, 21), OfLine(0, 0)>>}

Knob(k, s, u, h) == [keepSnapshots |-> k, skipFetch |-> s, keepInfra |-> u, snapHead |-> h]

\* SNAP_HEAD as it fits the payloads 21 and not the snapshot.
SomeKnobs == {Knob(FALSE, FALSE, TRUE, 0), Knob(FALSE, TRUE, FALSE, 20), Knob(TRUE, TRUE, TRUE, 0)}

SomeFaults == {{"again", "kill"}, {"again", "fetch"}, {"again", "stuck", "up"}, {"again", "cadvisor"},
               {"rm", "stuck", "fetch"}, {"env"}, {"oom"}}
=============================================================================
