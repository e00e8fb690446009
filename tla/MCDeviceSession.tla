-------------------------- MODULE MCDeviceSession --------------------------
EXTENDS DeviceSession, TLC

\* Nothing recorded, and recorded numbers that repeat and go back.
MCScripts == {<<>>, <<1, 0>>, <<2, 1, 1>>}

\* Lines to skip before, between and after the events; a file without events.
MCImports ==
  { [format |-> "csv", lines |-> <<"header", "row", "blank", "row">>],
    [format |-> "zepp", lines |-> <<"header", "blank">>],
    [format |-> "zepp", lines |-> <<"row", "trkpt">>],
    [format |-> "gpx", lines |-> <<"row", "trkpt", "header", "trkpt">>],
    [format |-> "tcx", lines |-> <<"trkpt", "trackpoint", "value", "row">>] }

\* A payload a device takes and one it does not, on both sides of each limit;
\* for either vendor two well-formed commands.
MCPayloads ==
  LET payload(command, fields, number, steps) ==
        [command |-> command, fields |-> fields, typed |-> TRUE,
         number |-> number, steps |-> steps]
  IN  { payload("imu-rate", "exact", 1, 0), payload("imu-rate", "exact", 0, 0),
        payload("brightness", "exact", 100, 0), payload("brightness", "exact", 101, 0),
        payload("display-3d", "extra", 0, 0), payload("unknown", "exact", 0, 0),
        payload("haptic", "exact", 1, 1), payload("haptic", "exact", 1, 0),
        payload("haptic", "exact", 0, 1), payload("notify", "exact", 0, 0) }

MCSymmetry == Permutations(Session)
=============================================================================
