---------------------------- MODULE MCLogFiles ----------------------------
(* Instances of LogFiles for TLC. *)
EXTENDS LogFiles

MCFileName == {"", DefaultFileName, DefaultErrorFileName}

ZapSection(switches, name, level, size, backups, age) ==
    [type |-> "zap",
     zap |-> [enable_console |-> switches[1], enable_file |-> switches[2],
              enable_error_file |-> switches[3], filename |-> name, error_filename |-> "",
              level |-> level, max_size |-> size, max_backups |-> backups,
             max_age |-> age]]

AllOn == <<"on", "on", "on">>

\* Defaults, small and large files, both writers on one file, an error file
\* alone, and the loggers that are not zap.
MCSection ==
    {Absent, [type |-> "other", zap |-> Absent], [type |-> "zap", zap |-> Absent],
     ZapSection(AllOn, "", "", 1, 0, 0), ZapSection(AllOn, "", "info", 2, 1, 7),
     ZapSection(AllOn, "", "warn", 0, 0, 0),
     ZapSection(AllOn, DefaultErrorFileName, "fatal", 2, 1, 0),
     ZapSection(<<"omitted", "off", "on">>, "", "", 1, 1, 7),
     ZapSection(AllOn, "", UnknownLevel, 0, 0, 7)}
=============================================================================
