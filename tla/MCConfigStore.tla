--------------------------- MODULE MCConfigStore ---------------------------
(* ConfigStore for TLC: new profiles that take the default, the bootstrap  *)
(* profile renamed, rotated, cleared and made the default again, and       *)
(* fallbacks in both directions.                                           *)
EXTENDS ConfigStore

Save(id, name, default, newKey, fallbacks) ==
    [id |-> id, name |-> name, default |-> default, newKey |-> newKey,
     fallbacks |-> fallbacks]
MCProfileInputs ==
    {Save(0, "other", TRUE, TRUE, <<1>>),
     Save(1, "boot", TRUE, FALSE, <<2>>),
     Save(1, "renamed", FALSE, TRUE, <<>>),
     Save(2, "other", TRUE, FALSE, <<>>)}
=============================================================================
