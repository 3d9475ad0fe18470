------------------------------ MODULE MCAccess ------------------------------
(* Access on a small card: the agent's folder, /luma and a folder for games. *)
EXTENDS Access

CONSTANTS raw, web, agent, config, luma, plugins, roms, ROMS, short

Names == {agent, config, luma, plugins, roms, ROMS, short}
Lower == [n \in Names |-> IF n = ROMS THEN roms ELSE n]
Bad == {short}

Agent == <<agent>>
Config == <<agent, config>>
Luma == <<luma>>
Plugins == <<luma, plugins>>
Private == {Config}
System == {Luma, Config}
Writable == {Plugins}

Sorted == <<agent, config, luma, plugins, ROMS, roms, short>>
Paths == {<<>>, Agent, Config, Luma, Plugins, <<luma, short>>, <<roms>>, <<ROMS>>}
Folders == {Agent, Config, Luma, Plugins, <<luma, short>>, <<roms>>}
Changing == {<<roms>>, <<ROMS>>}
=============================================================================
