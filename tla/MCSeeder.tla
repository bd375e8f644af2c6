------------------------------ MODULE MCSeeder ------------------------------
(* Two networks; names of at most three labels over two labels.              *)
EXTENDS Seeder

h == "hostmaster"
o == "org"

MCNetworks == {"mainnet", "testnet"}
MCOrder    == <<"mainnet", "testnet">>
MCLabels   == {h, o}

\* The root, org, two names under it, one as long as a name may be, one too long.
MCDomains     == {<<>>, <<o>>, <<h, o>>, <<o, o>>, <<h, o, o>>, <<o, h, o, o>>}
\* A good list, a duplicate, one with a name under org, one with a long name.
MCNameservers == {<< <<h, h>> >>, << <<o, h>>, <<o, h>> >>,
                  << <<h, h>>, <<h, o>> >>, << <<h, h>>, <<h, h, h, h>> >>}
MCZones       == [domain : MCDomains, nameservers : MCNameservers] \cup {NoZone}
MCConfigs     == [MCNetworks -> MCZones]
MCQueryNames  == {<<>>, <<o>>, <<h, o>>, <<o, o>>, <<h, o, o>>, <<h>>}

MCSnapshots ==
    [n \in MCNetworks |->
        {EmptySnapshot,
         [ipv4 |-> {<<n, 4, 1>>}, ipv6 |-> {}],
         [ipv4 |-> {<<n, 4, 1>>, <<n, 4, 2>>}, ipv6 |-> {<<n, 6, 1>>}]}]
=============================================================================
