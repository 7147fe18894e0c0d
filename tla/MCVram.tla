-------------------------------- MODULE MCVram --------------------------------
(* The regions of the code with their sizes (in pages of 16 KB) and        *)
(* priorities, looked at through windows of the address space.             *)
EXTENDS Vram

Regions == {bank[i] : i \in Bank} \cup TCM \cup {"(NULL)", "ram", "exp_wram"}
Sizes == [r \in Regions |->
            CASE r \in {"vram_a", "vram_b", "vram_c", "vram_d"} -> 8
              [] r = "vram_e" -> 4
              [] r \in {"vram_h", "inst_tcm"} -> 2
              [] r = "ram" -> 256
              [] r = "exp_wram" -> 16
              [] OTHER -> 1]
Priorities == [r \in Regions |->
                 CASE r \in {bank[i] : i \in Bank} ->
                        2 + CHOOSE i \in Bank : bank[i] = r
                   [] r = "data_tcm" -> 1000
                   [] r = "inst_tcm" -> 1001
                   [] r = "(NULL)" -> 0
                   [] OTHER -> 1]

(* Background banks that overlap on either core, bank F with an offset, and *)
(* bank I.                                                                 *)
Map(m, o) == [on |-> TRUE, mst |-> m, ofs |-> o]
Controls == [i \in 0 .. 11 |-> CASE i = 0 -> {Off, Map(1, 0)}
                                 [] i = 2 -> {Off, Map(1, 0), Map(2, 0)}
                                 [] i = 4 -> {Off, Map(1, 0)}
                                 [] i = 5 -> {Off, Map(1, 1)}
                                 [] i = 9 -> {Off, Map(1, 0)}
                                 [] OTHER -> {Off}]
(* Over main memory, from 0 over both, and up to the end of the addresses. *)
TcmMappings == {<<"data_tcm", 2049, 1>>, <<"inst_tcm", 0, 4096>>,
                <<"inst_tcm", 0, PAGES>>}
Pages == {0, 512, 2048, 2049, 131072} \cup {BG_A + p : p \in {0, 4, 7, 128}}
=============================================================================
