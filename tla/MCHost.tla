------------------------------ MODULE MCHost ------------------------------
(* A model-checking instance of the rest of the simulator: decoding, what  *)
(* the instructions compute, the memory path, the store buffer and branch  *)
(* prediction, and what connects the simulator to its host: the debug      *)
(* interfaces, the configuration, the verification API and the channels.   *)
(* Every behaviour is one of a single component.                           *)
EXTENDS Areas, MemPath, Timing, Rsp, Jtag, SimConfig, Vapi, Channels,
  Alu, Float, Decode, TLC

(* Areas of several sizes and widths, some of which overlap, two of them   *)
(* at the top of the address space.                                        *)
Request(a, s, m, r, w) ==
  [addr |-> a, size |-> s, mc |-> m, reads |-> r, writes |-> w]
MCRequests ==
  {Request(0, 4, FALSE, {1, 2, 4}, {1, 2, 4}), Request(2, 1, FALSE, {1}, {1}),
   Request(4, 3, FALSE, {4}, {4}), Request(9, 5, FALSE, {1}, {1}),
   Request(8, 8, TRUE, {4}, {4}), Request(6, 2, FALSE, {1, 2, 4}, {2}),
   Request(0, 8, FALSE, {1, 2, 4}, {1, 2, 4}),
   Request(8184, 8, FALSE, {4}, {4}), Request(8180, 16, FALSE, {1}, {1})}

(* Two pages, each mapped to the other: one that user code may only read,  *)
(* and one that is not cached and that the supervisor may not read.        *)
AllRights == {"SRE", "SWE", "URE", "UWE", "SXE", "UXE"}
MCTlbs ==
  {[s \in 0 .. 0 |-> [w \in 0 .. 1 |->
     IF w = 0 THEN TlbEntry(TRUE, 0, 1, FALSE, AllRights \ {"UWE", "UXE"})
     ELSE TlbEntry(TRUE, 1, 0, TRUE, AllRights \ {"SRE"})]]}
MCLoads == {<<0, 4>>, <<10, 4>>, <<20, 1>>}
MCStores == {<<6, 2>>, <<16, 1>>}

(* Debug unit: three matchpoints, the watchpoints chained with "and", with *)
(* "or" and not at all.                                                    *)
Matches(t, c, v) ==
  [i \in 0 .. 2 |-> [dp |-> TRUE, ct |-> IF i = 2 THEN "IFEA" ELSE t,
                     cc |-> c, v |-> v + i]]
Setup(m, l, g, e, a) ==
  [mp |-> m, cw |-> [w \in 0 .. 4 |-> IF w = 0 THEN "none" ELSE l],
   wgb |-> g, wce |-> e, awtc |-> a]
MCSetups ==
  {Setup(Matches("LSEA", "GE", 0), "and", {1, 2}, {}, {}),
   Setup(Matches("LSEA", "EQ", 0), "or", {4}, {0, 1}, {0}),
   Setup(Matches("LSD", "MASKED", 1), "none", {3}, {0}, {2}),
   Setup(Matches("LEA", "LE", 0), "none", {}, {1}, {0, 1, 2})}

(* JTAG: GO_COMMANDs of a wrong length, by bits and by bytes, and ones     *)
(* among the bits that the interface is to overwrite.                      *)
MCJtagExtra == {-33, -9, -8, -1, 0, 1, 8}
MCJtagFed == {{}, {3}, {6}, {0, 5, 38}}

(* Four devices, the last of which has an id of the third; tests for the   *)
(* first and the second, for the second and an unknown one, and for the    *)
(* last two.                                                               *)
MCVapiDevices ==
  <<[base |-> 1, num |-> 1], [base |-> 3, num |-> 2], [base |-> 6, num |-> 2],
    [base |-> 7, num |-> 1]>>
MCVapiTests == << <<1, 4>>, <<4, 2>>, <<6, 7>> >>

(* Configuration files: one or two sections of a file, with values in and  *)
(* out of range, unknown names, repeated and dependent parameters.         *)
MCNumbers ==
  "0" :> 0 @@ "1" :> 1 @@ "2" :> 2 @@ "3" :> 3 @@ "4" :> 4 @@ "8" :> 8
    @@ "16" :> 16 @@ "32" :> 32 @@ "300" :> 300 @@ "512" :> 512 @@ "-1" :> -1
    @@ "0x40" :> 64 @@ "0x2a0" :> 672 @@ "0x400" :> 1024 @@ "0x1000" :> 4096
MCClocks == "8ns" :> <<8, 1000>> @@ "0us" :> <<0, 1000000>>
MCStrings == {"fd", "ram", "pic"}
Sec(name, ps) == [sec |-> name, params |-> ps]
MCSections ==
  {Sec("sim", << <<"clkcycle", "8ns">>, <<"debug", "300">> >>),
   Sec("sim", << <<"clkcycle", "0us">>, <<"profile", "1">> >>),
   Sec("nosuch", << <<"x", "1">> >>), Sec("nosuch", << >>),
   Sec("nosuch", << <<"end">>, <<"end">>, <<"x", "1">> >>),
   Sec("nosuch", << <<"x", "1">>, <<"y", "2">> >>),
   Sec("dc", << <<"enabled", "1">>, <<"nways", "4">>, <<"nways", "2">> >>),
   Sec("dc", << <<"nsets", "3">>, <<"nosuch", "1">>, <<"nsets", "16">> >>),
   Sec("ic", << <<"enabled", "1">>, <<"nsets", "32">>,
                <<"blocksize", "32">> >>),
   Sec("ic", << <<"nways", "8">> >>),
   Sec("dmmu", << <<"nways", "3">>, <<"enabled", "1">>, <<"pagesize", "3">> >>),
   Sec("immu", << <<"nsets", "512">>, <<"ustates", "4">> >>),
   Sec("pic", << <<"enabled", "1">> >>),
   Sec("pm", << <<"enabled", "1">>, <<"enabled", "0">> >>),
   Sec("memory", << <<"pattern", "300">>, <<"type", "zero">>, <<"name", "ram">>,
                    <<"size", "32">> >>),
   Sec("memory", << <<"size", "0">> >>),
   Sec("uart", << <<"channel", "fd">>, <<"txfile", "fd">>, <<"16550", "1">>,
                  <<"baseaddr", "0x40">> >>),
   Sec("uart", << <<"enabled", "0">> >>),
   Sec("vga", << <<"txfile", "pic">>, <<"baseaddr", "0x400">> >>),
   Sec("ethernet", << <<"rtx_type", "bad">>, <<"phy_addr", "32">>,
                      <<"baseaddr", "0x1000">> >>),
   Sec("generic", << <<"size", "300">>, <<"hw_enabled", "0">>,
                     <<"baseaddr", "0x2a0">> >>),
   Sec("mc", << <<"POC", "32">> >>), Sec("kbd", << <<"rxfile", "fd">> >>),
   Sec("fb", << <<"baseaddr", "0x1000">> >>), Sec("dma", << <<"irq", "3">> >>),
   Sec("gpio", << <<"baseaddr", "0x40">> >>),
   Sec("generic", <<>>),
   Sec("cpu", << <<"rev", "1">>, <<"rev", "2">>, <<"upr", "1">>,
                 <<"sbuf_len", "512">> >>),
   Sec("ata", << <<"device", "1">>, <<"type", "1">>, <<"dev_id", "4">>,
                 <<"enddevice", "0">>, <<"size", "1">> >>),
   Sec("ata", << <<"baseaddr", "0x1000">>, <<"device", "0">>, <<"type", "1">>,
                 <<"enddevice">> >>),
   Sec("uart", << <<"channel", "">>, <<"baseaddr", "0x40">> >>)}
MCBodies ==
  {<<s>> : s \in MCSections} \cup {<<s, t>> : s, t \in MCSections}
MCLayouts == {{}, {"equals", "comment"}}
MCArgs ==
  {{"file"}, {"file", "srv", "nosrv", "16", "profile"}, {"nosrv", "3K"},
   {"quiet", "verbose", "nosrv", "8M"}, {"help"}, {"file", "verbose", "0G"}}
MCMemorySizes == "16" :> <<16, 1>> @@ "3K" :> <<3, 2 ^ 10>> @@ "8M" :> <<8, 2 ^ 20>>
                   @@ "0G" :> <<0, 2 ^ 30>>
MCCommands ==
  {<<"ic", "nsets", "8">>, <<"nosuch", "x", "1">>, <<"dc", "nosuch", "1">>,
   <<"dc", "nways", "4">>}

(* Opcode tables: all pairs of encodings, and all sets of three that leave *)
(* the upper bit open.                                                     *)
MCEncodings ==
  {e \in [ones : SUBSET (0 .. 3), zeros : SUBSET (0 .. 3)] :
     e.ones \cap e.zeros = {}}
EncodingLess(e, f) ==
  DNumber(e.ones) * 16 + DNumber(e.zeros) < DNumber(f.ones) * 16 + DNumber(f.zeros)
MCTables ==
  LET low == {e \in MCEncodings : 3 \notin e.ones \cup e.zeros}
  IN  {t \in {<<e, f>> : e, f \in MCEncodings} : EncodingLess(t[1], t[2])}
        \cup {t \in {<<e, f, g>> : e, f, g \in low} :
                EncodingLess(t[1], t[2]) /\ EncodingLess(t[2], t[3])}
(* "rD,I(rA)" with a divided displacement, "I(rA),rB", "rD,K", "N" and an  *)
(* opcode without arguments.                                               *)
Arg(field, reg, sig, dis) ==
  [field |-> field, reg |-> reg, sig |-> sig, dis |-> dis]
Reg(field) == Arg(field, TRUE, FALSE, FALSE)
MCFormats ==
  {<<Reg({3}), Arg({0, 2}, FALSE, TRUE, TRUE), Reg({1})>>,
   <<Arg({0, 1, 3}, FALSE, TRUE, TRUE), Reg({2}), Reg({3})>>,
   <<Reg({1, 3}), Arg({0, 2}, FALSE, FALSE, FALSE)>>,
   <<Arg({0, 1, 2, 3}, FALSE, TRUE, FALSE)>>, << >>}
MCRegs == [r \in 0 .. 3 |-> 5 * r]

Init ==
  \/ AluInit \/ FloatInit \/ SbufInit \/ DecodeInit
  \/ AreaInit \/ PathInit \/ PredictInit
  \/ RspInit \/ DuInit \/ jtag_init \/ JtagWireInit
  \/ ConfigInit \/ VapiInit \/ ChannelInit

Next ==
  \/ AluNext \/ FloatNext \/ SbufNext \/ DecodeNext
  \/ AreaNext \/ PathNext \/ PredictNext
  \/ RspNext \/ DuNext \/ JtagNext
  \/ ConfigNext \/ VapiNext \/ ChannelNext

Spec == Init /\ [][Next]_dev
=============================================================================
