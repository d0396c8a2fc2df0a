----------------------------- MODULE SimConfig ------------------------------
(***************************************************************************)
(* The configuration of the simulator: the sections of a configuration     *)
(* file (one definition for the setters of each component, one for the     *)
(* values it starts with and one for what the end of the section does with *)
(* them), parse_args and the file it reads (sim-config.c), and the "set"   *)
(* command.                                                                *)
(*                                                                         *)
(* A file is a sequence of words and line ends ("\n").  "/*" and "*/" are  *)
(* the words that open and close a comment, the words of Strings stand in  *)
(* quotation marks, "" is the empty string.                                *)
(***************************************************************************)
EXTENDS Areas, FiniteSetsExt
LOCAL INSTANCE Bitwise

CONSTANTS
    Numbers,      \* what strtol makes of a word (0 of a word that is no number)
    ClockTimes,   \* the words <n>ps, <n>ns, <n>us and <n>ms: n and picoseconds
    Strings,      \* words written in quotation marks
    ConfigBodies, \* what the files say: sequences of [sec, params]
    Layouts,      \* how it is written: subsets of {"equals", "comment"}
    ArgSets,      \* command lines: sets of options and of sizes of a memory block
    MemorySizes,  \* those sizes: the number and the factor of the suffix G, M or K
    TenDigits,    \* the least number of ten digits
    SetCommands   \* <<section, item, value>> given to the "set" command

ASSUME ConfigAssumption ==
    /\ \A layout \in Layouts : layout \subseteq {"equals", "comment"}
    /\ TenDigits \in 1..AreaTop
    /\ \A size \in DOMAIN MemorySizes : MemorySizes[size] \in Nat \X {1, 2 ^ 10, 2 ^ 20, 2 ^ 30}

-----------------------------------------------------------------------------
(* A parameter of a section is a record: the field its setter writes       *)
(* ("to"), the type reg_config_param gives it, and the rule by which the   *)
(* setter accepts, clamps, truncates or ignores a value.                   *)
strtol(word) == IF word \in DOMAIN Numbers THEN Numbers[word] ELSE 0

Par(to, type, rule) == [to |-> to, type |-> type, rule |-> rule]
IntTo(to) == Par(to, "int", [by |-> "any"])
WordTo(to) == Par(to, "word", [by |-> "any"])
Among(to, set) == Par(to, "int", [by |-> "among", set |-> set])
Clamped(to, lo, hi) == Par(to, "int", [by |-> "clamp", lo |-> lo, hi |-> hi])
Bits(to, n) == Par(to, "int", [by |-> "bits", n |-> n])
Chosen(to, choice) == Par(to, "word", [by |-> "choice", choice |-> choice])
Ints(names) == [p \in names |-> IntTo(p)]
Words(names) == [p \in names |-> WordTo(p)]

is_power2(n) == n \in {2 ^ k : k \in 0..20}
log2_int(n) == IF n = 0 THEN 0 ELSE CHOOSE k \in 0..20 : 2 ^ k <= n /\ n < 2 ^ (k + 1)
PowersTo(max) == {2 ^ k : k \in 0..log2_int(max)}

-----------------------------------------------------------------------------
exe_log_params ==
    Ints({"exe_log", "exe_log_start", "exe_log_end", "exe_log_marker", "exe_bin_insn_log"})
    @@ Words({"exe_log_fn", "exe_bin_insn_log_fn"})
    @@ [exe_log_file |-> WordTo("exe_log_fn"),
        exe_bin_insn_log_file |-> WordTo("exe_bin_insn_log_fn"),
        exe_log_type |-> Chosen("exe_log_type",
            [default |-> "hardware", hardware |-> "hardware",
             simple |-> "simple", software |-> "software"])]
sim_clkcycle ==
    Chosen("clkcycle_ps", [w \in {v \in DOMAIN ClockTimes : ClockTimes[v][1] # 0} |->
                             ClockTimes[w][1] * ClockTimes[w][2]])
sim_params ==
    Ints({"verbose", "profile", "mprofile", "history"})
    @@ Words({"prof_fn", "mprof_fn"})
    @@ [debug |-> Clamped("debug", 0, 9), clkcycle |-> sim_clkcycle,
        prof_file |-> WordTo("prof_fn"), mprof_file |-> WordTo("mprof_fn")]
    @@ exe_log_params
sim_default ==
    [p \in {"verbose", "profile", "mprofile", "history", "exe_log", "debug",
            "exe_log_start", "exe_log_end", "exe_log_marker",
            "exe_bin_insn_log", "strict_npc", "quiet"} |-> 0]
    @@ [exe_log_type |-> "hardware", clkcycle_ps |-> 4000,
        prof_fn |-> "sim.profile", mprof_fn |-> "sim.mprofile",
        exe_log_fn |-> "executed.log", exe_bin_insn_log_fn |-> "exe-insn.bin"]

(* cpu_cfgr and cpu_sr warn that a value is not supported, and store it;   *)
(* cpu_rev does not clear the field it sets.                               *)
cpu_params ==
    Ints({"upr", "cfgr", "sr", "superscalar", "hazards", "dependstats", "hardfloat"})
    @@ [ver |-> Bits("ver", 8), cfg |-> Bits("cfg", 8),
        rev |-> Par("rev", "int", [by |-> "or", n |-> 6]),
        sbuf_len |-> Clamped("sbuf_len", 0, 255)]
cpu_default ==
    [p \in {"ver", "cfg", "rev", "superscalar", "hazards", "dependstats",
            "sbuf_len", "hardfloat"} |-> 0]
    @@ [upr |-> 1025, cfgr |-> 32, sr |-> 32769]

pic_params == Ints({"enabled", "edge_trigger", "use_nmi"})
pic_default == [enabled |-> 0, edge_trigger |-> 1, use_nmi |-> 1]
pm_params == Ints({"enabled"})
pcu_params == Ints({"enabled"})
bpb_params == Ints({"enabled", "btic", "sbp_bnf_fwd", "sbp_bf_fwd",
                    "missdelay", "hitdelay"})
debug_params ==
    Ints({"enabled", "rsp_enabled", "vapi_id"})
    @@ [rsp_port |-> Among("rsp_port", 0..65535)]
debug_default == [enabled |-> 0, rsp_enabled |-> 0, rsp_port |-> 51000, vapi_id |-> 0]
vapi_params ==
    Ints({"enabled", "log_enabled", "hide_device_id"})
    @@ [server_port |-> Among("server_port", 1..65535),
        vapi_log_file |-> WordTo("vapi_fn"), vapi_log_fn |-> WordTo("vapi_fn")]
vapi_default == [enabled |-> 0, server_port |-> 50000, log_enabled |-> 0,
                 hide_device_id |-> 0, vapi_fn |-> "vapi.log"]
cuc_params ==
    [memory_order |-> Chosen("memory_order",
         [none |-> "none", weak |-> "weak", strong |-> "strong", exact |-> "exact"]),
     calling_convention |-> IntTo("calling_convention"),
     enable_bursts |-> IntTo("enable_bursts"), no_multicycle |-> IntTo("no_multicycle"),
     timings_file |-> WordTo("timings_fn"), timings_fn |-> WordTo("timings_fn")]
cuc_default == [memory_order |-> "strong", calling_convention |-> 1,
                enable_bursts |-> 1, no_multicycle |-> 1, timings_fn |-> "virtex.tim"]

dc_params ==
    Ints({"enabled", "load_hitdelay", "load_missdelay", "store_hitdelay", "store_missdelay"})
    @@ [nsets |-> Among("nsets", PowersTo(1024)), nways |-> Among("nways", PowersTo(32)),
        blocksize |-> Among("blocksize", {16, 32}), ustates |-> Among("ustates", 2..4)]
dc_default == [enabled |-> 0, nsets |-> 1, nways |-> 1, blocksize |-> 1, ustates |-> 2,
               load_hitdelay |-> 2, load_missdelay |-> 2,
               store_hitdelay |-> 0, store_missdelay |-> 0]
ic_params ==
    Ints({"enabled", "hitdelay", "missdelay"})
    @@ [nsets |-> Among("nsets", PowersTo(1024)), nways |-> Among("nways", PowersTo(32)),
        blocksize |-> Among("blocksize", {16, 32}), ustates |-> Among("ustates", 2..4)]
ic_start_sec == [enabled |-> 0, nsets |-> 1, nways |-> 1, blocksize |-> 16,
                 ustates |-> 2, hitdelay |-> 1, missdelay |-> 1]
dmmu_params ==
    Ints({"enabled", "hitdelay", "missdelay"})
    @@ [nsets |-> Among("nsets", PowersTo(128)), nways |-> Among("nways", 1..4),
        pagesize |-> Among("pagesize", PowersTo(2 ^ 20)),
        entrysize |-> Among("entrysize", PowersTo(2 ^ 20)),
        ustates |-> Among("ustates", 2..4)]
dmmu_start_sec == [enabled |-> 0, nsets |-> 1, nways |-> 1, pagesize |-> 8192,
                   entrysize |-> 1, ustates |-> 2, hitdelay |-> 1, missdelay |-> 1]
immu_params ==
    Ints({"enabled", "missdelay", "hitdelay"})
    @@ [nsets |-> Among("nsets", PowersTo(128)), nways |-> Among("nways", 1..4),
        pagesize |-> Among("pagesize", PowersTo(2 ^ 20)),
        entrysize |-> Among("entrysize", PowersTo(2 ^ 20)),
        ustates |-> Among("ustates", 2..4)]
immu_start_sec == [enabled |-> 0, nsets |-> 1, nways |-> 1, pagesize |-> 8192,
                   entrysize |-> 1, ustates |-> 2, hitdelay |-> 1, missdelay |-> 1]

-----------------------------------------------------------------------------
(* The peripherals: a section makes one more of them, if it is enabled.    *)
(* The end of the section registers the addresses the device answers at,   *)
(* with the widths it has functions for, or frees what was configured.     *)
AreaOf(d, on, size, widths, first) ==
    {[addr |-> d.baseaddr, size |-> size, mc |-> first,
      reads |-> widths, writes |-> widths] : x \in {y \in {0} : on}}

memory_params ==
    Ints({"random_seed", "baseaddr", "size", "ce", "mc", "delayr", "delayw"})
    @@ Words({"name", "log"})
    @@ [pattern |-> Bits("pattern", 8),
        type |-> Chosen("type", [unknown |-> "unknown", random |-> "random",
            pattern |-> "pattern", zero |-> "pattern", exitnops |-> "exitnops"])]
memory_sec_start ==
    [type |-> "unknown", random_seed |-> -1, pattern |-> 0, baseaddr |-> 0,
     size |-> 1024, name |-> "anonymous memory block", ce |-> -1, mc |-> 0,
     delayr |-> 1, delayw |-> 1, log |-> "none"]
memory_sec_end(d) ==  \* the size is rounded up to whole words
    AreaOf(d, d.size # 0, (4 * ((d.size + 3) \div 4)) % AreaTop, {1, 2, 4}, FALSE)
generic_params ==
    Ints({"enabled", "byte_enabled", "hw_enabled", "word_enabled", "baseaddr", "size"})
    @@ Words({"name"})
generic_sec_start ==
    [enabled |-> 1, byte_enabled |-> 1, hw_enabled |-> 1, word_enabled |-> 1,
     name |-> "anonymous external peripheral", baseaddr |-> 0, size |-> 0]
generic_sec_end(d) ==
    LET widths == {w \in {1, 2, 4} :
                     CASE w = 1 -> d.byte_enabled # 0
                       [] w = 2 -> d.hw_enabled # 0
                       [] w = 4 -> d.word_enabled # 0}
    IN AreaOf(d, d.enabled # 0 /\ d.size # 0 /\ widths # {}, d.size, widths, FALSE)

mc_params == Ints({"enabled", "baseaddr"})
             @@ [POC |-> Bits("poc", 4), index |-> Bits("index", 3)]
mc_sec_start == [enabled |-> 1, baseaddr |-> 0, poc |-> 0, index |-> 0]
mc_sec_end(d) == AreaOf(d, d.enabled # 0, 80, {4}, TRUE)
uart_params ==
    Ints({"enabled", "baseaddr", "irq", "16550", "jitter", "vapi_id"})
    @@ [channel |-> WordTo("channel_str"),
        txfile |-> Par("txfile", "word", [by |-> "nothing"]),
        rxfile |-> Par("rxfile", "word", [by |-> "nothing"])]
uart_sec_start ==
    [p \in {"baseaddr", "irq", "16550", "jitter", "vapi_id"} |-> 0]
    @@ [enabled |-> 1, channel_str |-> "xterm:"]
uart_sec_end(d) == AreaOf(d, d.enabled # 0, 8, {1}, FALSE)
dma_params == Ints({"enabled", "baseaddr", "irq", "vapi_id"})
dma_sec_start == [enabled |-> 1, baseaddr |-> 0, irq |-> 0, vapi_id |-> 0]
dma_sec_end(d) == AreaOf(d, d.enabled # 0, 1024, {4}, FALSE)
eth_rtx_params ==
    Ints({"rx_channel", "tx_channel"}) @@ Words({"rxfile", "txfile", "tap_dev"})
    @@ [rtx_type |-> Par("rtx_type", "word",
            [by |-> "orelse", choice |-> [file |-> "file", tap |-> "tap"],
             orelse |-> "file"])]
eth_params ==
    Ints({"enabled", "baseaddr", "dma", "dummy_crc"})
    @@ [irq |-> IntTo("mac_int"), vapi_id |-> IntTo("base_vapi_id"),
        phy_addr |-> Bits("phy_addr", 5)]
    @@ eth_rtx_params
eth_sec_start ==
    [enabled |-> 1, baseaddr |-> 0, dma |-> 0, mac_int |-> 0, rtx_type |-> "file",
     rx_channel |-> 0, tx_channel |-> 0, rxfile |-> "eth_rx", txfile |-> "eth_tx",
     tap_dev |-> "", phy_addr |-> 0, dummy_crc |-> 1, base_vapi_id |-> 0]
eth_sec_end(d) == AreaOf(d, d.enabled # 0, 4096, {4}, FALSE)
gpio_params ==
    Ints({"enabled", "baseaddr", "irq"})
    @@ [vapi_id |-> IntTo("base_vapi_id"), base_vapi_id |-> IntTo("base_vapi_id")]
gpio_sec_start == [enabled |-> 1, baseaddr |-> 0, irq |-> 0, base_vapi_id |-> 0]
gpio_sec_end(d) == AreaOf(d, d.enabled # 0, 32, {4}, FALSE)
vga_params == Ints({"baseaddr", "enabled", "irq", "refresh_rate"})
              @@ [txfile |-> WordTo("filename"), filename |-> WordTo("filename")]
(* 50 pictures a second, with the clock that is configured at this point:  *)
(* 10^12 / 50 / clkcycle_ps (written so that TLC's integers hold it).      *)
FiftyHertz(ps) == (20000000 \div ps) * 1000 + ((20000000 % ps) * 1000) \div ps
vga_sec_start(ps) == [enabled |-> 1, baseaddr |-> 0, irq |-> 0,
                  refresh_rate |-> FiftyHertz(ps), filename |-> "vga_out"]
vga_sec_end(d) == AreaOf(d, d.enabled # 0, 1024, {4}, FALSE)
fb_params == Ints({"baseaddr", "enabled", "refresh_rate"})
             @@ [txfile |-> WordTo("filename"), filename |-> WordTo("filename")]
fb_sec_start(ps) == [enabled |-> 1, baseaddr |-> 0, refresh_rate |-> FiftyHertz(ps),
                 filename |-> "fb_out"]
fb_sec_end(d) == AreaOf(d, d.enabled # 0, 2048, {4}, FALSE)
kbd_params == Ints({"baseaddr", "enabled", "irq"}) @@ Words({"rxfile"})
kbd_sec_start == [enabled |-> 1, baseaddr |-> 0, irq |-> 0, rxfile |-> "kbd_in"]
kbd_sec_end(d) == AreaOf(d, d.enabled # 0, 8, {1}, FALSE)

(* The disk of an ATA section that a parameter is about is the global      *)
(* conf_dev; ata_mwdma and ata_pio do not test that it is one.             *)
ata_disk_params ==
    Ints({"type", "size", "packet", "heads", "sectors"}) @@ Words({"file", "firmware"})
    @@ [mwdma |-> Among("mwdma", -1..2), pio |-> Among("pio", 0..4)]
ata_params ==
    Ints({"enabled", "baseaddr", "irq"})
    @@ [p \in {"pio_mode0_t1", "pio_mode0_t2", "pio_mode0_t4", "pio_mode0_teoc",
               "dma_mode0_tm", "dma_mode0_td", "dma_mode0_teoc"} |-> Among(p, 0..255)]
    @@ [rev |-> Bits("rev", 4),
        dev_id |-> Par("dev_id", "int", [by |-> "orone", set |-> 1..3]),
        device |-> IntTo("conf_dev"),
        enddevice |-> Par("conf_dev", "int", [by |-> "always", value |-> 2])]
    @@ ata_disk_params
ata_sec_start ==
    [enabled |-> 1, baseaddr |-> 0, irq |-> 0, dev_id |-> 1, rev |-> 0,
     disks |-> [i \in 0..1 |-> [type |-> 0, size |-> 0, packet |-> 0, heads |-> 7,
         sectors |-> 32, firmware |-> "02207031", mwdma |-> 2, pio |-> 4,
         file |-> IF i = 0 THEN "ata_file0" ELSE "ata_file1"]]]
    @@ [pio_mode0_t1 |-> 6, pio_mode0_t2 |-> 28, pio_mode0_t4 |-> 2,
        pio_mode0_teoc |-> 23, dma_mode0_tm |-> 4, dma_mode0_td |-> 21,
        dma_mode0_teoc |-> 21]
ata_sec_end(d) == AreaOf(d, d.enabled # 0, 128, {4}, FALSE)

-----------------------------------------------------------------------------
(* reg_config_secs: the sections there are.                                *)
reg_config_secs ==
    [generic |-> generic_params, sim |-> sim_params, cpu |-> cpu_params,
     pic |-> pic_params, memory |-> memory_params, mc |-> mc_params,
     uart |-> uart_params, dma |-> dma_params, debug |-> debug_params,
     VAPI |-> vapi_params, ethernet |-> eth_params, immu |-> immu_params,
     dmmu |-> dmmu_params, ic |-> ic_params, dc |-> dc_params,
     gpio |-> gpio_params, bpb |-> bpb_params, pm |-> pm_params,
     pcu |-> pcu_params, vga |-> vga_params, fb |-> fb_params,
     kbd |-> kbd_params, ata |-> ata_params, cuc |-> cuc_params]

(* init_defconfig: the values of the components that have no sec_start.    *)
init_defconfig ==
    [sim |-> sim_default, cpu |-> cpu_default, pic |-> pic_default,
     debug |-> debug_default, VAPI |-> vapi_default, cuc |-> cuc_default,
     dc |-> dc_default, pm |-> [enabled |-> 0], pcu |-> [enabled |-> 0],
     bpb |-> [p \in DOMAIN bpb_params |-> 0]]

(* What sec_start gives for the others.                                    *)
SecStart(sec, ps) ==
    CASE sec = "vga" -> vga_sec_start(ps)
      [] sec = "fb" -> fb_sec_start(ps)
      [] OTHER ->
            [generic |-> generic_sec_start, memory |-> memory_sec_start,
             mc |-> mc_sec_start, uart |-> uart_sec_start, dma |-> dma_sec_start,
             ethernet |-> eth_sec_start, immu |-> immu_start_sec,
             dmmu |-> dmmu_start_sec, ic |-> ic_start_sec, gpio |-> gpio_sec_start,
             kbd |-> kbd_sec_start, ata |-> ata_sec_start][sec]

(* The area that sec_end registers: none for a component that is part of   *)
(* the processor or is not enabled.                                        *)
SecEnd(sec, d) ==
    CASE sec = "memory" -> memory_sec_end(d)
      [] sec = "generic" -> generic_sec_end(d)
      [] sec = "mc" -> mc_sec_end(d)
      [] sec = "uart" -> uart_sec_end(d)
      [] sec = "dma" -> dma_sec_end(d)
      [] sec = "ethernet" -> eth_sec_end(d)
      [] sec = "gpio" -> gpio_sec_end(d)
      [] sec = "vga" -> vga_sec_end(d)
      [] sec = "fb" -> fb_sec_end(d)
      [] sec = "kbd" -> kbd_sec_end(d)
      [] sec = "ata" -> ata_sec_end(d)
      [] OTHER -> {}

(* set_config_param: convert the text to the parameter's type and call the *)
(* setter, which writes d, the values of the section.                      *)
Setter(par, old, word) ==
    LET n == strtol(word) r == par.rule IN
    CASE r.by = "any" -> IF par.type = "int" THEN n ELSE word
      [] r.by = "among" -> IF n \in r.set THEN n ELSE old
      [] r.by = "orone" -> IF n \in r.set THEN n ELSE 1
      [] r.by = "clamp" -> IF n < r.lo THEN r.lo ELSE IF n > r.hi THEN r.hi ELSE n
      [] r.by = "bits" -> n % (2 ^ r.n)
      [] r.by = "or" -> old | (n % (2 ^ r.n))
      [] r.by = "choice" -> IF word \in DOMAIN r.choice THEN r.choice[word] ELSE old
      [] r.by = "orelse" -> IF word \in DOMAIN r.choice THEN r.choice[word] ELSE r.orelse
      [] r.by = "always" -> r.value

-----------------------------------------------------------------------------
LexemeOneLine(text, from) ==  \* mutant: only the opening word of a comment is skipped
    LET n == Len(text)
        at[p \in 1..(n + 1)] ==
            IF p = n + 1 THEN n + 1
            ELSE IF text[p] \in {"\n", "/*"} THEN at[p + 1] ELSE p
    IN at[from]

(* next_lexeme from position p of the text: the place of the next word     *)
(* outside comments, Len + 1 at the end of the file (an empty string too   *)
(* is reported as the end), 0 when a comment never ends (exit).            *)
next_lexeme(text, from) ==
    LET n == Len(text)
        at[p \in 1..(n + 1)] ==
            IF p = n + 1 THEN n + 1
            ELSE IF text[p] = "\n" THEN at[p + 1]
            ELSE IF text[p] = "/*"
                 THEN LET ends == {q \in p..n : text[q] = "*/"}
                      IN IF ends = {} THEN 0 ELSE at[Min(ends) + 1]
            ELSE p
    IN at[from]

(* next_word leaves the file after the word; after a string it has read    *)
(* one character more than the closing quotation mark.                     *)
After(text, p) ==
    IF /\ text[p] \in Strings \cup {""}
       /\ p < Len(text)
       /\ text[p + 1] = "\n"
    THEN p + 2 ELSE p + 1

(* Skip to the end of the line: the loop has no end without a line end.    *)
SkipLine(d, p) ==
    LET ends == {q \in p..Len(d.text) : d.text[q] = "\n"}
    IN IF ends = {} THEN [d EXCEPT !.st = "looping"]
       ELSE [d EXCEPT !.p = Min(ends) + 1]

-----------------------------------------------------------------------------
(* The special purpose registers that tell software of the configuration.  *)
UprBit == [dc |-> 2, ic |-> 4, dmmu |-> 8, immu |-> 16, debug |-> 64,
           pcu |-> 128, pm |-> 256, pic |-> 512]
SetBit(reg, bit, on) == reg - ((reg \div bit) % 2) * bit + Bit(on) * bit
Cfgr(sec, v) ==
    [sets |-> log2_int(v.nsets),
     ways |-> IF sec \in {"dc", "ic"} THEN log2_int(v.nways) ELSE v.nways - 1,
     cbs |-> sec \in {"dc", "ic"} /\ v.blocksize # 16]

(* Set a field of a configuration register, as the setters do: clear it,   *)
(* then write it.                                                          *)
set_cfgr(cfgr, sec, par, v) ==
    CASE par = "nsets" -> [cfgr EXCEPT !.sets = log2_int(v)]
      [] par = "nways" -> [cfgr EXCEPT !.ways =
            IF sec \in {"dc", "ic"} THEN log2_int(v) ELSE v - 1]
      [] par = "blocksize" -> [cfgr EXCEPT !.cbs = v # 16]
      [] OTHER -> cfgr

(* sec_start: the section's values anew, and its registers with them.      *)
sec_start(d, sec) ==
    IF sec \in DOMAIN init_defconfig THEN d
    ELSE LET v == SecStart(sec, d.conf.sim.clkcycle_ps) IN
         [d EXCEPT !.conf = (sec :> v) @@ @,
                   !.conf.cpu.upr = IF sec \in DOMAIN UprBit
                                    THEN SetBit(@, UprBit[sec], FALSE) ELSE @,
                   !.cfgr = IF sec \in {"ic", "dmmu", "immu"}
                            THEN (sec :> Cfgr(sec, v)) @@ @ ELSE @]

(* sec_end: a device gets its addresses, its reset and its status report.  *)
(* Addresses that overlap those of another device end the program.         *)
sec_end(d, sec) ==
    LET areas == IF sec \in DOMAIN init_defconfig THEN {} ELSE SecEnd(sec, d.conf[sec])
    IN IF areas = {} THEN d
       ELSE LET e == reg_mem_area(d, CHOOSE a \in areas : TRUE)
            IN IF e.exited THEN [e EXCEPT !.st = "exit"]
               ELSE [e EXCEPT !.made = Append(@, <<sec, d.conf[sec]>>)]

(* The parameters of an ATA disk go to the disk conf_dev names.  Two of    *)
(* the setters do not look whether it names one: what they then write is   *)
(* behind the two disks.                                                   *)
AtaSet(d, name, par, word) ==
    IF d.conf_dev \in 0..1
    THEN [d EXCEPT !.conf.ata.disks[d.conf_dev][name] = Setter(par, @, word)]
    ELSE [d EXCEPT !.wild = @ \/ (name \in {"mwdma", "pio"} /\ strtol(word) \in par.rule.set)]

(* What the setter of a parameter writes, v being the value it arrives at. *)
SetParam(d, sec, name, word, par, v) ==
    CASE par.to = "conf_dev" -> [d EXCEPT !.conf_dev = Setter(par, @, word)]
      [] sec = "ata" /\ name \in DOMAIN ata_disk_params -> AtaSet(d, name, par, word)
      [] par.rule.by = "nothing" -> d
      [] sec = "memory" /\ name = "type" /\ word \in {"zero", "exitnops"} ->
            [d EXCEPT !.conf.memory.type = v, !.conf.memory.pattern = 0]
      [] OTHER ->
            [d EXCEPT !.conf[sec][par.to] = v,
                      !.conf.cpu.upr = IF name = "enabled" /\ sec \in DOMAIN UprBit
                                       THEN SetBit(@, UprBit[sec], v # 0)
                                       ELSE IF sec = "cpu" /\ name = "upr" THEN v ELSE @,
                      !.cfgr = IF sec \in DOMAIN @ /\ v # d.conf[sec][par.to]
                               THEN [@ EXCEPT ![sec] = set_cfgr(@, sec, name, v)] ELSE @]

set_config_param(d, sec, name, word) ==
    LET par == reg_config_secs[sec][name]
    IN SetParam(d, sec, name, word, par, Setter(par, d.conf[sec][par.to], word))

-----------------------------------------------------------------------------
(* read_script_file: one round of its loop.  "lex" is the next word.       *)
Lex == next_lexeme(dev.text, dev.p)
AtEnd(p) == p > 0 /\ (p <= Len(dev.text) => dev.text[p] = "")

Reading == Is("config") /\ dev.st = "reading"

(* A comment that never ends is an error, the end of the file is the end.  *)
ReadStop ==
    /\ Reading
    /\ Lex = 0 \/ AtEnd(Lex)
    /\ dev' = [dev EXCEPT !.st = IF Lex = 0 THEN "exit" ELSE "args"]

(* "just skip section": up to the first word that is not "end", and past   *)
(* it.                                                                     *)
SkipEnds(text, from) ==
    LET n == Len(text)
        skip[p \in 1..(n + 2)] ==
            LET r == IF p > n THEN n + 1 ELSE next_lexeme(text, p)
            IN IF r \in 1..n /\ text[r] = "end" THEN skip[After(text, r)] ELSE r
    IN skip[from]

ReadSection ==
    /\ Reading /\ Lex > 0 /\ ~AtEnd(Lex)
    /\ ~dev.inside /\ dev.text[Lex] = "section"
    /\ LET q == next_lexeme(dev.text, After(dev.text, Lex)) IN
       dev' = IF q = 0 \/ AtEnd(q) THEN [dev EXCEPT !.st = "exit"]
              ELSE IF dev.text[q] \in DOMAIN reg_config_secs
              THEN [sec_start(dev, dev.text[q]) EXCEPT
                       !.inside = TRUE, !.sect = dev.text[q], !.p = After(dev.text, q)]
              ELSE LET s == SkipEnds(dev.text, After(dev.text, q))
                   IN IF s = 0 THEN [dev EXCEPT !.st = "exit"]
                      ELSE IF AtEnd(s) THEN [dev EXCEPT !.st = "args"]
                      ELSE [dev EXCEPT !.p = After(dev.text, s)]

ReadEnd ==
    /\ Reading /\ Lex > 0 /\ ~AtEnd(Lex)
    /\ dev.inside /\ dev.text[Lex] = "end"
    /\ dev' = [sec_end(dev, dev.sect) EXCEPT !.inside = FALSE,
                                           !.p = After(dev.text, Lex)]

(* A parameter: its value is the next word, or the one after an "=".  At   *)
(* the end of the file there is none, and no line end to skip to.          *)
ReadParam ==
    /\ Reading /\ Lex > 0 /\ ~AtEnd(Lex)
    /\ dev.inside /\ dev.text[Lex] # "end"
    /\ LET next == After(dev.text, Lex)
           name == dev.text[Lex]
           q == next_lexeme(dev.text, next)
           v == IF q > 0 /\ ~AtEnd(q) /\ dev.text[q] = "="
                THEN next_lexeme(dev.text, After(dev.text, q)) ELSE q
       IN dev' =
          IF name \notin DOMAIN reg_config_secs[dev.sect] THEN SkipLine(dev, next)
          ELSE IF v = 0 THEN [dev EXCEPT !.st = "exit"]
          ELSE IF AtEnd(v)
               THEN SkipLine(dev, IF v > Len(dev.text) THEN v ELSE After(dev.text, v))
          ELSE [set_config_param(dev, dev.sect, name, dev.text[v]) EXCEPT
                   !.p = After(dev.text, v)]

ReadOther ==
    /\ Reading /\ Lex > 0 /\ ~AtEnd(Lex)
    /\ ~dev.inside /\ dev.text[Lex] # "section"
    /\ dev' = SkipLine(dev, After(dev.text, Lex))

-----------------------------------------------------------------------------
(* --quiet excludes --verbose.                                             *)
verbosity(sim, args) ==
    [sim EXCEPT !.quiet = Bit("quiet" \in args),
                !.verbose = Bit("verbose" \in args /\ "quiet" \notin args)]

(* parse_args up to the file: help, version and errors end the program.    *)
(* A file that is found nowhere is ignored, with a warning.                *)
ParseBefore ==
    /\ Is("config") /\ dev.st = "start"
    /\ \E found \in BOOLEAN :
       dev' = IF dev.args \cap {"version", "help", "bad"} # {}
              THEN [dev EXCEPT !.st = "exit"]
              ELSE [dev EXCEPT
                 !.conf.sim = verbosity(@, dev.args),
                 !.read = "file" \in dev.args /\ found,
                 !.st = IF "file" \in dev.args /\ found THEN "reading" ELSE "args"]

(* alloc_memory_block: a section "memory" without a file.  No memory of    *)
(* size 0, nor one larger than the address space.  The size is written as  *)
(* a number and a line end into eleven bytes: of ten digits, the closing   *)
(* zero lies behind them.                                                  *)
alloc_memory_block(d, size) ==
    LET mem_size == size[1] * size[2]
        named == set_config_param(sec_start(d, "memory"), "memory", "name", "Default RAM")
        typed == set_config_param(named, "memory", "type", "unknown")
        based == set_config_param(typed, "memory", "baseaddr", "0")
    IN IF mem_size = 0 \/ mem_size > AreaTop - 1 THEN d
       ELSE sec_end([based EXCEPT !.conf.memory.size = mem_size,
                                  !.wild = @ \/ mem_size >= TenDigits], "memory")

(* parse_args after the file: the server, then the options that stand for  *)
(* parameters of the section sim.                                          *)
SetServer(d, args) ==
    IF "srv" \in args
    THEN [d EXCEPT !.conf.debug.enabled = 1, !.conf.debug.rsp_enabled = 1,
                   !.conf.debug.rsp_port = 49152]
    ELSE IF "nosrv" \in args
    THEN [d EXCEPT !.conf.debug.enabled = 0, !.conf.debug.rsp_enabled = 0]
    ELSE d
SetOptions(d, args) ==
    IF d.exited THEN d
    ELSE [SetServer(d, args) EXCEPT
             !.conf.sim.strict_npc = Bit("strict_npc" \in args),
             !.conf.sim.profile = Bit("profile" \in args),
             !.conf.sim.mprofile = Bit("mprofile" \in args),
             !.st = "done"]
ParseAfter ==
    /\ Is("config") /\ dev.st = "args"
    /\ LET sizes == dev.args \cap DOMAIN MemorySizes
       IN dev' = SetOptions(IF sizes = {} THEN dev
                            ELSE alloc_memory_block(dev, MemorySizes[CHOOSE z \in sizes : TRUE]),
                            dev.args)

(* set_config: the "set" command of the prompt calls the setter with the   *)
(* data of the section's last sec_start; without one, the pointer was      *)
(* never given a value.                                                    *)
set_config(c) ==
    /\ Is("config") /\ dev.st = "done"
    /\ dev' = IF \/ c[1] \notin DOMAIN reg_config_secs
                 \/ c[2] \notin DOMAIN reg_config_secs[c[1]]
              THEN [dev EXCEPT !.st = "used"]
              ELSE IF c[1] \notin DOMAIN dev.conf
              THEN [dev EXCEPT !.st = "undefined"]
              ELSE [set_config_param(dev, c[1], c[2], c[3]) EXCEPT !.st = "used"]

-----------------------------------------------------------------------------
(* How a body is written as a file.                                        *)
WriteParam(par, layout) ==
    IF Len(par) = 1 THEN <<par[1], "\n">>
    ELSE IF "equals" \in layout THEN <<par[1], "=", par[2], "\n">>
    ELSE <<par[1], par[2], "\n">>
WriteSection(s, layout) ==
    (IF "comment" \in layout THEN <<"/*", "section", "*/", "\n">> ELSE << >>)
    \o <<"section", s.sec, "\n">>
    \o FlattenSeq([i \in DOMAIN s.params |-> WriteParam(s.params[i], layout)])
    \o <<"end", "\n">>
WriteFile(body, layout) ==
    FlattenSeq([i \in DOMAIN body |-> WriteSection(body[i], layout)])

ConfigStart(body, text, args) ==
    [kind |-> "config", body |-> body, text |-> text, args |-> args, p |-> 1,
     inside |-> FALSE, sect |-> "", st |-> "start", conf |-> init_defconfig,
     cfgr |-> [dc |-> Cfgr("dc", dc_default)],
     areas |-> << >>, cur |-> 0, mc |-> 0, exited |-> FALSE,
     made |-> << >>, conf_dev |-> 0, wild |-> FALSE, read |-> FALSE]

ConfigInit ==
    \E body \in ConfigBodies, layout \in Layouts, args \in ArgSets :
        dev = ConfigStart(body, WriteFile(body, layout), args)

ConfigNext ==
    \/ ParseBefore
    \/ ReadStop \/ ReadSection \/ ReadEnd \/ ReadParam \/ ReadOther
    \/ ParseAfter
    \/ \E c \in SetCommands : set_config(c)

-----------------------------------------------------------------------------
(* What a body means: its sections in order, each with its own parameters. *)
Meant(d, s) ==
    IF s.sec \notin DOMAIN reg_config_secs THEN d
    ELSE LET one(e, par) ==
                IF par[1] \notin DOMAIN reg_config_secs[s.sec] THEN e
                ELSE set_config_param(e, s.sec, par[1], IF Len(par) = 1 THEN "" ELSE par[2])
         IN sec_end(FoldLeft(one, sec_start(d, s.sec), s.params), s.sec)

(* Sections that the reader gets through as they are written.  Not one     *)
(* with a known parameter that has no value or an empty one, as the        *)
(* "enddevice" of sim.cfg: the next word is taken for its value, though it *)
(* be the "end" of the section, and an empty one takes the next line with  *)
(* it.  Nor an unknown section without parameters, which swallows the      *)
(* beginning of the next one.                                              *)
Readable(s) ==
    IF s.sec \in DOMAIN reg_config_secs
    THEN \A i \in DOMAIN s.params :
            LET par == s.params[i] IN
            /\ par[1] # "end"
            /\ par[1] \in DOMAIN reg_config_secs[s.sec] => Len(par) = 2 /\ par[2] # ""
    ELSE /\ \E i \in DOMAIN s.params : s.params[i][1] # "end"
         /\ \A i \in DOMAIN s.params : "section" \notin Range(s.params[i])

(* A configuration file gives each section the parameters written in it    *)
(* and makes the devices it enables, whatever unknown sections and         *)
(* parameters stand between them: the reader arrives at the end of a file  *)
(* in the state that the file means, and each device answers at the        *)
(* address it was given.  Of a file with a section that cannot be read as  *)
(* it is written, this holds for the devices up to that section.  A file   *)
(* that is not found leaves the simulator as it was.                       *)
ConfigAsWritten ==
    Is("config") /\ dev.st = "args"
        => LET start == [ConfigStart(dev.body, << >>, {}) EXCEPT
                            !.conf.sim = verbosity(@, dev.args)]
               body == IF dev.read THEN dev.body ELSE << >>
               good == Max({k \in 0..Len(body) : \A i \in 1..k : Readable(body[i])})
               meant == FoldLeft(Meant, start, SubSeq(body, 1, good))
           IN /\ IsPrefix(meant.made, dev.made)
              /\ \A i \in DOMAIN meant.made :
                    dev.made[i][2].baseaddr \in AreaBytes(dev.areas[i])
              /\ good = Len(body) =>
                    dev.conf = meant.conf /\ dev.made = meant.made /\ ~dev.inside

(* Software finds the machine that was configured: the present bits of UPR *)
(* and the sizes in the configuration registers of the caches and MMUs are *)
(* those of the components, at the end of any file (that does not set UPR  *)
(* itself), misread ones included, and after any set command.  The debug   *)
(* unit is the exception: --srv and --nosrv turn it on and off without     *)
(* writing the bit.                                                        *)
SprsAgree ==
    Is("config")
        /\ (\A i \in DOMAIN dev.body : \A j \in DOMAIN dev.body[i].params :
               dev.body[i].params[j][1] # "upr")
        => /\ \A sec \in DOMAIN UprBit \cap DOMAIN dev.conf :
                \/ (dev.conf.cpu.upr \div UprBit[sec]) % 2 = Bit(dev.conf[sec].enabled # 0)
                \/ sec = "debug" /\ dev.st \in {"done", "used", "undefined"}
                     /\ dev.args \cap {"srv", "nosrv"} # {}
           /\ \A sec \in DOMAIN dev.cfgr : dev.cfgr[sec] = Cfgr(sec, dev.conf[sec])

(* The simulator that runs is the one that was described, by the file and  *)
(* the command line (read_script_file, parse_args), to itself and to       *)
(* software.                                                               *)
ConfigSound == ConfigAsWritten /\ SprsAgree
=============================================================================
