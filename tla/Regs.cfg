CONSTANTS
  Halves = {"a"}
  Odd = {"a"}
  FpgaId = "1"
  Used = {"scratch", "SHDN", "DAC_reg1", "FPGA_ID"}
  Strobes = {{"hi", "lo"}, {"hi"}}
  Overlap = {"scratch", "DAC_reg1"}
SPECIFICATION FairSpec
INVARIANTS NoStrayAnswer
PROPERTIES ActsAsRegisterFile LoadCarriesWord EveryAccessAnswered
