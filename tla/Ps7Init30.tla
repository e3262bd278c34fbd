----------------------------- MODULE Ps7Init30 -----------------------------
(* The start-up tables for silicon version 3.0 (ps7_init.c, ps7_*_3_0). *)
EXTENDS Ps7Ops

(* PLLs *)
ArmPll == PllSetup("armpll") \o <<MaskWrite("clk", "arm", {"cpu"})>>
DdrPll == PllSetup("ddrpll") \o <<MaskWrite("clk", "ddr", {"ddr"})>>
IoPll == PllSetup("iopll")
PllInitData == <<Unlock>> \o ArmPll \o DdrPll \o IoPll \o <<Lock, Exit>>

(* clocks: the units a write gives their clock *)
UnitClocks ==
  <<MaskWrite("clk", "dci", {"dci"}), MaskWrite("clk", "gem0_rx", {"enet0"}),
    MaskWrite("clk", "gem0", {"enet0"}), MaskWrite("clk", "lqspi", {"qspi"}),
    MaskWrite("clk", "sdio", {"sd0"}), MaskWrite("clk", "uart", {"uart0", "uart1"}),
    MaskWrite("clk", "can", {"can0"}), MaskWrite("clk", "can_mio", {}),
    MaskWrite("clk", "pcap", {"pcap"})>>
FabricClocks == Each("fabric", <<"fclk0", "fclk1", "ratio">>)
BusClocks ==
  <<MaskWrite("clk", "aper",
              {"dma", "usb0", "usb1", "enet0", "sd0", "can0", "i2c0", "i2c1",
               "uart0", "uart1", "gpio", "qspi", "smc"})>>
ClockInitData ==
  <<Unlock>> \o UnitClocks \o FabricClocks \o BusClocks \o <<Lock, Exit>>

(* DDR controller: registers by their offset *)
DdrQueues == Each("ddrc", <<\h4, \h8, \hC, \h10>>)
DdrTiming == Each("ddrc", <<\h14, \h18, \h1C, \h20>>)
DdrModes == Each("ddrc", <<\h24, \h28, \h2C, \h30, \h34>>)
DdrAddresses == Each("ddrc", <<\h38, \h3C, \h40, \h44>>)
DdrOdt == Each("ddrc", <<\h48, \h50, \h58, \h5C>>)
DdrControl == Each("ddrc", <<\h60, \h64, \h68, \h6C, \h78, \h7C>>)
DdrCalibration == Each("ddrc", <<\hA4, \hA8, \hAC, \hB0, \hB4, \hB8>>)
DdrEcc == Each("ddrc", <<\hC4, \hC8, \hDC, \hF0, \hF4>>)
PhyLanes == Each("ddrc", <<\h114, \h118, \h11C, \h120, \h124>>)
PhyRatios == Each("ddrc", <<\h12C, \h130, \h134, \h138>>)
PhyReads == Each("ddrc", <<\h140, \h144, \h148, \h14C>>)
PhyWrites == Each("ddrc", <<\h154, \h158, \h15C, \h160>>)
PhyGates == Each("ddrc", <<\h168, \h16C, \h170, \h174>>)
PhyWriteData == Each("ddrc", <<\h17C, \h180, \h184, \h188>>)
PhyMode == Each("ddrc", <<\h190, \h194>>)
WritePorts == Each("ddrc", <<\h204, \h208, \h20C, \h210, \h214>>)
ReadPorts == Each("ddrc", <<\h218, \h21C, \h220, \h224>>)
DdrStart == Each("ddrc", <<\h2A8, \h2AC, \h2B0, \h2B4>>)
DdrHold == <<MaskWrite("ddrc", 0, "held")>>
DdrAwaitDci == <<MaskPoll("dci", "done")>>
DdrRelease == <<MaskWrite("ddrc", 0, "released"), MaskPoll("ddrc", "mode")>>
DdrSettings ==
  DdrQueues \o DdrTiming \o DdrModes \o DdrAddresses \o DdrOdt \o DdrControl
  \o DdrCalibration \o DdrEcc \o PhyLanes \o PhyRatios \o PhyReads \o PhyWrites
  \o PhyGates \o PhyWriteData \o PhyMode \o WritePorts \o ReadPorts \o DdrStart
DdrInitData == DdrHold \o DdrSettings \o DdrAwaitDci \o DdrRelease \o <<Exit>>

(* DDR pads and the pin multiplexers *)
AddressPads == Each("ddriob", <<"addr0", "addr1">>)
DataPads ==
  <<MaskWrite("ddriob", "data0", "on"), MaskWrite("ddriob", "data1", "on"),
    MaskWrite("ddriob", "diff0", "on"), MaskWrite("ddriob", "diff1", "on")>>
PadDrive ==
  Each("ddriob", <<"clock", "drive_addr", "drive_data", "drive_diff", "drive_clock">>)
DciSetup ==
  <<MaskWrite("ddriob", "ctrl", "set"), MaskWrite("dci", "reset", "on"),
    MaskWrite("dci", "reset", "off"), MaskWrite("dci", "enable", "on")>>
SparePin0 == Pins(0, 0, "gpio")
FlashPins == Pins(1, 6, "qspi")
SparePin7 == Pins(7, 7, "gpio")
FlashClockPin == Pins(8, 8, "qspi")
SparePin9 == Pins(9, 9, "gpio")
ConsolePins == Pins(10, 11, "uart0")
I2cPins == Pins(12, 13, "i2c1")
CanPins == Pins(14, 15, "can0")
EnetTxPins == Pins(16, 21, "enet0")
EnetRxPins == Pins(22, 27, "enet0")
UsbLinkPins == Pins(28, 31, "usb0")
UsbLowPins == Pins(32, 35, "usb0")
UsbHighPins == Pins(36, 39, "usb0")
CardPins == Pins(40, 45, "sd0")
CardSensePins == Pins(46, 47, "sd0")
UartPins == Pins(48, 49, "uart1")
GpioPins == Pins(50, 51, "gpio")
MdioPins == Pins(52, 53, "enet0")
CardSense == <<MaskWrite("sdio", "wp_cd", "set")>>
PadInit == AddressPads \o DataPads \o PadDrive \o DciSetup
PinInit ==
  SparePin0 \o FlashPins \o SparePin7 \o FlashClockPin \o SparePin9
  \o ConsolePins \o I2cPins \o CanPins \o EnetTxPins \o EnetRxPins
  \o UsbLinkPins \o UsbLowPins \o UsbHighPins \o CardPins \o CardSensePins
  \o UartPins \o GpioPins \o MdioPins
MioInitData == <<Unlock>> \o PadInit \o PinInit \o CardSense \o <<Lock, Exit>>

(* peripherals *)
PadTermination ==
  <<Unlock>> \o Each("ddriob", <<"term0", "term1", "dterm0", "dterm1">>) \o <<Lock>>
UartInit ==
  Each("uart1", <<"divider", "baud", "control", "mode">>)
  \o Each("uart0", <<"divider", "baud", "control", "mode">>)
FlashAndFabric ==
  <<MaskWrite("qspi", "hold", "set"), MaskWrite("devcfg", "por", "set")>>
UsbReset ==
  <<MaskWrite("gpio", "direction", "pin51"), MaskWrite("gpio", "pin51", "high"),
    MaskWrite("gpio", "output", "pin51"), MaskWrite("gpio", "pin51", "low"),
    MaskDelay, MaskWrite("gpio", "pin51", "high")>>
PeripheralsInitData ==
  PadTermination \o UartInit \o FlashAndFabric \o UsbReset \o <<Exit>>

(* after the bitstream *)
PostConfig ==
  <<Unlock, MaskWrite("slcr", "shifters", "on"),
    MaskWrite("slcr", "fpga_resets", "off"), Lock, Exit>>
Debug ==
  <<Write("cti", "cpu0", "key"), Write("cti", "cpu1", "key"),
    Write("cti", "ftm", "key"), Exit>>
=============================================================================
