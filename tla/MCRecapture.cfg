CONSTANTS
  in4 = in4
  tproxy = tproxy
  usb = usb
  Guards = {in4}
  Captures = {tproxy}
  Interfaces = {usb}
  MaxAddr = 1
SPECIFICATION Spec
PROPERTY NoRecapture
